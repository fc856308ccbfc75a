-------------------------- MODULE LifecycleProofs --------------------------
(* Proofs about Lifecycle, for any number of handlers and partitions.      *)
EXTENDS Lifecycle, TLAPS

\* The type invariant in two parts, for provers of two kinds.
FlagsOK ==
    /\ g_running \in BOOLEAN /\ ready \in BOOLEAN /\ running \in BOOLEAN /\ started \in BOOLEAN
    /\ gc_stop \in BOOLEAN /\ gc_requested \in BOOLEAN /\ owed \in BOOLEAN /\ compact_running \in BOOLEAN
PlacesOK ==
    /\ main \in {"start", "warmup", "serving", "stop", "join", "teardown", "notify", "join_gc",
                 "join_worker", "stop_store", "done"}
    /\ h \in [Handler -> {"idle", "rpc", "handle", "engine", "usage", "request", "notify",
                         "trigger", "lock", "join", "launch"}]
    /\ gc \in {"loop", "test", "block", "waiting", "woken", "clear", "compact", "compacting", "ended"}
    /\ worker \in {"none", "compacting", "ending", "ended"} /\ pid \in 0..PartitionCount
    /\ compact_mu \in Handler \cup {Nobody}

\* What main has waited for when it gets to a step of the teardown.
Teardown ==
    /\ running => main \in {"warmup", "serving", "stop"}
    /\ main \in {"start", "teardown", "notify", "join_gc", "join_worker", "stop_store", "done"} =>
           \A t \in Handler : h[t] = "idle"
    /\ main \in {"join_worker", "stop_store", "done"} => gc = "ended"
    /\ main \in {"stop_store", "done"} => worker = "none"
    /\ ~started => main = "done"

LifecycleInv ==
    /\ FlagsOK /\ PlacesOK /\ Teardown
    /\ RequestNotForgotten /\ WorkerReplacedSafely

-----------------------------------------------------------------------------
LEMMA LifecycleInit == Init => LifecycleInv
<1>1. Init => FlagsOK BY DEF Init, FlagsOK
<1>2. Init => PlacesOK BY LifecycleAssumption DEF Init, PlacesOK
<1>3. Init => Teardown /\ RequestNotForgotten /\ WorkerReplacedSafely
  BY DEF Init, Teardown, RequestNotForgotten, WorkerReplacedSafely
<1> QED BY <1>1, <1>2, <1>3 DEF LifecycleInv

\* main: each join lets it pass only when the threads it waits for are gone.
LEMMA MainKeeps == LifecycleInv /\ (MainStep \/ OnSignal) => LifecycleInv'
<1> SUFFICES ASSUME LifecycleInv, MainStep \/ OnSignal PROVE LifecycleInv' OBVIOUS
<1> USE DEF LifecycleInv, mainVars, gcVars, compactVars
<1>1. FlagsOK'
  BY ZenonT(60) DEF FlagsOK, MainStep, OnSignal, ServerStart, Warmup, ServeLoop, ServerStop, ServerJoin,
         Shutdown, ShutdownNotify, ShutdownJoin, StoreJoin, StoreStop, Notify
<1>1b. PlacesOK'
  BY DEF PlacesOK, MainStep, OnSignal, ServerStart, Warmup, ServeLoop, ServerStop, ServerJoin,
         Shutdown, ShutdownNotify, ShutdownJoin, StoreJoin, StoreStop, Notify
<1>2. Teardown'
  BY DEF PlacesOK, Teardown, MainStep, OnSignal, ServerStart, Warmup, ServeLoop, ServerStop,
         ServerJoin, Shutdown, ShutdownNotify, ShutdownJoin, StoreJoin, StoreStop, Notify
<1>3. RequestNotForgotten'
  BY DEF RequestNotForgotten, MainStep, OnSignal, ServerStart, Warmup, ServeLoop, ServerStop, ServerJoin,
         Shutdown, ShutdownNotify, ShutdownJoin, StoreJoin, StoreStop, Notify
<1>4. WorkerReplacedSafely'
  BY DEF WorkerReplacedSafely, Teardown, MainStep, OnSignal, ServerStart, Warmup, ServeLoop, ServerStop,
         ServerJoin, Shutdown, ShutdownNotify, ShutdownJoin, StoreJoin, StoreStop
<1> QED BY <1>1, <1>1b, <1>2, <1>3, <1>4

\* A handler is away from idle only while the server runs or is being joined.
LEMMA HandlerKeeps ==
    ASSUME LifecycleInv, NEW t \in Handler, Accept(t) \/ HandlerStep(t)
    PROVE  LifecycleInv'
<1> USE DEF LifecycleInv, mainVars, gcVars, compactVars
<1>1. main \in {"warmup", "serving", "stop", "join"}
  BY DEF PlacesOK, Teardown, Accept, HandlerStep, HandleMcpJsonRpc, Handle, Engine, MaybeScheduleGc, RequestGc, NotifyGc,
         TriggerStoreCompactAsync, TriggerLock, TriggerJoin, TriggerLaunch
<1>2. UNCHANGED <<main, g_running, ready, running, started>>
  BY DEF Accept, HandlerStep, HandleMcpJsonRpc, Handle, Engine, MaybeScheduleGc, RequestGc, NotifyGc,
         TriggerStoreCompactAsync, TriggerLock, TriggerJoin, TriggerLaunch
<1>3. FlagsOK'
  BY LifecycleAssumption, ZenonT(60)
     DEF FlagsOK, Goto, Notify, Accept, HandlerStep, HandleMcpJsonRpc, Handle, Engine, MaybeScheduleGc, RequestGc,
         NotifyGc, TriggerStoreCompactAsync, TriggerLock, TriggerJoin, TriggerLaunch
<1>3b. PlacesOK'
  BY LifecycleAssumption
     DEF PlacesOK, Goto, Notify, Accept, HandlerStep, HandleMcpJsonRpc, Handle, Engine, MaybeScheduleGc, RequestGc,
         NotifyGc, TriggerStoreCompactAsync, TriggerLock, TriggerJoin, TriggerLaunch
<1>4. Teardown' BY <1>1, <1>2 DEF Teardown
<1>5. RequestNotForgotten'
  BY DEF RequestNotForgotten, Notify, Accept, HandlerStep, HandleMcpJsonRpc, Handle, Engine, MaybeScheduleGc, RequestGc,
         NotifyGc, TriggerStoreCompactAsync, TriggerLock, TriggerJoin, TriggerLaunch
<1>6. WorkerReplacedSafely'
  <2>1. CASE Accept(t) \/ HandleMcpJsonRpc(t) \/ Handle(t) \/ Engine(t) \/ MaybeScheduleGc(t) \/ RequestGc(t) \/ NotifyGc(t)
             \/ TriggerStoreCompactAsync(t)
    BY <2>1 DEF WorkerReplacedSafely, PlacesOK, Goto, Accept, HandleMcpJsonRpc, Handle, Engine, MaybeScheduleGc,
                RequestGc, NotifyGc, TriggerStoreCompactAsync
  <2>2. CASE TriggerLock(t)
    BY <2>2, LifecycleAssumption DEF WorkerReplacedSafely, PlacesOK, Goto, TriggerLock
  <2>3. CASE TriggerJoin(t)
    BY <2>3 DEF WorkerReplacedSafely, PlacesOK, Goto, TriggerJoin
  <2>4. CASE TriggerLaunch(t)
    BY <2>4 DEF WorkerReplacedSafely, PlacesOK, Goto, TriggerLaunch
  <2> QED BY <2>1, <2>2, <2>3, <2>4 DEF HandlerStep
<1> QED BY <1>3, <1>3b, <1>4, <1>5, <1>6

\* The worker clears compact_running_ only while nobody holds the mutex.
LEMMA WorkerKeeps == LifecycleInv /\ RunCompactWorker => LifecycleInv'
<1> SUFFICES ASSUME LifecycleInv, RunCompactWorker PROVE LifecycleInv' OBVIOUS
<1> USE DEF LifecycleInv, mainVars, gcVars, RunCompactWorker, CompactPartition, CompactDone, CompactExit
<1>1. FlagsOK' BY LifecycleAssumption DEF FlagsOK
<1>1b. PlacesOK' BY LifecycleAssumption DEF PlacesOK
<1>2. Teardown' BY DEF Teardown
<1>3. RequestNotForgotten' BY DEF RequestNotForgotten
<1>4. WorkerReplacedSafely' BY LifecycleAssumption DEF WorkerReplacedSafely
<1> QED BY <1>1, <1>1b, <1>2, <1>3, <1>4

\* The background thread clears the flag just before it compacts.
LEMMA GcKeeps == LifecycleInv /\ (RunGcLoop \/ GcSpurious) => LifecycleInv'
<1> SUFFICES ASSUME LifecycleInv, RunGcLoop \/ GcSpurious PROVE LifecycleInv' OBVIOUS
<1> USE DEF LifecycleInv, GcGoto, mainVars, compactVars, RunGcLoop, GcLoop, GcTest, GcBlock, GcTimeout,
            GcSpurious, GcWoken, GcClear, GcCompact, GcCompacted
<1>1. FlagsOK' BY ZenonT(60) DEF FlagsOK
<1>1b. PlacesOK' BY DEF PlacesOK
<1>2. Teardown' BY DEF Teardown
<1>3. RequestNotForgotten' BY DEF RequestNotForgotten
<1>4. WorkerReplacedSafely' BY DEF WorkerReplacedSafely
<1> QED BY <1>1, <1>1b, <1>2, <1>3, <1>4

LEMMA LifecycleStep == LifecycleInv /\ [Next]_vars => LifecycleInv'
<1> SUFFICES ASSUME LifecycleInv, [Next]_vars PROVE LifecycleInv' OBVIOUS
<1>1. CASE UNCHANGED vars
  BY <1>1 DEF vars, mainVars, gcVars, compactVars, LifecycleInv, FlagsOK, PlacesOK, Teardown,
              RequestNotForgotten, WorkerReplacedSafely
<1>2. CASE Next
  BY <1>1, <1>2, MainKeeps, HandlerKeeps, WorkerKeeps, GcKeeps DEF Next, Done
<1> QED BY <1>1, <1>2

\* The inductive invariant: types, the order of the teardown, and the
\* protocols of gc_requested_ and compact_worker_.
THEOREM LifecycleInvariant == Spec => []LifecycleInv
<1> QED BY LifecycleInit, LifecycleStep, PTL DEF Spec

\* The process is type correct.
THEOREM LifecycleTypeCorrect == Spec => []LifecycleTypeOK
<1>1. LifecycleInv => LifecycleTypeOK BY DEF LifecycleInv, FlagsOK, PlacesOK, LifecycleTypeOK
<1> QED BY <1>1, LifecycleInvariant, PTL

\* No thread outlives the store, the engine or the adapter that it uses.
THEOREM StoreOutlivesThreads == Spec => []NothingOutlivesStore
<1>1. LifecycleInv => NothingOutlivesStore
  BY DEF LifecycleInv, PlacesOK, Teardown, NothingOutlivesStore, Busy
<1> QED BY <1>1, LifecycleInvariant, PTL

\* A request for a background compaction is never lost between flag and run.
THEOREM RequestsAreKept == Spec => []RequestNotForgotten
<1>1. LifecycleInv => RequestNotForgotten BY DEF LifecycleInv
<1> QED BY <1>1, LifecycleInvariant, PTL

\* compact_worker_ is never overwritten while joinable, and a thread joined
\* under compact_mu_ does not need compact_mu_ any more.
THEOREM WorkersAreReplacedSafely == Spec => []WorkerReplacedSafely
<1>1. LifecycleInv => WorkerReplacedSafely BY DEF LifecycleInv
<1> QED BY <1>1, LifecycleInvariant, PTL
=============================================================================
