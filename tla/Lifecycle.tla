----------------------------- MODULE Lifecycle -----------------------------
(***************************************************************************)
(* The life of the pgmemd process: main with its teardown, the HTTP        *)
(* handlers, the background thread of MemoryEngine with its condition      *)
(* variable, and the worker of EloqStoreAdapter that compacts the store.   *)
(*                                                                         *)
(* What a request does to the records is in MemoryEngine; here it is one   *)
(* step during which the handler uses the store.  gc_mu_ is taken by the   *)
(* background thread alone and orders nothing.                             *)
(***************************************************************************)
EXTENDS Integers

CONSTANTS
    Handler,          \* threads of the HTTP server
    PartitionCount,   \* num_partitions_
    AppendMode,       \* data_append_mode with a file_amplify_factor
    Nobody            \* compact_mu_ is free

ASSUME LifecycleAssumption ==
    /\ PartitionCount \in Nat \ {0} /\ AppendMode \in BOOLEAN
    /\ Nobody \notin Handler

VARIABLES
    main,             \* where main is
    g_running,
    ready,
    running,          \* HttpServer::running_: requests are accepted
    h,                \* where each handler is, "idle" without a request
    gc,               \* where gc_thread_ is
    gc_stop, gc_requested,
    worker,           \* compact_worker_: "none" if not joinable, else what the thread does
    pid,              \* its partition
    compact_mu,       \* who holds it from one step to the next
    compact_running,
    started,          \* the store is running
    owed              \* history: a compaction was asked for and has not begun

mainVars == <<main, g_running, ready, running, started>>
gcVars == <<gc, gc_stop, gc_requested, owed>>
compactVars == <<worker, pid, compact_mu, compact_running>>
vars == <<mainVars, h, gcVars, compactVars>>

\* The store has started and the engine was constructed, with its thread.
Init ==
    /\ main = "start" /\ g_running = TRUE /\ ready = FALSE /\ running = FALSE /\ started = TRUE
    /\ h = [t \in Handler |-> "idle"]
    /\ gc = "loop" /\ gc_stop = FALSE /\ gc_requested = FALSE /\ owed = FALSE
    /\ worker = "none" /\ pid = 0 /\ compact_mu = Nobody /\ compact_running = FALSE

\* A notification is lost on a thread that does not wait yet.
Notify == gc' = IF gc = "waiting" THEN "test" ELSE gc

-----------------------------------------------------------------------------
(* main *)

ServerStart ==
    /\ main = "start"
    /\ \/ main' = "warmup" /\ running' = TRUE
       \/ main' = "teardown" /\ running' = FALSE
    /\ UNCHANGED <<g_running, ready, started, h, gcVars, compactVars>>

Warmup ==
    /\ main = "warmup"
    /\ \/ main' = "serving" /\ ready' = TRUE
       \/ main' = "stop" /\ ready' = FALSE
    /\ UNCHANGED <<g_running, running, started, h, gcVars, compactVars>>

OnSignal ==
    /\ g_running /\ g_running' = FALSE
    /\ UNCHANGED <<main, ready, running, started, h, gcVars, compactVars>>

ServeLoop ==
    /\ main = "serving" /\ ~g_running /\ main' = "stop"
    /\ UNCHANGED <<g_running, ready, running, started, h, gcVars, compactVars>>

ServerStop ==
    /\ main = "stop" /\ main' = "join" /\ running' = FALSE
    /\ UNCHANGED <<g_running, ready, started, h, gcVars, compactVars>>

\* Mutant of ServerJoin: handlers are not waited for.
ServerJoin_NoWait ==
    /\ main = "join" /\ main' = "teardown"
    /\ UNCHANGED <<g_running, ready, running, started, h, gcVars, compactVars>>

ServerJoin ==
    /\ main = "join" /\ \A t \in Handler : h[t] = "idle"
    /\ main' = "teardown"
    /\ UNCHANGED <<g_running, ready, running, started, h, gcVars, compactVars>>

\* The destructor of the engine ...
Shutdown ==
    /\ main = "teardown" /\ main' = "notify" /\ gc_stop' = TRUE
    /\ UNCHANGED <<g_running, ready, running, started, h, gc, gc_requested, owed, compactVars>>

ShutdownNotify ==
    /\ main = "notify" /\ main' = "join_gc" /\ Notify
    /\ UNCHANGED <<g_running, ready, running, started, h, gc_stop, gc_requested, owed, compactVars>>

ShutdownJoin ==
    /\ main = "join_gc" /\ gc = "ended" /\ main' = "join_worker"
    /\ UNCHANGED <<g_running, ready, running, started, h, gcVars, compactVars>>

\* ... and, with its member store_, that of the adapter.
StoreJoin ==
    /\ main = "join_worker" /\ worker \in {"none", "ended"}
    /\ main' = "stop_store" /\ worker' = "none"
    /\ UNCHANGED <<g_running, ready, running, started, h, gcVars, pid, compact_mu, compact_running>>

StoreStop ==
    /\ main = "stop_store" /\ main' = "done" /\ started' = FALSE
    /\ UNCHANGED <<g_running, ready, running, h, gcVars, compactVars>>

MainStep ==
    \/ ServerStart \/ Warmup \/ ServeLoop \/ ServerStop \/ ServerJoin
    \/ Shutdown \/ ShutdownNotify \/ ShutdownJoin \/ StoreJoin \/ StoreStop

-----------------------------------------------------------------------------
(* Handlers *)

Goto(t, there) == h' = [h EXCEPT ![t] = there]

\* A request that finds the server warming up is refused and leaves no trace.
Accept(t) ==
    /\ running /\ ready /\ h[t] = "idle" /\ Goto(t, "rpc")
    /\ UNCHANGED <<mainVars, gcVars, compactVars>>

\* Malformed requests and the methods of the protocol itself (initialize, ping,
\* tools/list) are answered here, the others by the dispatcher.
HandleMcpJsonRpc(t) ==
    /\ h[t] = "rpc"
    /\ Goto(t, "idle") \/ Goto(t, "handle")
    /\ UNCHANGED <<mainVars, gcVars, compactVars>>

\* An unknown method and memory.describe; write, query, pin, stats and compact;
\* store.compact.
Handle(t) ==
    /\ h[t] = "handle"
    /\ Goto(t, "idle") \/ Goto(t, "engine") \/ Goto(t, "trigger")
    /\ UNCHANGED <<mainVars, gcVars, compactVars>>

\* Write and Pin end in MaybeScheduleGc if they succeed, other requests do not.
Engine(t) ==
    /\ h[t] = "engine"
    /\ Goto(t, "idle") \/ Goto(t, "usage")
    /\ UNCHANGED <<mainVars, gcVars, compactVars>>

\* The usage is over the watermark or it is not.
MaybeScheduleGc(t) ==
    /\ h[t] = "usage"
    /\ Goto(t, "idle") \/ Goto(t, "request")
    /\ UNCHANGED <<mainVars, gcVars, compactVars>>

RequestGc(t) ==
    /\ h[t] = "request" /\ Goto(t, "notify")
    /\ gc_requested' = TRUE /\ owed' = TRUE
    /\ UNCHANGED <<mainVars, gc, gc_stop, compactVars>>

NotifyGc(t) ==
    /\ h[t] = "notify" /\ Goto(t, "idle") /\ Notify
    /\ UNCHANGED <<mainVars, gc_stop, gc_requested, owed, compactVars>>

TriggerStoreCompactAsync(t) ==
    /\ h[t] = "trigger"
    /\ Goto(t, IF started /\ AppendMode THEN "lock" ELSE "idle")
    /\ UNCHANGED <<mainVars, gcVars, compactVars>>

\* Mutant of TriggerLock: a worker that still runs is joined.
TriggerLock_NoBusy(t) ==
    /\ h[t] = "lock" /\ compact_mu = Nobody
    /\ compact_mu' = t /\ Goto(t, IF worker = "none" THEN "launch" ELSE "join")
    /\ UNCHANGED <<mainVars, gcVars, worker, pid, compact_running>>

\* Mutant of TriggerLock: the worker of an earlier compaction is not joined.
TriggerLock_NoJoin(t) ==
    /\ h[t] = "lock" /\ compact_mu = Nobody
    /\ \/ compact_running /\ Goto(t, "idle") /\ UNCHANGED compact_mu
       \/ ~compact_running /\ compact_mu' = t /\ Goto(t, "launch")
    /\ UNCHANGED <<mainVars, gcVars, worker, pid, compact_running>>

\* Busy, or the caller keeps the mutex; a worker that has ended its work is
\* still to be joined.
TriggerLock(t) ==
    /\ h[t] = "lock" /\ compact_mu = Nobody
    /\ \/ compact_running /\ Goto(t, "idle") /\ UNCHANGED compact_mu
       \/ /\ ~compact_running /\ compact_mu' = t
          /\ Goto(t, IF worker = "none" THEN "launch" ELSE "join")
    /\ UNCHANGED <<mainVars, gcVars, worker, pid, compact_running>>

TriggerJoin(t) ==
    /\ h[t] = "join" /\ worker = "ended"
    /\ worker' = "none" /\ Goto(t, "launch")
    /\ UNCHANGED <<mainVars, gcVars, pid, compact_mu, compact_running>>

TriggerLaunch(t) ==
    /\ h[t] = "launch" /\ Goto(t, "idle")
    /\ compact_running' = TRUE /\ worker' = "compacting" /\ pid' = 0
    /\ compact_mu' = Nobody
    /\ UNCHANGED <<mainVars, gcVars>>

HandlerStep(t) ==
    \/ HandleMcpJsonRpc(t) \/ Handle(t)
    \/ Engine(t) \/ MaybeScheduleGc(t) \/ RequestGc(t) \/ NotifyGc(t)
    \/ TriggerStoreCompactAsync(t) \/ TriggerLock(t) \/ TriggerJoin(t) \/ TriggerLaunch(t)

-----------------------------------------------------------------------------
(* The worker *)

\* Mutant of CompactPartition: off by one.
CompactPartition_OffByOne ==
    /\ worker = "compacting" /\ pid <= PartitionCount /\ pid' = pid + 1
    /\ UNCHANGED <<mainVars, h, gcVars, worker, compact_mu, compact_running>>

\* One compaction; an error is counted and the next partition follows.
CompactPartition ==
    /\ worker = "compacting" /\ pid < PartitionCount /\ pid' = pid + 1
    /\ UNCHANGED <<mainVars, h, gcVars, worker, compact_mu, compact_running>>

\* It needs the mutex to say that it has ended,
CompactDone ==
    /\ worker = "compacting" /\ pid = PartitionCount /\ compact_mu = Nobody
    /\ worker' = "ending" /\ compact_running' = FALSE
    /\ UNCHANGED <<mainVars, h, gcVars, pid, compact_mu>>

\* and ends a little later.
CompactExit ==
    /\ worker = "ending" /\ worker' = "ended"
    /\ UNCHANGED <<mainVars, h, gcVars, pid, compact_mu, compact_running>>

RunCompactWorker == CompactPartition \/ CompactDone \/ CompactExit

-----------------------------------------------------------------------------
(* The background thread *)

GcGoto(from, to) == gc = from /\ gc' = to /\ UNCHANGED <<mainVars, h, compactVars>>

GcLoop ==
    /\ GcGoto("loop", IF gc_stop THEN "ended" ELSE "test")
    /\ UNCHANGED <<gc_stop, gc_requested, owed>>

\* The predicate of wait_for ...
GcTest ==
    /\ GcGoto("test", IF gc_stop \/ gc_requested THEN "woken" ELSE "block")
    /\ UNCHANGED <<gc_stop, gc_requested, owed>>

\* ... and, a moment later, the wait.
GcBlock ==
    /\ GcGoto("block", "waiting")
    /\ UNCHANGED <<gc_stop, gc_requested, owed>>

\* Mutant of GcTimeout: wait instead of wait_for.
GcTimeout_Never == FALSE

GcTimeout ==
    /\ GcGoto("waiting", "woken")
    /\ UNCHANGED <<gc_stop, gc_requested, owed>>

\* A condition variable may wake a thread without a reason.
GcSpurious ==
    /\ GcGoto("waiting", "test")
    /\ UNCHANGED <<gc_stop, gc_requested, owed>>

GcWoken ==
    /\ GcGoto("woken", IF gc_stop THEN "ended" ELSE "clear")
    /\ UNCHANGED <<gc_stop, gc_requested, owed>>

GcClear ==
    /\ GcGoto("clear", "compact") /\ gc_requested' = FALSE
    /\ UNCHANGED <<gc_stop, owed>>

\* CompactInternal reads the usage first: what was asked for before counts.
GcCompact ==
    /\ GcGoto("compact", "compacting") /\ owed' = FALSE
    /\ UNCHANGED <<gc_stop, gc_requested>>

\* Mutant of GcCompacted: the request is cleared when the compaction is over.
GcCompacted_Clears ==
    /\ GcGoto("compacting", "loop") /\ gc_requested' = FALSE
    /\ UNCHANGED <<gc_stop, owed>>

GcCompacted ==
    /\ GcGoto("compacting", "loop")
    /\ UNCHANGED <<gc_stop, gc_requested, owed>>

RunGcLoop ==
    GcLoop \/ GcTest \/ GcBlock \/ GcTimeout \/ GcWoken \/ GcClear \/ GcCompact \/ GcCompacted

-----------------------------------------------------------------------------
\* The process is gone.
Done == main = "done" /\ UNCHANGED vars

Next ==
    \/ MainStep \/ OnSignal
    \/ \E t \in Handler : Accept(t) \/ HandlerStep(t)
    \/ RunCompactWorker \/ RunGcLoop \/ GcSpurious
    \/ Done

Spec == Init /\ [][Next]_vars

\* Every thread runs, wait_for times out, Warmup and requests end (RequestsEnd
\* of MemoryEngineProps), and a mutex that is free again and again is got.
FairSpec ==
    /\ Spec
    /\ WF_vars(MainStep) /\ WF_vars(RunGcLoop) /\ WF_vars(RunCompactWorker)
    /\ \A t \in Handler : WF_vars(HandlerStep(t)) /\ SF_vars(TriggerLock(t))

-----------------------------------------------------------------------------
\* The type invariant of the process.
LifecycleTypeOK ==
    /\ main \in {"start", "warmup", "serving", "stop", "join", "teardown", "notify", "join_gc",
                 "join_worker", "stop_store", "done"}
    /\ g_running \in BOOLEAN /\ ready \in BOOLEAN /\ running \in BOOLEAN /\ started \in BOOLEAN
    /\ h \in [Handler -> {"idle", "rpc", "handle", "engine", "usage", "request", "notify",
                         "trigger", "lock", "join", "launch"}]
    /\ gc \in {"loop", "test", "block", "waiting", "woken", "clear", "compact", "compacting", "ended"}
    /\ gc_stop \in BOOLEAN /\ gc_requested \in BOOLEAN /\ owed \in BOOLEAN
    /\ worker \in {"none", "compacting", "ending", "ended"} /\ pid \in 0..PartitionCount
    /\ compact_mu \in Handler \cup {Nobody} /\ compact_running \in BOOLEAN

\* The threads that may call the store or touch the engine next.
Busy ==
    \/ main = "warmup"
    \/ \E t \in Handler : h[t] # "idle"
    \/ gc # "ended"
    \/ worker \notin {"none", "ended"}

\* The store is stopped, and engine and adapter go, only when no handler, no
\* background thread and no compaction worker is left that could use them.
NothingOutlivesStore == Busy => started

\* A compaction that MaybeScheduleGc asked for is not forgotten: the flag is
\* set, or the background thread has taken it and is about to compact.  A request
\* made while a compaction runs counts for the next one.
RequestNotForgotten == owed => gc_requested \/ gc = "compact"

\* A worker is started only into a compact_worker_ that is not joinable (else
\* std::terminate ends the process), and compact_running_ tells the truth:
\* whoever finds it false can join without waiting for a compaction.
WorkerReplacedSafely ==
    /\ \A t \in Handler : h[t] = "launch" => worker = "none" /\ compact_mu = t
    /\ \A t \in Handler : h[t] = "join" => worker \in {"ending", "ended"} /\ compact_mu = t
    /\ compact_running <=> worker = "compacting"

\* A signal stops the process, although gc_stop_ is set without gc_mu_ and
\* its notification can be lost.
ShutdownEnds == ~g_running ~> main = "done"

\* A compaction that was asked for begins, unless the process ends.
GcHonoured == owed ~> (~owed \/ gc_stop)

\* No handler waits for ever, TriggerStoreCompactAsync included, which joins a
\* thread that needs the mutex it holds.
HandlersReturn == \A t \in Handler : h[t] # "idle" ~> h[t] = "idle"
=============================================================================
