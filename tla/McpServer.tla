------------------------------ MODULE McpServer ------------------------------
(***************************************************************************)
(* The HTTP and JSON-RPC front of the server: the routes of                *)
(* src/apps/pgmemd_main.cpp with HandleMcpJsonRpc and the normalisation of *)
(* results, HttpServer::Dispatch of src/net/http_server.cpp, and the       *)
(* methods of src/mcp/mcp_dispatcher.cpp.  Results are seen by the JSON    *)
(* type of every field.  The engine and the store's compaction worker have *)
(* modules of their own; here a method runs in one step.                   *)
(***************************************************************************)
EXTENDS Integers

CONSTANTS
    Conn,       \* connections, each with one request at a time
    Requests,   \* the requests a connection sends
    AppendMode  \* the store has a compaction to run

VARIABLES
    ready,      \* Warmup has finished
    compacting, \* compact_running_ of the store
    conn        \* the request of every connection and how far it is

vars == <<ready, compacting, conn>>

-----------------------------------------------------------------------------
(* Requests                                                                 *)

Methods == {"memory.write", "memory.query", "memory.pin", "memory.stats", "memory.compact",
            "store.compact", "memory.describe"}
Unknown == {"memory.unknown", "unknown"}
Protocol == {"initialize", "ping", "tools/list", "tools/call", "notifications/initialized"}

\* The text begins with "memory.".
IsMemory(m) == m \in (Methods \ {"store.compact"}) \cup {"memory.unknown"}

\* A JSON member: missing, of the right type, of another one, or of the right
\* type with text that rapidjson takes and read_json does not.
Member == {"none", "object", "other", "unparsable"}

\* body: "garbage" is no JSON object.  jsonrpc: the member, or "none".
\* method, tool: a name, "none" or "other" (no string).
\* id: "none", or the type of the JSON value; "digits" is a string of digits.
Request == [route : {"GET/health", "GET/mcp/describe", "POST/mcp", "other"},
            body : {"garbage", "object"},
            jsonrpc : {"none", "2.0", "other"},
            method : Methods \cup Unknown \cup Protocol \cup {"none", "other"},
            id : {"none", "integer", "fraction", "string", "digits", "object"},
            params : Member,
            tool : Methods \cup Unknown \cup {"none", "other"},
            arguments : Member]

ASSUME RequestsAssumption == Requests \in [Conn -> SUBSET Request]

-----------------------------------------------------------------------------
(* Results.  A handler puts booleans, integers, counters of 2^63 and more,  *)
(* numbers, texts, lists and objects into a property tree.                  *)

Each(fields, x) == [f \in fields |-> x]

\* The fields of two trees, or of two schemas.
a ++ b == [f \in DOMAIN a \cup DOMAIN b |-> IF f \in DOMAIN a THEN a[f] ELSE b[f]]

Lists == {"list", "no_list"}

\* Metadata whose only key is "" is a text in the tree.
Objects == {"object", "no_object", "unkeyed"}

HandleWrite ==
    {Each({"ok"}, "bool") ++ Each({"index_generation"}, "int")
       ++ Each({"stored_ids"}, l[1]) ++ Each({"deduped_ids"}, l[2]) ++ Each({"warnings"}, l[3])
     : l \in Lists \X Lists \X Lists}

DebugStats ==
    Each({"debug_stats", "latency_ms"}, "object")
      ++ Each({"sparse_candidates", "dense_candidates", "merged_candidates"}, "int")
      ++ Each({"latency.sparse", "latency.dense", "latency.rerank", "latency.total"}, "num")

\* The final score is a sum of products with the weights of the request.  They
\* can be so small that it is no normal number, so large that it is infinite.
Finals == {"num", "tiny", "inf"}

Hit == {Each({"memory_id", "source", "content"}, "text") ++ Each({"tags"}, l) ++ Each({"metadata"}, o)
          ++ Each({"scores"}, "object")
          ++ Each({"scores.sparse", "scores.dense", "scores.freshness", "scores.pin"}, "num")
          ++ Each({"scores.final"}, x)
          ++ Each({"updated_at_ms"}, "int") ++ Each({"pinned"}, "bool")
        : l \in Lists, o \in Objects, x \in Finals}

HandleQuery ==
    {Each({"hits"}, "no_list") ++ DebugStats} \cup {Each({"hits"}, "list") ++ h ++ DebugStats : h \in Hit}

HandlePin == {Each({"ok"}, "bool"), Each({"ok"}, "bool") ++ Each({"error"}, "text")}

\* resident_used_bytes_ is below zero while a request has still to account for
\* what it took out.
HandleStats ==
    {Each({"p95_read_ms", "p95_write_ms", "token_reduction_ratio", "fallback_rate"}, "num")
       ++ Each({"mem_used_bytes", "disk_used_bytes", "resident_limit_bytes", "resident_evicted_count",
                "disk_fallback_search_count", "item_count", "tombstone_count", "gc_last_run_ms",
                "gc_evicted_count"}, "int")
       ++ Each({"resident_used_bytes"}, used)
       ++ Each({"capacity_blocked"}, "bool") ++ Each({"write_ack_mode", "effective_backend"}, "text")
       ++ Each({"index_stats"}, "object")
       ++ Each({"segment_count", "posting_terms", "vector_count", "cold_rehydrate_count"}, "int")
       ++ Each({"query_cache_hit_rate", "dense_probe_count_p95"}, "num")
     : used \in {"int", "wide"}}

HandleCompact ==
    {Each({"triggered", "capacity_blocked"}, "bool")
       ++ Each({"mem_before_bytes", "disk_before_bytes", "mem_after_bytes", "disk_after_bytes",
                "summarized_count", "tombstoned_count", "deleted_count", "segments_before",
                "segments_after", "postings_reclaimed", "vectors_reclaimed"}, "int")}

HandleStoreCompact ==
    {Each({"triggered", "noop", "busy", "async"}, "bool") ++ Each({"partition_count"}, "int")
       ++ Each({"message"}, "text")}

HandleDescribe ==
    {Each({"describe_version", "schema_revision"}, "text") ++ Each({"generated_at_ms"}, "int")
       ++ Each({"server", "methods", "errors"}, "object") ++ Each({"method_names"}, "list")}

Results(m) ==
    CASE m = "memory.write" -> HandleWrite
      [] m = "memory.query" -> HandleQuery
      [] m = "memory.pin" -> HandlePin
      [] m = "memory.stats" -> HandleStats
      [] m = "memory.compact" -> HandleCompact
      [] m = "store.compact" -> HandleStoreCompact
      [] m = "memory.describe" -> HandleDescribe

-----------------------------------------------------------------------------
(* From the property tree to JSON and to its types.                         *)

\* write_json prints every leaf as a string, an empty list or object as "".
Printed(x) ==
    CASE x = "list" -> "array"
      [] x = "object" -> "object"
      [] x \in {"no_list", "no_object"} -> "empty_string"
      [] x = "bool" -> "string_of_a_bool"
      [] x = "int" -> "string_of_an_int"
      [] x = "wide" -> "string_of_a_wide_int"
      [] x = "num" -> "string_of_a_number"
      [] x = "tiny" -> "string_of_a_tiny_number"
      [] x = "inf" -> "string_of_infinity"
      [] x \in {"text", "unkeyed"} -> "string"

ToJsonString(tree) == [f \in DOMAIN tree |-> Printed(tree[f])]

ParseBoolLiteral(v) == v = "string_of_a_bool"

\* strtoll fails from 2^63 on,
ParseInt64Literal(v) == v = "string_of_an_int"

\* strtod sets errno for what is no normal number, but not for infinity,
ParseDoubleLiteral(v) ==
    v \in {"string_of_a_number", "string_of_an_int", "string_of_a_wide_int", "string_of_infinity"}

DoubleOf(v) == IF v = "string_of_infinity" THEN "infinite" ELSE "number"

\* and what does not parse stays a string.
ConvertValueToBoolIfString(v) == IF ParseBoolLiteral(v) THEN "boolean" ELSE v
ConvertValueToIntIfString(v) == IF ParseInt64Literal(v) THEN "integer" ELSE v
ConvertValueToDoubleIfString(v) == IF ParseDoubleLiteral(v) THEN DoubleOf(v) ELSE v

\* Mutant of EnsureArrayMember: what is no array becomes a list of one.
EnsureArrayMember_KeepsEmpty(v) == IF v = "empty_string" THEN v ELSE "array"

EnsureArrayMember(v) == IF v = "object" THEN v ELSE "array"

EnsureObjectMember(v) == IF v = "empty_string" THEN "object" ELSE v

\* The fields every conversion is applied to.
BoolFields(m) ==
    CASE m \in {"memory.write", "memory.pin"} -> {"ok"}
      [] m = "memory.query" -> {"pinned"}
      [] m = "memory.stats" -> {"capacity_blocked"}
      [] m = "memory.compact" -> {"triggered", "capacity_blocked"}
      [] m = "store.compact" -> {"triggered", "noop", "busy", "async"}
      [] OTHER -> {}

IntFields(m) ==
    CASE m = "memory.write" -> {"index_generation"}
      [] m = "memory.query" ->
           {"updated_at_ms", "sparse_candidates", "dense_candidates", "merged_candidates"}
      [] m = "memory.stats" ->
           {"mem_used_bytes", "disk_used_bytes", "resident_used_bytes", "resident_limit_bytes",
            "resident_evicted_count", "disk_fallback_search_count", "item_count", "tombstone_count",
            "gc_last_run_ms", "gc_evicted_count", "segment_count", "posting_terms", "vector_count",
            "cold_rehydrate_count"}
      [] m = "memory.compact" ->
           {"mem_before_bytes", "disk_before_bytes", "mem_after_bytes", "disk_after_bytes",
            "summarized_count", "tombstoned_count", "deleted_count", "segments_before",
            "segments_after", "postings_reclaimed", "vectors_reclaimed"}
      [] m = "store.compact" -> {"partition_count"}
      [] m = "memory.describe" -> {"generated_at_ms"}
      [] OTHER -> {}

DoubleFields(m) ==
    CASE m = "memory.query" ->
           {"scores.sparse", "scores.dense", "scores.freshness", "scores.pin", "scores.final",
            "latency.sparse", "latency.dense", "latency.rerank", "latency.total"}
      [] m = "memory.stats" ->
           {"p95_read_ms", "p95_write_ms", "token_reduction_ratio", "fallback_rate",
            "query_cache_hit_rate", "dense_probe_count_p95"}
      [] OTHER -> {}

ArrayFields(m) ==
    CASE m = "memory.write" -> {"stored_ids", "deduped_ids", "warnings"}
      [] m = "memory.query" -> {"hits", "tags"}
      [] OTHER -> {}

ObjectFields(m) == IF m = "memory.query" THEN {"metadata"} ELSE {}

NormalizeResultByMethod(json, m) ==
    [f \in DOMAIN json |->
        CASE f \in BoolFields(m) -> ConvertValueToBoolIfString(json[f])
          [] f \in IntFields(m) -> ConvertValueToIntIfString(json[f])
          [] f \in DoubleFields(m) -> ConvertValueToDoubleIfString(json[f])
          [] f \in ArrayFields(m) -> EnsureArrayMember(json[f])
          [] f \in ObjectFields(m) -> EnsureObjectMember(json[f])
          [] OTHER -> json[f]]

-----------------------------------------------------------------------------
(* Answers                                                                  *)

NoFields == <<>>

\* An answer of the HTTP layer; one with an error; one with a result.
Http(status) == [status |-> status, kind |-> "http", id |-> "none", code |-> 0, fields |-> NoFields]
Error(id, code) == [Http(200) EXCEPT !.kind = "error", !.id = id, !.code = code]
Result(id, kind, fields) == [Http(200) EXCEPT !.kind = kind, !.id = id, !.fields = fields]

\* A fraction is printed with six digits.
JsonRpcIdLiteral(id) ==
    CASE id \in {"none", "object"} -> "null"
      [] id = "fraction" -> "rounded"
      [] OTHER -> id

\* Without jsonrpc, the id goes through the property tree.
DirectId(id) ==
    CASE id = "none" -> "string"
      [] id \in {"integer", "digits"} -> "integer"
      [] id = "fraction" -> "string"
      [] OTHER -> id

\* The names in describe; those of tools/list.
MethodNames == <<"memory.describe", "memory.write", "memory.query", "memory.pin", "memory.stats",
                 "memory.compact">>
ToolsList == [m \in {m \in Methods : IsMemory(m) /\ \E i \in DOMAIN MethodNames : MethodNames[i] = m} |-> "tool"]

\* What to do with a request: answer it, or call a method of the dispatcher and
\* answer in an envelope.
Answer(a) == [answer |-> a, method |-> "none", envelope |-> "none"]
Call(m, envelope) == [answer |-> Http(0), method |-> m, envelope |-> envelope]

\* Mutant of ToolCall: any method can be called as a tool.
ToolCall_AnyMethod(r, id) ==
    IF \/ r.params \notin {"object", "unparsable"} \/ r.tool \in {"none", "other"}
       \/ r.arguments \in {"other", "unparsable"}
    THEN Answer(Error(id, -32602))
    ELSE Call(r.tool, "tool")

\* The early returns of HandleMcpJsonRpc in their order: for tools/call,
ToolCall(r, id) ==
    IF r.params \notin {"object", "unparsable"} \/ r.tool \in {"none", "other"} THEN Answer(Error(id, -32602))
    ELSE IF ~IsMemory(r.tool) THEN Answer(Error(id, -32601))
    ELSE IF r.arguments \in {"other", "unparsable"} THEN Answer(Error(id, -32602))
    ELSE Call(r.tool, "tool")

\* for a method of the dispatcher,
MethodCall(r, id) ==
    IF r.params \in {"other", "unparsable"} THEN Answer(Error(id, -32602)) ELSE Call(r.method, "jsonrpc")

\* for every method,
RpcCall(r, id) ==
    CASE r.method = "notifications/initialized" -> Answer(Http(204))
      [] r.method \in {"initialize", "ping"} -> Answer(Result(id, "result", NoFields))
      [] r.method = "tools/list" -> Answer(Result(id, "result", ToolsList))
      [] r.method = "tools/call" -> ToolCall(r, id)
      [] IsMemory(r.method) \/ r.method = "store.compact" -> MethodCall(r, id)
      [] OTHER -> Answer(Error(id, -32601))

\* and before the method is looked at.
HandleMcpJsonRpc(r) ==
    LET id == JsonRpcIdLiteral(r.id) IN
    IF r.body = "garbage" \/ (r.jsonrpc = "none" /\ r.params = "unparsable") THEN Answer(Http(400))
    ELSE IF r.jsonrpc = "none" THEN Call(r.method, "direct")
    ELSE IF r.jsonrpc # "2.0" \/ r.method \in {"none", "other"} THEN Answer(Error(id, -32600))
    ELSE RpcCall(r, id)

\* Mutant of Route: the routes do not look at ready.
Route_Early(r) ==
    CASE r.route = "other" -> Answer(Http(404))
      [] r.route = "GET/health" -> Answer(Http(200))
      [] r.route = "GET/mcp/describe" -> Call("memory.describe", "get")
      [] r.route = "POST/mcp" -> HandleMcpJsonRpc(r)

\* HttpServer::Dispatch and the routes.
Route(r) ==
    CASE r.route = "other" -> Answer(Http(404))
      [] r.route # "other" /\ ~ready -> Answer(Http(503))
      [] r.route = "GET/health" /\ ready -> Answer(Http(200))
      [] r.route = "GET/mcp/describe" /\ ready -> Call("memory.describe", "get")
      [] r.route = "POST/mcp" /\ ready -> HandleMcpJsonRpc(r)

-----------------------------------------------------------------------------
(* Steps                                                                    *)

Idle == [pc |-> "idle", req |-> <<>>, todo |-> <<>>, ran |-> "none", tree |-> NoFields, answer |-> Http(0)]

Init == ready = FALSE /\ compacting = FALSE /\ conn = [c \in Conn |-> Idle]

Arrive(c) == \E r \in Requests[c] :
    /\ conn[c].pc = "idle"
    /\ conn' = [conn EXCEPT ![c].pc = "arrived", ![c].req = r]
    /\ UNCHANGED <<ready, compacting>>

Answered(c, a) == [conn[c] EXCEPT !.pc = "answered", !.answer = a]

Dispatch(c) ==
    LET d == Route(conn[c].req) IN
    /\ conn[c].pc = "arrived"
    /\ conn' = [conn EXCEPT ![c] =
         IF d.method = "none" /\ d.envelope = "none" THEN Answered(c, d.answer)
         ELSE [@ EXCEPT !.pc = "call", !.todo = d]]
    /\ UNCHANGED <<ready, compacting>>

\* An error of the dispatcher, in the envelope of the request.
CallError(c, code) ==
    LET r == conn[c].req IN
    CASE conn[c].todo.envelope = "jsonrpc" -> Error(JsonRpcIdLiteral(r.id), code)
      [] conn[c].todo.envelope = "tool" -> Result(JsonRpcIdLiteral(r.id), "tool_error", NoFields)
      [] conn[c].todo.envelope = "direct" -> Error(DirectId(r.id), code)

\* The Writer has no text for a number that is infinite and stops there: the
\* body is cut off and no JSON.
Written(id, fields) ==
    IF \E f \in DOMAIN fields : fields[f] = "infinite" THEN [Http(200) EXCEPT !.kind = "cut"]
    ELSE Result(id, "result", fields)

\* A result likewise; the text in the result of a tool is not normalised.
CallResult(c, m, tree) ==
    LET r == conn[c].req
        json == ToJsonString(tree)
    IN CASE conn[c].todo.envelope = "jsonrpc" ->
              Written(JsonRpcIdLiteral(r.id), NormalizeResultByMethod(json, m))
         [] conn[c].todo.envelope = "tool" -> Result(JsonRpcIdLiteral(r.id), "tool_result", json)
         [] conn[c].todo.envelope = "direct" ->
              Written(DirectId(r.id), NormalizeResultByMethod(json, m))
         [] conn[c].todo.envelope = "get" -> Written("none", NormalizeResultByMethod(json, m))

Calls(c) == conn[c].pc = "call"

HandleUnknown(c) ==
    /\ Calls(c) /\ conn[c].todo.method \notin Methods
    /\ conn' = [conn EXCEPT ![c] = Answered(c, CallError(c, -32601))]
    /\ UNCHANGED <<ready, compacting>>

HandleBusy(c) ==
    /\ Calls(c) /\ conn[c].todo.method = "store.compact" /\ compacting
    /\ conn' = [conn EXCEPT ![c] = Answered(c, CallError(c, -32001))]
    /\ UNCHANGED <<ready, compacting>>

Handle(c) ==
    LET m == conn[c].todo.method IN
    /\ Calls(c) /\ m \in Methods /\ ~(m = "store.compact" /\ compacting)
    /\ \E tree \in Results(m) :
         conn' = [conn EXCEPT ![c] = [Answered(c, CallResult(c, m, tree)) EXCEPT !.ran = m, !.tree = tree]]
    /\ compacting' = (compacting \/ (m = "store.compact" /\ AppendMode))
    /\ UNCHANGED ready

\* Mutant of HandleThrows: nobody catches the exception.
HandleThrows_Uncaught(c) ==
    /\ Calls(c) /\ conn[c].todo.method = "memory.write"
    /\ conn' = [conn EXCEPT ![c].pc = "lost"]
    /\ UNCHANGED <<ready, compacting>>

\* A record whose metadata has both "a" and "a.b" cannot be printed: write_json
\* throws, and HttpServer::Dispatch answers.
HandleThrows(c) ==
    /\ Calls(c) /\ conn[c].todo.method = "memory.write"
    /\ conn' = [conn EXCEPT ![c] = Answered(c, Http(500))]
    /\ UNCHANGED <<ready, compacting>>

Reply(c) ==
    /\ conn[c].pc = "answered"
    /\ conn' = [conn EXCEPT ![c] = Idle]
    /\ UNCHANGED <<ready, compacting>>

Warmup == ~ready /\ ready' = TRUE /\ UNCHANGED <<compacting, conn>>

RunCompactWorker == compacting /\ compacting' = FALSE /\ UNCHANGED <<ready, conn>>

Server(c) == Dispatch(c) \/ HandleUnknown(c) \/ HandleBusy(c) \/ Handle(c) \/ HandleThrows(c)

Next == Warmup \/ RunCompactWorker \/ \E c \in Conn : Arrive(c) \/ Server(c) \/ Reply(c)

Spec == Init /\ [][Next]_vars /\ \A c \in Conn : WF_vars(Server(c))

-----------------------------------------------------------------------------
(* The contract                                                             *)

PublicMethods == {"memory.describe", "memory.write", "memory.query", "memory.pin", "memory.stats",
                  "memory.compact"}

BadEnvelope(r) == r.jsonrpc # "2.0" \/ r.method \in {"none", "other"}

\* What the contract has against a request with a good envelope, by its code.
UnknownMethod(r) ==
    IF r.method = "tools/call" THEN r.tool \notin PublicMethods \cup {"none", "other"}
    ELSE r.method \notin Methods \cup Protocol

BadParams(r) ==
    IF r.method = "tools/call"
    THEN \/ r.params \notin {"object", "unparsable"} \/ r.tool \in {"none", "other"}
         \/ r.arguments \notin {"none", "object"}
    ELSE r.method \notin Protocol /\ r.params \notin {"none", "object"}

Complaints(r) ==
    (IF UnknownMethod(r) THEN {-32601} ELSE {}) \cup (IF BadParams(r) THEN {-32602} ELSE {})
      \cup (IF r.method = "store.compact" THEN {-32001} ELSE {})

Target(r) == IF r.method = "tools/call" THEN r.tool ELSE r.method

\* Every JSON-RPC request is answered under its own id, but for fractions, with an error the
\* contract has for it or with the result of the one method it names; what is
\* refused has run nothing, and the listed tools are the public methods.  A body
\* that is cut off (see StrictTypes) is no answer of the contract.
AnswersAsContracted == \A c \in Conn :
    LET r == conn[c].req
        a == conn[c].answer
    IN (/\ conn[c].pc = "answered" /\ a.status = 200 /\ a.kind # "cut"
        /\ r.route = "POST/mcp" /\ r.jsonrpc # "none") =>
         /\ r.id # "fraction" => a.id = IF r.id \in {"none", "object"} THEN "null" ELSE r.id
         /\ BadEnvelope(r) => a.kind = "error" /\ a.code = -32600
         /\ ~BadEnvelope(r) =>
              \/ a.kind = "error" /\ a.code \in Complaints(r) /\ conn[c].ran = "none"
              \/ a.kind = "tool_error" /\ -32601 \in Complaints(r) /\ conn[c].ran = "none"
              \/ /\ a.kind \in {"result", "tool_result"} /\ Complaints(r) \subseteq {-32001}
                 /\ conn[c].ran = IF Target(r) \in Methods THEN Target(r) ELSE "none"
         /\ (a.kind = "result" /\ r.method = "tools/list") => DOMAIN a.fields = PublicMethods

\* No method runs before Warmup has finished.
NothingBeforeReady == [][\A c \in Conn : conn'[c].ran # conn[c].ran /\ conn'[c].ran # "none" => ready]_vars

Of(type, fields) == [f \in fields |-> type]

(* The output_schema of every method; store.compact, which has none, by the  *)
(* type of its result.                                                       *)

DescribeSchema ==
    Of("string", {"describe_version", "schema_revision"}) ++ Of("integer", {"generated_at_ms"})
      ++ Of("object", {"server", "methods", "errors"}) ++ Of("array", {"method_names"})

WriteSchema ==
    Of("boolean", {"ok"}) ++ Of("array", {"stored_ids", "deduped_ids", "warnings"})
      ++ Of("integer", {"index_generation"})

QuerySchema ==
    Of("array", {"hits", "tags"}) ++ Of("object", {"metadata", "scores", "debug_stats", "latency_ms"})
      ++ Of("string", {"memory_id", "source", "content"}) ++ Of("boolean", {"pinned"})
      ++ Of("integer", {"updated_at_ms", "sparse_candidates", "dense_candidates", "merged_candidates"})
      ++ Of("number", {"scores.sparse", "scores.dense", "scores.freshness", "scores.pin", "scores.final",
                       "latency.sparse", "latency.dense", "latency.rerank", "latency.total"})

PinSchema == Of("boolean", {"ok"}) ++ Of("string", {"error"})

StatsSchema ==
    Of("number", {"p95_read_ms", "p95_write_ms", "token_reduction_ratio", "fallback_rate",
                  "query_cache_hit_rate", "dense_probe_count_p95"})
      ++ Of("integer", {"mem_used_bytes", "disk_used_bytes", "resident_used_bytes",
                        "resident_limit_bytes", "resident_evicted_count", "disk_fallback_search_count",
                        "item_count", "tombstone_count", "gc_last_run_ms", "gc_evicted_count",
                        "segment_count", "posting_terms", "vector_count", "cold_rehydrate_count"})
      ++ Of("boolean", {"capacity_blocked"}) ++ Of("string", {"write_ack_mode", "effective_backend"})
      ++ Of("object", {"index_stats"})

CompactSchema ==
    Of("boolean", {"triggered", "capacity_blocked"})
      ++ Of("integer", {"mem_before_bytes", "disk_before_bytes", "mem_after_bytes", "disk_after_bytes",
                        "summarized_count", "tombstoned_count", "deleted_count", "segments_before",
                        "segments_after", "postings_reclaimed", "vectors_reclaimed"})

StoreCompactTriggerResult ==
    Of("boolean", {"triggered", "noop", "busy", "async"}) ++ Of("integer", {"partition_count"})
      ++ Of("string", {"message"})

Schema(m) ==
    CASE m = "memory.describe" -> DescribeSchema
      [] m = "memory.write" -> WriteSchema
      [] m = "memory.query" -> QuerySchema
      [] m = "memory.pin" -> PinSchema
      [] m = "memory.stats" -> StatsSchema
      [] m = "memory.compact" -> CompactSchema
      [] m = "store.compact" -> StoreCompactTriggerResult

\* The fields a result may lack: those of a hit, and the error of a pin.
Optional(m, json) ==
    CASE m = "memory.pin" -> {"error"}
      [] m = "memory.query" /\ "memory_id" \notin DOMAIN json ->
           {"memory_id", "source", "content", "tags", "metadata", "scores", "scores.sparse",
            "scores.dense", "scores.freshness", "scores.pin", "scores.final", "updated_at_ms", "pinned"}
      [] OTHER -> {}

\* Results outside tool texts have exactly the fields of their output_schema,
\* each of its type, whatever lists are empty.  What is not converted are
\* counters of 2^63 and more, scores below the normal numbers and metadata with
\* the key "" alone; and a body is cut off only by a score that is infinite.
StrictTypes == \A c \in Conn :
    LET a == conn[c].answer
        m == conn[c].ran
        tree == conn[c].tree
    IN /\ (conn[c].pc = "answered" /\ a.kind = "result" /\ m # "none") =>
            /\ DOMAIN Schema(m) \ Optional(m, a.fields) \subseteq DOMAIN a.fields
            /\ DOMAIN a.fields \subseteq DOMAIN Schema(m)
            /\ \A f \in DOMAIN a.fields : tree[f] \notin {"wide", "unkeyed", "tiny"} => a.fields[f] = Schema(m)[f]
       /\ (conn[c].pc = "answered" /\ a.kind = "cut") => \E f \in DOMAIN tree : tree[f] = "inf"

\* Every request is answered.
RequestsAnswered == \A c \in Conn : (conn[c].pc = "arrived") ~> (conn[c].pc = "answered")
=============================================================================
