-------------------------- MODULE McpServerProofs --------------------------
(***************************************************************************)
(* Theorems about McpServer, for every set of connections and every choice *)
(* of the requests they send.  The argument follows a request: a call is   *)
(* only ever decided on when the server is ready, it is the one            *)
(* HandleMcpJsonRpc decided on for the request that is still there, and    *)
(* nothing has run until the dispatcher answers.  For the types of results *)
(* the tables of field names are compared with the schemas, and every      *)
(* result with both, part by part.                                         *)
(***************************************************************************)
EXTENDS McpServer, TLAPS

\* What the contract demands of answer a to the JSON-RPC request r, when
\* method ran (or "none") has run.
Good(r, a, ran) ==
    /\ r.id # "fraction" => a.id = IF r.id \in {"none", "object"} THEN "null" ELSE r.id
    /\ BadEnvelope(r) => a.kind = "error" /\ a.code = -32600
    /\ ~BadEnvelope(r) =>
         \/ a.kind = "error" /\ a.code \in Complaints(r) /\ ran = "none"
         \/ a.kind = "tool_error" /\ -32601 \in Complaints(r) /\ ran = "none"
         \/ /\ a.kind \in {"result", "tool_result"} /\ Complaints(r) \subseteq {-32001}
            /\ ran = IF Target(r) \in Methods THEN Target(r) ELSE "none"
    /\ (a.kind = "result" /\ r.method = "tools/list") => DOMAIN a.fields = PublicMethods

Rpc(r) == r.route = "POST/mcp" /\ r.jsonrpc # "none"

\* What a server that is ready decides on for a request.
Decision(r) == IF r.route = "POST/mcp" THEN HandleMcpJsonRpc(r) ELSE Call("memory.describe", "get")

\* The state of one connection, when the server is ready or not.
ConnOK(j, rdy) ==
    /\ j.pc \in {"idle", "arrived", "call", "answered"}
    /\ j.pc = "idle" => j = Idle
    /\ j.pc # "idle" => j.req \in Request
    /\ j.pc # "answered" => j.ran = "none"
    /\ j.pc = "call" =>
         /\ rdy /\ j.todo = Decision(j.req) /\ j.todo.envelope # "none"
         /\ j.req.route \in {"POST/mcp", "GET/mcp/describe"}
    /\ (j.pc = "answered" /\ j.answer.status = 200 /\ j.answer.kind # "cut" /\ Rpc(j.req)) =>
         Good(j.req, j.answer, j.ran)

\* A connection is a record of these fields.
IsConn(j) == DOMAIN j = {"pc", "req", "todo", "ran", "tree", "answer"}

ServerInv ==
    /\ ready \in BOOLEAN
    /\ DOMAIN conn = Conn
    /\ \A c \in Conn : IsConn(conn[c]) /\ ConnOK(conn[c], ready)

-----------------------------------------------------------------------------
(* What the routes decide *)

\* The fields of an answer.
LEMMA HttpFields == ASSUME NEW status PROVE Http(status).status = status
BY DEF Http

LEMMA ErrorFields ==
    ASSUME NEW id, NEW code
    PROVE  LET a == Error(id, code)
           IN  a.status = 200 /\ a.kind = "error" /\ a.id = id /\ a.code = code
BY DEF Http, Error

LEMMA ResultFields ==
    ASSUME NEW id, NEW kind, NEW fields
    PROVE  /\ Result(id, kind, fields).status = 200 /\ Result(id, kind, fields).kind = kind
           /\ Result(id, kind, fields).id = id /\ Result(id, kind, fields).fields = fields
BY DEF Http, Result

\* A result is written as it is or cut off.
LEMMA WrittenIs ==
    ASSUME NEW id, NEW fields
    PROVE  LET a == Written(id, fields) IN
           /\ a.status = 200
           /\ a.kind # "cut" => a = Result(id, "result", fields) /\ \A f \in DOMAIN fields : fields[f] # "infinite"
           /\ a.kind = "cut" => \E f \in DOMAIN fields : fields[f] = "infinite"
           /\ a.kind \in {"cut", "result"}
<1> DEFINE cut == [Http(200) EXCEPT !.kind = "cut"]
           a == Written(id, fields)
<1>1. cut.status = 200 /\ cut.kind = "cut" BY DEF Http
<1> HIDE DEF cut
<1>2. CASE \E f \in DOMAIN fields : fields[f] = "infinite"
  <2>1. a = cut BY <1>2 DEF Written, cut
  <2> HIDE DEF a
  <2>2. a.status = 200 /\ a.kind = "cut" BY <1>1, <2>1
  <2> QED BY <1>2, <2>2 DEF a
<1>3. CASE ~ \E f \in DOMAIN fields : fields[f] = "infinite"
  <2>1. a = Result(id, "result", fields) BY <1>3 DEF Written
  <2>2. a.status = 200 /\ a.kind = "result" BY <2>1, ResultFields
  <2> HIDE DEF a
  <2> QED BY <1>3, <2>1, <2>2 DEF a
<1> QED BY <1>2, <1>3

\* The fields of a decision.
LEMMA DecisionFields ==
    ASSUME NEW a, NEW m, NEW e
    PROVE  /\ Answer(a).answer = a /\ Answer(a).method = "none" /\ Answer(a).envelope = "none"
           /\ Call(m, e).method = m /\ Call(m, e).envelope = e
BY DEF Answer, Call

\* tools/list has the public methods.
LEMMA ToolsArePublic == DOMAIN ToolsList = PublicMethods
<1>1. \A m \in PublicMethods : m \in Methods /\ IsMemory(m) BY DEF PublicMethods, Methods, IsMemory
<1>2. \A m : (\E i \in DOMAIN MethodNames : MethodNames[i] = m) <=> m \in PublicMethods
  BY DEF MethodNames, PublicMethods
<1>3. DOMAIN ToolsList = {m \in Methods : IsMemory(m) /\ \E i \in DOMAIN MethodNames : MethodNames[i] = m}
  BY DEF ToolsList
<1> QED BY <1>1, <1>2, <1>3

\* The id of an answer is the one of the request.
LEMMA IdEchoed ==
    ASSUME NEW r \in Request, r.id # "fraction"
    PROVE  JsonRpcIdLiteral(r.id) = IF r.id \in {"none", "object"} THEN "null" ELSE r.id
BY DEF JsonRpcIdLiteral, Request

\* What the contract has against a request, code by code.
LEMMA ComplaintsAre ==
    ASSUME NEW r
    PROVE  /\ -32601 \in Complaints(r) <=> UnknownMethod(r)
           /\ -32602 \in Complaints(r) <=> BadParams(r)
           /\ -32001 \in Complaints(r) <=> r.method = "store.compact"
           /\ ~UnknownMethod(r) /\ ~BadParams(r) => Complaints(r) \subseteq {-32001}
BY DEF Complaints

\* Answers that are good: to a bad envelope,
IdOK(r, id) == r.id # "fraction" => id = IF r.id \in {"none", "object"} THEN "null" ELSE r.id

LEMMA GoodRefusal ==
    ASSUME NEW r, NEW id, IdOK(r, id), BadEnvelope(r)
    PROVE  Good(r, Error(id, -32600), "none")
BY ErrorFields DEF Good, IdOK

\* errors the contract has for the request,
LEMMA GoodError ==
    ASSUME NEW r, NEW id, IdOK(r, id), ~BadEnvelope(r), NEW code, code \in Complaints(r)
    PROVE  Good(r, Error(id, code), "none")
<1> DEFINE a == Error(id, code)
<1>1. a.kind = "error" /\ a.id = id /\ a.code = code BY ErrorFields
<1> HIDE DEF a
<1>2. Good(r, a, "none") BY <1>1 DEF Good, IdOK
<1> QED BY <1>2 DEF a

\* and results of the one method the request names.
ListsTools(r, fields) == r.method = "tools/list" => DOMAIN fields = PublicMethods

LEMMA NoComplaint ==
    ASSUME NEW r, ~UnknownMethod(r), ~BadParams(r)
    PROVE  Complaints(r) \subseteq {-32001}
BY DEF Complaints

LEMMA GoodWhen ==
    ASSUME NEW r, NEW a, NEW ran, IdOK(r, a.id), ~BadEnvelope(r),
           Complaints(r) \subseteq {-32001}, a.kind \in {"result", "tool_result"},
           ListsTools(r, a.fields), ran = IF Target(r) \in Methods THEN Target(r) ELSE "none"
    PROVE  Good(r, a, ran)
BY DEF Good, IdOK, ListsTools

LEMMA GoodResult ==
    ASSUME NEW r, NEW id, NEW kind, NEW fields, IdOK(r, id), ~BadEnvelope(r),
           ~UnknownMethod(r), ~BadParams(r), kind \in {"result", "tool_result"},
           ListsTools(r, fields)
    PROVE  Good(r, Result(id, kind, fields), IF Target(r) \in Methods THEN Target(r) ELSE "none")
<1> DEFINE a == Result(id, kind, fields)
<1>1. a.kind = kind /\ a.id = id /\ a.fields = fields BY DEF Http, Result
<1>2. Complaints(r) \subseteq {-32001} BY NoComplaint
<1> HIDE DEF a
<1>3. Good(r, a, IF Target(r) \in Methods THEN Target(r) ELSE "none") BY <1>1, <1>2, GoodWhen
<1> QED BY <1>3 DEF a

\* Names that begin with "memory." are not those of the protocol.
LEMMA MemoryNames ==
    ASSUME NEW m
    PROVE  /\ IsMemory(m) => m \notin Protocol /\ m \notin {"store.compact", "none", "other", "unknown"}
           /\ m \in Methods <=> (IsMemory(m) /\ m # "memory.unknown") \/ m = "store.compact"
           /\ m \in PublicMethods <=> IsMemory(m) /\ m # "memory.unknown"
           /\ m \in Protocol => m \notin Methods
BY DEF IsMemory, Methods, PublicMethods, Protocol

\* What RpcCall does, method by method.
LEMMA RpcCallIs ==
    ASSUME NEW r, NEW id
    PROVE  /\ r.method = "notifications/initialized" => RpcCall(r, id) = Answer(Http(204))
           /\ r.method \in {"initialize", "ping"} => RpcCall(r, id) = Answer(Result(id, "result", NoFields))
           /\ r.method = "tools/list" => RpcCall(r, id) = Answer(Result(id, "result", ToolsList))
           /\ r.method = "tools/call" => RpcCall(r, id) = ToolCall(r, id)
           /\ IsMemory(r.method) \/ r.method = "store.compact" => RpcCall(r, id) = MethodCall(r, id)
           /\ (r.method \notin Protocol /\ ~IsMemory(r.method) /\ r.method # "store.compact")
                => RpcCall(r, id) = Answer(Error(id, -32601))
<1>1. IsMemory(r.method) => r.method \notin Protocol /\ r.method # "store.compact" BY MemoryNames
<1> QED BY <1>1 DEF RpcCall, Protocol

\* The requests a call is made for: their envelope is good and the contract
\* has nothing against them but an unknown method and a busy compaction.
Callable(r, d) ==
    /\ ~BadEnvelope(r)
    /\ \/ /\ d = Call(r.method, "jsonrpc") /\ r.method \notin Protocol
          /\ IsMemory(r.method) \/ r.method = "store.compact"
          /\ r.params \in {"none", "object"}
       \/ /\ d = Call(r.tool, "tool") /\ r.method = "tools/call" /\ IsMemory(r.tool)
          /\ r.params \in {"object", "unparsable"} /\ r.arguments \in {"none", "object"}

\* A decision about a JSON-RPC request is a good answer or a call.
Decided(r, d) ==
    \/ /\ d.method = "none" /\ d.envelope = "none"
       /\ d.answer.status = 200 => Good(r, d.answer, "none")
    \/ Callable(r, d) /\ d.envelope # "none"

LEMMA DecidedAnswer ==
    ASSUME NEW r, NEW a, a.status # 200 \/ Good(r, a, "none")
    PROVE  Decided(r, Answer(a))
BY DecisionFields DEF Decided

\* What is not answered at once is called in an envelope.
LEMMA EnvelopeOfCall ==
    ASSUME NEW r, ~(HandleMcpJsonRpc(r).method = "none" /\ HandleMcpJsonRpc(r).envelope = "none")
    PROVE  HandleMcpJsonRpc(r).envelope \in {"direct", "tool", "jsonrpc"}
<1> DEFINE id == JsonRpcIdLiteral(r.id)
           d == HandleMcpJsonRpc(r)
           at == \E a : d = Answer(a)
           called == \E m : d = Call(m, "direct") \/ d = Call(m, "tool") \/ d = Call(m, "jsonrpc")
<1>1. \/ at \/ d = RpcCall(r, id) \/ d = Call(r.method, "direct") BY DEF HandleMcpJsonRpc
<1>2. d = RpcCall(r, id) => at \/ d = ToolCall(r, id) \/ d = MethodCall(r, id) BY DEF RpcCall
<1>3. d = ToolCall(r, id) => at \/ d = Call(r.tool, "tool") BY DEF ToolCall
<1>4. d = MethodCall(r, id) => at \/ d = Call(r.method, "jsonrpc") BY DEF MethodCall
<1>5. at \/ called BY <1>1, <1>2, <1>3, <1>4
<1>6. \A a : Answer(a).method = "none" /\ Answer(a).envelope = "none" BY DecisionFields
<1>7. \A m, e : Call(m, e).envelope = e BY DecisionFields
<1> HIDE DEF d
<1>8. ~at BY <1>6 DEF d
<1>9. called => d.envelope \in {"direct", "tool", "jsonrpc"} BY <1>7
<1> QED BY <1>5, <1>8, <1>9 DEF d

LEMMA RpcDecided ==
    ASSUME NEW r \in Request, r.jsonrpc # "none"
    PROVE  Decided(r, HandleMcpJsonRpc(r))
<1> DEFINE id == JsonRpcIdLiteral(r.id)
           d == HandleMcpJsonRpc(r)
<1>a. IdOK(r, id) BY IdEchoed DEF IdOK
<1>b. \A s : Http(s).status = s BY HttpFields
<1> HIDE DEF id
<1>1. CASE r.body = "garbage"
  <2>1. d = Answer(Http(400)) BY <1>1 DEF HandleMcpJsonRpc
  <2> QED BY <1>b, <2>1, DecidedAnswer
<1>2. CASE r.body # "garbage" /\ BadEnvelope(r)
  <2>1. d = Answer(Error(id, -32600)) BY <1>2 DEF HandleMcpJsonRpc, id, BadEnvelope
  <2> QED BY <1>2, <1>a, <2>1, GoodRefusal, DecidedAnswer
<1>3. CASE r.body # "garbage" /\ ~BadEnvelope(r)
  <2>0. d = RpcCall(r, id) BY <1>3 DEF HandleMcpJsonRpc, id, BadEnvelope
  <2>a. ASSUME NEW code, code \in Complaints(r), d = Answer(Error(id, code)) PROVE Decided(r, d)
    BY <1>3, <1>a, <2>a, GoodError, DecidedAnswer
  <2>1. CASE r.method = "notifications/initialized"
    <3>1. d = Answer(Http(204)) BY <2>0, <2>1, RpcCallIs
    <3> QED BY <1>b, <3>1, DecidedAnswer
  <2>2. CASE r.method \in {"initialize", "ping", "tools/list"}
    <3> DEFINE fs == IF r.method = "tools/list" THEN ToolsList ELSE NoFields
    <3>1. d = Answer(Result(id, "result", fs)) BY <2>0, <2>2, RpcCallIs
    <3>2. ~UnknownMethod(r) /\ ~BadParams(r) BY <2>2 DEF UnknownMethod, BadParams, Protocol
    <3>3. Target(r) \notin Methods BY <2>2 DEF Target, Methods
    <3>4. ListsTools(r, fs) BY ToolsArePublic DEF ListsTools
    <3> HIDE DEF fs
    <3>5. Good(r, Result(id, "result", fs), IF Target(r) \in Methods THEN Target(r) ELSE "none")
      BY <1>3, <1>a, <3>2, <3>4, GoodResult
    <3>6. Good(r, Result(id, "result", fs), "none") BY <3>3, <3>5
    <3> QED BY <3>1, <3>6, DecidedAnswer
  <2>3. CASE r.method = "tools/call"
    <3>0. d = ToolCall(r, id) BY <2>0, <2>3, RpcCallIs
    <3>1. CASE r.params \notin {"object", "unparsable"} \/ r.tool \in {"none", "other"}
      <4>1. d = Answer(Error(id, -32602)) BY <3>0, <3>1 DEF ToolCall
      <4>2. BadParams(r) BY <2>3, <3>1 DEF BadParams
      <4> QED BY <2>a, <4>1, <4>2, ComplaintsAre
    <3>2. CASE r.params \in {"object", "unparsable"} /\ r.tool \notin {"none", "other"} /\ ~IsMemory(r.tool)
      <4>1. d = Answer(Error(id, -32601)) BY <3>0, <3>2 DEF ToolCall
      <4>2. UnknownMethod(r) BY <2>3, <3>2, MemoryNames DEF UnknownMethod
      <4> QED BY <2>a, <4>1, <4>2, ComplaintsAre
    <3>3. CASE /\ r.params \in {"object", "unparsable"} /\ r.tool \notin {"none", "other"} /\ IsMemory(r.tool)
               /\ r.arguments \in {"other", "unparsable"}
      <4>1. d = Answer(Error(id, -32602)) BY <3>0, <3>3 DEF ToolCall
      <4>2. BadParams(r) BY <2>3, <3>3 DEF BadParams
      <4> QED BY <2>a, <4>1, <4>2, ComplaintsAre
    <3>4. CASE /\ r.params \in {"object", "unparsable"} /\ r.tool \notin {"none", "other"} /\ IsMemory(r.tool)
               /\ r.arguments \notin {"other", "unparsable"}
      <4>1. d = Call(r.tool, "tool") BY <3>0, <3>4 DEF ToolCall
      <4>2. r.arguments \in {"none", "object"} BY <3>4 DEF Request, Member
      <4> QED BY <1>3, <2>3, <3>4, <4>1, <4>2, DecisionFields DEF Callable, Decided
    <3> QED BY <3>1, <3>2, <3>3, <3>4
  <2>4. CASE IsMemory(r.method) \/ r.method = "store.compact"
    <3>0. r.method \notin Protocol BY <2>4, MemoryNames DEF Protocol
    <3>1. d = MethodCall(r, id) BY <2>0, <2>4, RpcCallIs
    <3>2. CASE r.params \in {"other", "unparsable"}
      <4>1. d = Answer(Error(id, -32602)) BY <3>1, <3>2 DEF MethodCall
      <4>2. BadParams(r) BY <3>0, <3>2 DEF BadParams, Protocol
      <4> QED BY <2>a, <4>1, <4>2, ComplaintsAre
    <3>3. CASE r.params \notin {"other", "unparsable"}
      <4>1. d = Call(r.method, "jsonrpc") BY <3>1, <3>3 DEF MethodCall
      <4>2. r.params \in {"none", "object"} BY <3>3 DEF Request, Member
      <4> QED BY <1>3, <2>4, <3>0, <4>1, <4>2, DecisionFields DEF Callable, Decided
    <3> QED BY <3>2, <3>3
  <2>5. CASE r.method \notin Protocol /\ ~IsMemory(r.method) /\ r.method # "store.compact"
    <3>1. d = Answer(Error(id, -32601)) BY <2>0, <2>5, RpcCallIs
    <3>2. UnknownMethod(r) BY <2>5, MemoryNames DEF UnknownMethod, Protocol
    <3> QED BY <2>a, <3>1, <3>2, ComplaintsAre
  <2> QED BY <2>1, <2>2, <2>3, <2>4, <2>5 DEF Protocol
<1> QED BY <1>1, <1>2, <1>3

-----------------------------------------------------------------------------
(* One connection at a time *)

\* A step of one connection.
LEMMA OneConn ==
    ASSUME ServerInv, NEW c \in Conn, NEW j, IsConn(j), ConnOK(j, ready),
           conn' = [conn EXCEPT ![c] = j], ready' = ready
    PROVE  ServerInv'
<1>1. DOMAIN conn' = Conn BY DEF ServerInv
<1>2. ASSUME NEW x \in Conn PROVE IsConn(conn'[x]) /\ ConnOK(conn'[x], ready')
  <2>1. conn'[x] = IF x = c THEN j ELSE conn[x] BY DEF ServerInv
  <2> QED BY <2>1 DEF ServerInv
<1> QED BY <1>1, <1>2 DEF ServerInv

\* An answered connection: its answer is good, or it is not one of JSON-RPC.
LEMMA AnsweredConn ==
    ASSUME NEW j, IsConn(j), j.pc = "answered", j.req \in Request,
           (j.answer.status = 200 /\ j.answer.kind # "cut" /\ Rpc(j.req)) => Good(j.req, j.answer, j.ran)
    PROVE  ConnOK(j, ready)
BY DEF ConnOK

\* What a connection in a call knows.
LEMMA CallKnows ==
    ASSUME ServerInv, NEW c \in Conn, conn[c].pc = "call"
    PROVE  /\ IsConn(conn[c]) /\ conn[c].req \in Request /\ conn[c].ran = "none" /\ ready
           /\ conn[c].req.route = "GET/mcp/describe" => conn[c].todo = Call("memory.describe", "get")
           /\ Rpc(conn[c].req) => Callable(conn[c].req, conn[c].todo)
<1> DEFINE j == conn[c]
<1>1. IsConn(j) /\ ConnOK(j, ready) BY DEF ServerInv
<1> HIDE DEF j
<1>2. j.pc = "call" BY DEF j
<1>3. j.req \in Request /\ j.ran = "none" /\ ready /\ j.todo = Decision(j.req) /\ j.todo.envelope # "none"
  BY <1>1, <1>2 DEF ConnOK
<1>4. j.req.route = "GET/mcp/describe" => j.todo = Call("memory.describe", "get") BY <1>3 DEF Decision
<1>5. ASSUME Rpc(j.req) PROVE Callable(j.req, j.todo)
  <2>1. j.todo = HandleMcpJsonRpc(j.req) /\ j.req.jsonrpc # "none" BY <1>3, <1>5 DEF Decision, Rpc
  <2>2. Decided(j.req, j.todo) BY <1>3, <2>1, RpcDecided
  <2> QED BY <1>3, <2>2 DEF Decided
<1> QED BY <1>1, <1>3, <1>4, <1>5 DEF j

\* The envelope of a call.
LEMMA Envelopes ==
    ASSUME NEW r, NEW d, Callable(r, d)
    PROVE  \/ /\ d.envelope = "jsonrpc" /\ d.method = r.method /\ r.method \notin Protocol
              /\ Target(r) = r.method /\ ~BadParams(r)
              /\ UnknownMethod(r) <=> r.method \notin Methods
           \/ /\ d.envelope = "tool" /\ d.method = r.tool /\ r.method = "tools/call" /\ IsMemory(r.tool)
              /\ Target(r) = r.tool /\ ~BadParams(r)
              /\ UnknownMethod(r) <=> r.tool \notin Methods
<1>0. "tools/call" \in Protocol BY DEF Protocol
<1>1. CASE /\ d = Call(r.method, "jsonrpc") /\ r.method \notin Protocol
           /\ IsMemory(r.method) \/ r.method = "store.compact"
           /\ r.params \in {"none", "object"}
  <2>1. d.envelope = "jsonrpc" /\ d.method = r.method BY <1>1, DecisionFields
  <2> QED BY <1>0, <1>1, <2>1 DEF Target, BadParams, UnknownMethod
<1>2. CASE /\ d = Call(r.tool, "tool") /\ r.method = "tools/call" /\ IsMemory(r.tool)
           /\ r.params \in {"object", "unparsable"} /\ r.arguments \in {"none", "object"}
  <2>1. d.envelope = "tool" /\ d.method = r.tool BY <1>2, DecisionFields
  <2>2. /\ r.tool \notin {"none", "other"}
        /\ r.tool \in Methods <=> r.tool \in PublicMethods
    BY <1>2, MemoryNames
  <2> QED BY <1>2, <2>1, <2>2 DEF Target, BadParams, UnknownMethod
<1> QED BY <1>1, <1>2 DEF Callable

\* The dispatcher refuses a method it does not know and a second compaction.
LEMMA CallErrorGood ==
    ASSUME NEW c \in Conn, NEW code, conn[c].req \in Request, Callable(conn[c].req, conn[c].todo),
           \/ code = -32601 /\ conn[c].todo.method \notin Methods
           \/ code = -32001 /\ conn[c].todo.method = "store.compact"
    PROVE  Good(conn[c].req, CallError(c, code), "none")
<1> DEFINE r == conn[c].req
           d == conn[c].todo
           id == JsonRpcIdLiteral(r.id)
           e == CallError(c, code)
<1>0. IdOK(r, id) BY IdEchoed DEF IdOK
<1>1. /\ d.envelope = "jsonrpc" => e = Error(id, code)
      /\ d.envelope = "tool" => e = Result(id, "tool_error", NoFields)
  BY DEF CallError
<1>2. Callable(r, d) /\ ~BadEnvelope(r) BY DEF Callable
<1>c. \/ code = -32601 /\ d.method \notin Methods
      \/ code = -32001 /\ d.method = "store.compact"
  OBVIOUS
<1> HIDE DEF r, d, id, e
<1>3. CASE /\ d.envelope = "jsonrpc" /\ d.method = r.method
           /\ UnknownMethod(r) <=> r.method \notin Methods
  <2>1. code \in Complaints(r) BY <1>3, <1>c, ComplaintsAre
  <2>2. Good(r, Error(id, code), "none") BY <1>0, <1>2, <2>1, GoodError
  <2> QED BY <1>1, <1>3, <2>2 DEF r, e
<1>4. CASE /\ d.envelope = "tool" /\ d.method = r.tool /\ r.method = "tools/call" /\ IsMemory(r.tool)
           /\ UnknownMethod(r) <=> r.tool \notin Methods
  <2>1. r.tool # "store.compact" BY <1>4, MemoryNames
  <2>2. -32601 \in Complaints(r) BY <1>4, <1>c, <2>1, ComplaintsAre
  <2>3. e.kind = "tool_error" /\ e.id = id BY <1>1, <1>4, ResultFields
  <2>4. Good(r, e, "none") BY <1>0, <1>2, <2>2, <2>3 DEF Good, IdOK
  <2> QED BY <2>4 DEF r, e
<1>5. \/ /\ d.envelope = "jsonrpc" /\ d.method = r.method
         /\ UnknownMethod(r) <=> r.method \notin Methods
      \/ /\ d.envelope = "tool" /\ d.method = r.tool /\ r.method = "tools/call" /\ IsMemory(r.tool)
         /\ UnknownMethod(r) <=> r.tool \notin Methods
  BY <1>2, Envelopes
<1> QED BY <1>3, <1>4, <1>5

\* The result of a call is that of the method the request names.
LEMMA CallResultGood ==
    ASSUME NEW c \in Conn, NEW tree, conn[c].req \in Request, Callable(conn[c].req, conn[c].todo),
           conn[c].todo.method \in Methods, CallResult(c, conn[c].todo.method, tree).kind # "cut"
    PROVE  Good(conn[c].req, CallResult(c, conn[c].todo.method, tree), conn[c].todo.method)
<1> DEFINE r == conn[c].req
           d == conn[c].todo
           id == JsonRpcIdLiteral(r.id)
           json == ToJsonString(tree)
           norm == NormalizeResultByMethod(json, d.method)
           e == CallResult(c, d.method, tree)
<1>0. IdOK(r, id) BY IdEchoed DEF IdOK
<1>a. /\ d.envelope = "jsonrpc" => e = Written(id, norm)
      /\ d.envelope = "tool" => e = Result(id, "tool_result", json)
  BY DEF CallResult
<1>2. Callable(r, d) /\ ~BadEnvelope(r) /\ d.method \in Methods /\ e.kind # "cut" BY DEF Callable
<1> HIDE DEF r, d, id, e, json, norm
<1>1. /\ d.envelope = "jsonrpc" => e = Result(id, "result", norm)
      /\ d.envelope = "tool" => e = Result(id, "tool_result", json)
  BY <1>2, <1>a, WrittenIs
<1>3. d.method = Target(r) /\ ~UnknownMethod(r) /\ ~BadParams(r) BY <1>2, Envelopes
<1>4. r.method # "tools/list" BY <1>2, Envelopes DEF Protocol
<1>5. \A fields : ListsTools(r, fields) BY <1>4 DEF ListsTools
<1>6. ASSUME NEW kind, NEW fields, kind \in {"result", "tool_result"} PROVE Good(r, Result(id, kind, fields), d.method)
  <2>1. Good(r, Result(id, kind, fields), IF Target(r) \in Methods THEN Target(r) ELSE "none")
    BY <1>0, <1>2, <1>3, <1>5, <1>6, GoodResult
  <2> QED BY <1>2, <1>3, <2>1
<1>7. d.envelope \in {"jsonrpc", "tool"} BY <1>2, Envelopes
<1>8. Good(r, e, d.method) BY <1>1, <1>6, <1>7
<1> QED BY <1>8 DEF r, d, e

-----------------------------------------------------------------------------
(* The steps *)

LEMMA ArriveOK == ASSUME ServerInv, NEW c \in Conn, Arrive(c) PROVE ServerInv'
<1>1. PICK q \in Requests[c] :
        /\ conn[c].pc = "idle"
        /\ conn' = [conn EXCEPT ![c].pc = "arrived", ![c].req = q]
        /\ ready' = ready
  BY DEF Arrive
<1>2. q \in Request BY RequestsAssumption
<1> DEFINE j == conn[c]
           k == [j EXCEPT !.pc = "arrived", !.req = q]
<1>3. conn' = [conn EXCEPT ![c] = k] BY <1>1 DEF ServerInv
<1>4. IsConn(j) /\ ConnOK(j, ready) /\ j.pc = "idle" BY <1>1 DEF ServerInv
<1> HIDE DEF j
<1>5. IsConn(k) /\ k.pc = "arrived" /\ k.req = q /\ k.ran = j.ran BY <1>4 DEF IsConn
<1>6. j.ran = "none" BY <1>4 DEF ConnOK
<1> HIDE DEF k
<1>7. ConnOK(k, ready) BY <1>2, <1>5, <1>6 DEF ConnOK
<1> QED BY <1>1, <1>3, <1>5, <1>7, OneConn

LEMMA DispatchOK == ASSUME ServerInv, NEW c \in Conn, Dispatch(c) PROVE ServerInv'
<1> DEFINE j == conn[c]
           d == Route(j.req)
           answers == d.method = "none" /\ d.envelope = "none"
           k == IF answers THEN [j EXCEPT !.pc = "answered", !.answer = d.answer]
                ELSE [j EXCEPT !.pc = "call", !.todo = d]
<1>1. conn' = [conn EXCEPT ![c] = k] /\ ready' = ready /\ j.pc = "arrived"
  BY DEF Dispatch, Answered, ServerInv
<1>2. IsConn(j) /\ ConnOK(j, ready) BY DEF ServerInv
<1>3. /\ j.req.route \notin {"GET/mcp/describe", "POST/mcp"} \/ ~ready => answers
      /\ j.req.route = "POST/mcp" => \/ d = HandleMcpJsonRpc(j.req) /\ ready
                                     \/ d.answer.status # 200 /\ ~ready
      /\ j.req.route = "GET/mcp/describe" /\ ready => d = Call("memory.describe", "get")
  <2>1. j.req.route \in {"GET/health", "GET/mcp/describe", "POST/mcp", "other"}
    BY <1>1, <1>2 DEF ConnOK, Request
  <2>2. \A a : Answer(a).method = "none" /\ Answer(a).envelope = "none" /\ Answer(a).answer = a
    BY DecisionFields
  <2>3. /\ j.req.route = "other" => d = Answer(Http(404))
        /\ j.req.route # "other" /\ ~ready => d = Answer(Http(503))
        /\ j.req.route = "GET/health" /\ ready => d = Answer(Http(200))
        /\ j.req.route = "GET/mcp/describe" /\ ready => d = Call("memory.describe", "get")
        /\ j.req.route = "POST/mcp" /\ ready => d = HandleMcpJsonRpc(j.req)
    BY DEF Route
  <2>4. Http(503).status = 503 BY HttpFields
  <2> HIDE DEF j, d
  <2> QED BY <2>1, <2>2, <2>3, <2>4
<1>4. ready \in BOOLEAN BY DEF ServerInv
<1>5. j.req \in Request /\ j.ran = "none" BY <1>1, <1>2 DEF ConnOK
<1> HIDE DEF j, d, k
<1>6. IsConn(k) /\ ConnOK(k, ready)
  <2>1. CASE answers
    <3> DEFINE a == d.answer
    <3>1. k = [j EXCEPT !.pc = "answered", !.answer = a] BY <2>1 DEF k
    <3> HIDE DEF answers
    <3>2. IsConn(k) /\ k.pc = "answered" /\ k.answer = a /\ k.req = j.req /\ k.ran = "none"
      BY <1>2, <1>5, <3>1 DEF IsConn
    <3>3. ASSUME a.status = 200, Rpc(j.req) PROVE Good(j.req, a, "none")
      <4>1. d = HandleMcpJsonRpc(j.req) BY <1>3, <3>3 DEF Rpc
      <4>2. Decided(j.req, d) BY <1>5, <3>3, <4>1, RpcDecided DEF Rpc
      <4> QED BY <2>1, <3>3, <4>2 DEF Decided, answers
    <3> HIDE DEF a
    <3> QED BY <1>5, <3>2, <3>3, AnsweredConn
  <2>2. CASE ~answers
    <3>1. k = [j EXCEPT !.pc = "call", !.todo = d] BY <2>2 DEF k
    <3>2. IsConn(k) /\ k.pc = "call" /\ k.todo = d /\ k.req = j.req /\ k.ran = "none"
      BY <1>2, <1>5, <3>1 DEF IsConn
    <3>3. ready /\ j.req.route \in {"POST/mcp", "GET/mcp/describe"} BY <1>3, <1>4, <2>2
    <3>4. d = Decision(j.req) BY <1>3, <3>3 DEF Decision
    <3>5. d.envelope # "none"
      <4>1. CASE j.req.route = "GET/mcp/describe" BY <1>3, <3>3, <4>1, DecisionFields
      <4>2. CASE j.req.route = "POST/mcp"
        <5>1. d = HandleMcpJsonRpc(j.req) BY <1>3, <3>3, <4>2
        <5> QED BY <2>2, <5>1, EnvelopeOfCall
      <4> QED BY <3>3, <4>1, <4>2
    <3> QED BY <1>5, <3>2, <3>3, <3>4, <3>5 DEF ConnOK
  <2> QED BY <2>1, <2>2
<1> QED BY <1>1, <1>6, OneConn

LEMMA AnswersOK ==
    ASSUME ServerInv, NEW c \in Conn, NEW a, conn[c].pc = "call",
           (a.status = 200 /\ Rpc(conn[c].req)) => Good(conn[c].req, a, "none"),
           conn' = [conn EXCEPT ![c] = Answered(c, a)], ready' = ready
    PROVE  ServerInv'
<1> DEFINE j == conn[c]
           k == Answered(c, a)
<1>1. IsConn(j) /\ j.req \in Request /\ j.ran = "none" BY CallKnows
<1>2. k = [j EXCEPT !.pc = "answered", !.answer = a] BY DEF Answered
<1>3. (a.status = 200 /\ Rpc(j.req)) => Good(j.req, a, "none") OBVIOUS
<1> HIDE DEF j, k
<1>4. IsConn(k) /\ k.pc = "answered" /\ k.answer = a /\ k.req = j.req /\ k.ran = "none"
  BY <1>1, <1>2 DEF IsConn
<1>5. ConnOK(k, ready) BY <1>1, <1>3, <1>4, AnsweredConn
<1> QED BY <1>4, <1>5, OneConn DEF k

LEMMA HandleUnknownOK == ASSUME ServerInv, NEW c \in Conn, HandleUnknown(c) PROVE ServerInv'
<1>1. conn[c].pc = "call" /\ conn[c].todo.method \notin Methods BY DEF HandleUnknown, Calls
<1> DEFINE e == CallError(c, -32601)
<1>2. Rpc(conn[c].req) => Good(conn[c].req, e, "none") BY <1>1, CallKnows, CallErrorGood
<1>3. conn' = [conn EXCEPT ![c] = Answered(c, e)] /\ ready' = ready BY DEF HandleUnknown
<1> HIDE DEF e
<1> QED BY <1>1, <1>2, <1>3, AnswersOK

LEMMA HandleBusyOK == ASSUME ServerInv, NEW c \in Conn, HandleBusy(c) PROVE ServerInv'
<1>1. conn[c].pc = "call" /\ conn[c].todo.method = "store.compact" BY DEF HandleBusy, Calls
<1> DEFINE e == CallError(c, -32001)
<1>2. Rpc(conn[c].req) => Good(conn[c].req, e, "none") BY <1>1, CallKnows, CallErrorGood
<1>3. conn' = [conn EXCEPT ![c] = Answered(c, e)] /\ ready' = ready BY DEF HandleBusy
<1> HIDE DEF e
<1> QED BY <1>1, <1>2, <1>3, AnswersOK

LEMMA HandleThrowsOK == ASSUME ServerInv, NEW c \in Conn, HandleThrows(c) PROVE ServerInv'
<1>1. conn[c].pc = "call" /\ Http(500).status # 200 BY HttpFields DEF HandleThrows, Calls
<1> QED BY <1>1, AnswersOK, ZenonT(60) DEF HandleThrows

LEMMA HandleOK == ASSUME ServerInv, NEW c \in Conn, Handle(c) PROVE ServerInv'
<1> DEFINE j == conn[c]
           m == j.todo.method
<1>1. PICK tree \in Results(m) :
        conn' = [conn EXCEPT ![c] = [Answered(c, CallResult(c, m, tree)) EXCEPT !.ran = m, !.tree = tree]]
  BY DEF Handle
<1>2. j.pc = "call" /\ m \in Methods /\ ready' = ready BY DEF Handle, Calls
<1> DEFINE a == CallResult(c, m, tree)
           h == Answered(c, a)
           k == [h EXCEPT !.ran = m, !.tree = tree]
<1>3. IsConn(j) /\ j.req \in Request /\ (Rpc(j.req) => Callable(j.req, j.todo)) BY <1>2, CallKnows
<1>4. (a.kind # "cut" /\ Rpc(j.req)) => Good(j.req, a, m) BY <1>2, <1>3, CallResultGood
<1>5. h = [j EXCEPT !.pc = "answered", !.answer = a] BY DEF Answered
<1>6. conn' = [conn EXCEPT ![c] = k] BY <1>1
<1>k. k = [h EXCEPT !.ran = m, !.tree = tree] OBVIOUS
<1> HIDE DEF j, m, a, h, k
<1>7. IsConn(h) /\ h.pc = "answered" /\ h.answer = a /\ h.req = j.req BY <1>3, <1>5 DEF IsConn
<1>8. IsConn(k) /\ k.pc = "answered" /\ k.answer = a /\ k.req = j.req /\ k.ran = m BY <1>7, <1>k DEF IsConn
<1>9. ConnOK(k, ready) BY <1>3, <1>4, <1>8, AnsweredConn
<1> QED BY <1>2, <1>6, <1>8, <1>9, OneConn

LEMMA ReplyOK == ASSUME ServerInv, NEW c \in Conn, Reply(c) PROVE ServerInv'
<1>1. IsConn(Idle) /\ ConnOK(Idle, ready) BY DEF Idle, IsConn, ConnOK
<1> QED BY <1>1, OneConn DEF Reply

\* Warmup makes the server ready.
LEMMA WarmupOK == ASSUME ServerInv, Warmup PROVE ServerInv'
<1>1. ready' = TRUE /\ conn' = conn BY DEF Warmup
<1>2. ASSUME NEW x \in Conn PROVE ConnOK(conn[x], TRUE)
  BY DEF ServerInv, ConnOK
<1> QED BY <1>1, <1>2 DEF ServerInv

LEMMA ServerStep == ServerInv /\ [Next]_vars => ServerInv'
<1> SUFFICES ASSUME ServerInv, [Next]_vars PROVE ServerInv' OBVIOUS
<1>1. CASE Warmup BY <1>1, WarmupOK
<1>2. CASE RunCompactWorker \/ UNCHANGED vars
  <2>1. ready' = ready /\ conn' = conn BY <1>2 DEF RunCompactWorker, vars
  <2> QED BY <2>1 DEF ServerInv
<1>3. ASSUME NEW c \in Conn, Arrive(c) \/ Server(c) \/ Reply(c) PROVE ServerInv'
  BY <1>3, ArriveOK, DispatchOK, HandleUnknownOK, HandleBusyOK, HandleOK, HandleThrowsOK, ReplyOK DEF Server
<1> QED BY <1>1, <1>2, <1>3 DEF Next

LEMMA ServerStart == Init => ServerInv
<1> SUFFICES ASSUME Init PROVE ServerInv OBVIOUS
<1>1. IsConn(Idle) /\ ConnOK(Idle, ready) BY DEF Idle, IsConn, ConnOK
<1>2. \A c \in Conn : conn[c] = Idle BY DEF Init
<1> QED BY <1>1, <1>2 DEF Init, ServerInv

-----------------------------------------------------------------------------
(* The theorems *)

\* The inductive invariant of the server, for every set of connections.
THEOREM ServerInvariant == Spec => []ServerInv
BY ServerStart, ServerStep, PTL DEF Spec

\* JSON-RPC requests are answered as the contract says: under their id, with an
\* error the contract has for them or the result of the method they name.
THEOREM AnswersStayContracted == Spec => []AnswersAsContracted
<1>1. ServerInv => AnswersAsContracted
  <2> SUFFICES ASSUME ServerInv, NEW c \in Conn, conn[c].pc = "answered", conn[c].answer.status = 200,
                      conn[c].answer.kind # "cut", conn[c].req.route = "POST/mcp", conn[c].req.jsonrpc # "none"
               PROVE  Good(conn[c].req, conn[c].answer, conn[c].ran)
    BY DEF AnswersAsContracted, Good
  <2> QED BY DEF ServerInv, ConnOK, Rpc
<1> QED BY <1>1, ServerInvariant, PTL

\* A step is one of one connection, and the dispatcher only runs in a call.
LEMMA OnlyOne ==
    ASSUME ServerInv, NEW c \in Conn, Arrive(c) \/ Server(c) \/ Reply(c), NEW x \in Conn, x # c
    PROVE  conn'[x] = conn[x]
<1>1. CASE Arrive(c) BY <1>1 DEF Arrive, ServerInv
<1>2. CASE Dispatch(c) BY <1>2 DEF Dispatch, ServerInv
<1>3. CASE HandleUnknown(c) BY <1>3 DEF HandleUnknown, ServerInv
<1>4. CASE HandleBusy(c) BY <1>4 DEF HandleBusy, ServerInv
<1>5. CASE Handle(c) BY <1>5 DEF Handle, ServerInv
<1>6. CASE HandleThrows(c) BY <1>6 DEF HandleThrows, ServerInv
<1>7. CASE Reply(c) BY <1>7 DEF Reply, ServerInv
<1> QED BY <1>1, <1>2, <1>3, <1>4, <1>5, <1>6, <1>7 DEF Server

LEMMA OnlyInCalls ==
    ASSUME NEW c, HandleUnknown(c) \/ HandleBusy(c) \/ Handle(c) \/ HandleThrows(c)
    PROVE  conn[c].pc = "call"
<1>1. CASE HandleUnknown(c) BY <1>1 DEF HandleUnknown, Calls
<1>2. CASE HandleBusy(c) BY <1>2 DEF HandleBusy, Calls
<1>3. CASE Handle(c) BY <1>3 DEF Handle, Calls
<1>4. CASE HandleThrows(c) BY <1>4 DEF HandleThrows, Calls
<1> QED BY <1>1, <1>2, <1>3, <1>4

\* No method of the dispatcher runs before Warmup has made the server ready.
THEOREM NothingRunsEarly == Spec => NothingBeforeReady
<1>1. ServerInv /\ [Next]_vars => [\A c \in Conn : conn'[c].ran # conn[c].ran /\ conn'[c].ran # "none" => ready]_vars
  <2> SUFFICES ASSUME ServerInv, Next, NEW x \in Conn, conn'[x].ran # conn[x].ran, conn'[x].ran # "none"
               PROVE  ready
    OBVIOUS
  <2>1. CASE Warmup \/ RunCompactWorker BY <2>1 DEF Warmup, RunCompactWorker
  <2>2. ASSUME NEW c \in Conn, Arrive(c) \/ Server(c) \/ Reply(c) PROVE ready
    <3>1. CASE x # c
      BY <2>2, <3>1, OnlyOne
    <3>2. CASE x = c /\ conn[c].pc = "call" BY <3>2, CallKnows
    <3>3. CASE x = c /\ conn[c].pc # "call"
      <4>1. Arrive(c) \/ Dispatch(c) \/ Reply(c)
        BY <2>2, <3>3, OnlyInCalls DEF Server
      <4>2. IsConn(conn[c]) BY DEF ServerInv
      <4>3. CASE Arrive(c) BY <3>3, <4>2, <4>3 DEF Arrive, ServerInv, IsConn
      <4>4. CASE Dispatch(c) BY <3>3, <4>2, <4>4 DEF Dispatch, Answered, ServerInv, IsConn
      <4>5. CASE Reply(c) BY <3>3, <4>5 DEF Reply, ServerInv, Idle
      <4> QED BY <4>1, <4>3, <4>4, <4>5
    <3> QED BY <3>1, <3>2, <3>3
  <2> QED BY <2>1, <2>2 DEF Next
<1> QED BY <1>1, ServerInvariant, PTL DEF Spec, NothingBeforeReady

-----------------------------------------------------------------------------
(* The types of results *)

\* What a field of a tree becomes in a result that is normalised.
Normal(m, f, x) ==
    CASE f \in BoolFields(m) -> ConvertValueToBoolIfString(Printed(x))
      [] f \in IntFields(m) -> ConvertValueToIntIfString(Printed(x))
      [] f \in DoubleFields(m) -> ConvertValueToDoubleIfString(Printed(x))
      [] f \in ArrayFields(m) -> EnsureArrayMember(Printed(x))
      [] f \in ObjectFields(m) -> EnsureObjectMember(Printed(x))
      [] OTHER -> Printed(x)

\* What is not converted, and what is converted and cannot be written.
Unconverted == {"wide", "unkeyed", "tiny"}

\* A field that is in the schema and has its type there.
Fits(m, f, x) ==
    /\ f \in DOMAIN Schema(m)
    /\ x \notin Unconverted \cup {"inf"} => Normal(m, f, x) = Schema(m)[f]
    /\ Normal(m, f, x) = "infinite" <=> x = "inf"

AllFit(m, tree) == \A f \in DOMAIN tree : Fits(m, f, tree[f])

\* The fields of two trees joined, of one with one type throughout, of a schema.
LEMMA Joined ==
    ASSUME NEW a, NEW b
    PROVE  /\ DOMAIN (a ++ b) = DOMAIN a \cup DOMAIN b
           /\ \A f \in DOMAIN a : (a ++ b)[f] = a[f]
           /\ \A f \in DOMAIN b \ DOMAIN a : (a ++ b)[f] = b[f]
BY DEF ++

LEMMA JoinedFields == \A a, b, f : f \in DOMAIN (a ++ b) <=> f \in DOMAIN a \/ f \in DOMAIN b
BY Joined

LEMMA EachIs ==
    ASSUME NEW fields, NEW x
    PROVE  DOMAIN Each(fields, x) = fields /\ \A f \in fields : Each(fields, x)[f] = x
BY DEF Each

LEMMA OfIs ==
    ASSUME NEW fields, NEW x
    PROVE  DOMAIN Of(x, fields) = fields /\ \A f \in fields : Of(x, fields)[f] = x
BY DEF Of

\* A tree fits when its parts do.
LEMMA AllFitJoined ==
    ASSUME NEW m, NEW a, NEW b, AllFit(m, a), AllFit(m, b)
    PROVE  AllFit(m, a ++ b)
<1> DEFINE ab == a ++ b
<1>1. /\ DOMAIN ab = DOMAIN a \cup DOMAIN b
      /\ \A f \in DOMAIN a : ab[f] = a[f]
      /\ \A f \in DOMAIN b \ DOMAIN a : ab[f] = b[f]
  BY Joined
<1> HIDE DEF ab
<1>2. \A f \in DOMAIN ab : Fits(m, f, ab[f]) BY <1>1 DEF AllFit
<1> QED BY <1>2 DEF AllFit, ab

LEMMA AllFitEach ==
    ASSUME NEW m, NEW fields, NEW x, \A f \in fields : Fits(m, f, x)
    PROVE  AllFit(m, Each(fields, x))
BY EachIs DEF AllFit

\* What the conversions make of a value that is printed.
LEMMA Conversions ==
    /\ ConvertValueToBoolIfString(Printed("bool")) = "boolean"
    /\ ConvertValueToIntIfString(Printed("int")) = "integer"
    /\ ConvertValueToIntIfString(Printed("wide")) = "string_of_a_wide_int"
    /\ ConvertValueToDoubleIfString(Printed("num")) = "number"
    /\ ConvertValueToDoubleIfString(Printed("tiny")) = "string_of_a_tiny_number"
    /\ ConvertValueToDoubleIfString(Printed("inf")) = "infinite"
    /\ EnsureArrayMember(Printed("list")) = "array"
    /\ EnsureArrayMember(Printed("no_list")) = "array"
    /\ EnsureObjectMember(Printed("object")) = "object"
    /\ EnsureObjectMember(Printed("no_object")) = "object"
    /\ EnsureObjectMember(Printed("unkeyed")) = "string"
    /\ Printed("text") = "string"
    /\ Printed("list") = "array"
    /\ Printed("object") = "object"
BY DEF Printed, ConvertValueToBoolIfString, ConvertValueToIntIfString, ConvertValueToDoubleIfString,
       EnsureArrayMember, EnsureObjectMember, ParseBoolLiteral, ParseInt64Literal, ParseDoubleLiteral, DoubleOf

\* What a field becomes by the one table that it is in.
LEMMA NormalBool ==
    ASSUME NEW m, NEW f, NEW x, f \in BoolFields(m), f \notin IntFields(m), f \notin DoubleFields(m),
           f \notin ArrayFields(m), f \notin ObjectFields(m)
    PROVE  Normal(m, f, x) = ConvertValueToBoolIfString(Printed(x))
BY Zenon DEF Normal

LEMMA NormalInt ==
    ASSUME NEW m, NEW f, NEW x, f \notin BoolFields(m), f \in IntFields(m), f \notin DoubleFields(m),
           f \notin ArrayFields(m), f \notin ObjectFields(m)
    PROVE  Normal(m, f, x) = ConvertValueToIntIfString(Printed(x))
BY Zenon DEF Normal

LEMMA NormalDouble ==
    ASSUME NEW m, NEW f, NEW x, f \notin BoolFields(m), f \notin IntFields(m), f \in DoubleFields(m),
           f \notin ArrayFields(m), f \notin ObjectFields(m)
    PROVE  Normal(m, f, x) = ConvertValueToDoubleIfString(Printed(x))
BY Zenon DEF Normal

LEMMA NormalArray ==
    ASSUME NEW m, NEW f, NEW x, f \notin BoolFields(m), f \notin IntFields(m), f \notin DoubleFields(m),
           f \in ArrayFields(m), f \notin ObjectFields(m)
    PROVE  Normal(m, f, x) = EnsureArrayMember(Printed(x))
BY Zenon DEF Normal

LEMMA NormalObject ==
    ASSUME NEW m, NEW f, NEW x, f \notin BoolFields(m), f \notin IntFields(m), f \notin DoubleFields(m),
           f \notin ArrayFields(m), f \in ObjectFields(m)
    PROVE  Normal(m, f, x) = EnsureObjectMember(Printed(x))
BY Zenon DEF Normal

LEMMA NormalOther ==
    ASSUME NEW m, NEW f, NEW x, f \notin BoolFields(m), f \notin IntFields(m), f \notin DoubleFields(m),
           f \notin ArrayFields(m), f \notin ObjectFields(m)
    PROVE  Normal(m, f, x) = Printed(x)
BY Zenon DEF Normal

\* No field is in two tables, and the tables say of a field what its schema says.
LEMMA TablesDisjoint ==
    ASSUME NEW m \in Methods, NEW f
    PROVE  /\ f \in BoolFields(m) =>
                f \notin IntFields(m) \cup DoubleFields(m) \cup ArrayFields(m) \cup ObjectFields(m)
           /\ f \in IntFields(m) => f \notin DoubleFields(m) \cup ArrayFields(m) \cup ObjectFields(m)
           /\ f \in DoubleFields(m) => f \notin ArrayFields(m) \cup ObjectFields(m)
           /\ f \in ArrayFields(m) => f \notin ObjectFields(m)
<1>1. CASE m = "memory.stats" BY <1>1 DEF BoolFields, IntFields, DoubleFields, ArrayFields, ObjectFields
<1>2. CASE m = "memory.query" BY <1>2 DEF BoolFields, IntFields, DoubleFields, ArrayFields, ObjectFields
<1>3. CASE m = "memory.compact" BY <1>3 DEF BoolFields, IntFields, DoubleFields, ArrayFields, ObjectFields
<1>4. CASE m \in {"memory.write", "memory.pin", "store.compact", "memory.describe"}
  BY <1>4 DEF BoolFields, IntFields, DoubleFields, ArrayFields, ObjectFields
<1> QED BY <1>1, <1>2, <1>3, <1>4 DEF Methods

\* Fields that are in the schema with this type.
Typed(m, fields, type) == fields \subseteq DOMAIN Schema(m) /\ \A f \in fields : Schema(m)[f] = type

TablesTyped(m) ==
    /\ Typed(m, BoolFields(m), "boolean") /\ Typed(m, IntFields(m), "integer")
    /\ Typed(m, DoubleFields(m), "number") /\ Typed(m, ArrayFields(m), "array")
    /\ Typed(m, ObjectFields(m), "object")

LEMMA TablesInSchemas == ASSUME NEW m \in Methods PROVE TablesTyped(m)
<1>1. CASE m = "memory.write"
  <2>1. Schema(m) = WriteSchema BY <1>1 DEF Schema
  <2> QED BY <1>1, <2>1 DEF TablesTyped, Typed, WriteSchema, Of, ++,
             BoolFields, IntFields, DoubleFields, ArrayFields, ObjectFields
<1>2. CASE m = "memory.query"
  <2>1. Schema(m) = QuerySchema BY <1>2 DEF Schema
  <2>2. Typed(m, BoolFields(m), "boolean") BY <1>2, <2>1 DEF Typed, QuerySchema, Of, ++, BoolFields
  <2>3. Typed(m, IntFields(m), "integer") BY <1>2, <2>1 DEF Typed, QuerySchema, Of, ++, IntFields
  <2>4. Typed(m, DoubleFields(m), "number") BY <1>2, <2>1 DEF Typed, QuerySchema, Of, ++, DoubleFields
  <2>5. Typed(m, ArrayFields(m), "array") BY <1>2, <2>1 DEF Typed, QuerySchema, Of, ++, ArrayFields
  <2>6. Typed(m, ObjectFields(m), "object") BY <1>2, <2>1 DEF Typed, QuerySchema, Of, ++, ObjectFields
  <2> QED BY <2>2, <2>3, <2>4, <2>5, <2>6 DEF TablesTyped
<1>3. CASE m = "memory.stats"
  <2>1. Schema(m) = StatsSchema BY <1>3 DEF Schema
  <2>2. Typed(m, BoolFields(m), "boolean") BY <1>3, <2>1 DEF Typed, StatsSchema, Of, ++, BoolFields
  <2>3. Typed(m, IntFields(m), "integer") BY <1>3, <2>1 DEF Typed, StatsSchema, Of, ++, IntFields
  <2>4. Typed(m, DoubleFields(m), "number") BY <1>3, <2>1 DEF Typed, StatsSchema, Of, ++, DoubleFields
  <2>5. ArrayFields(m) = {} /\ ObjectFields(m) = {} BY <1>3 DEF ArrayFields, ObjectFields
  <2> QED BY <2>2, <2>3, <2>4, <2>5 DEF TablesTyped, Typed
<1>4. CASE m = "memory.compact"
  <2>1. Schema(m) = CompactSchema BY <1>4 DEF Schema
  <2> QED BY <1>4, <2>1 DEF TablesTyped, Typed, CompactSchema, Of, ++,
             BoolFields, IntFields, DoubleFields, ArrayFields, ObjectFields
<1>5. CASE m = "memory.pin"
  <2>1. Schema(m) = PinSchema BY <1>5 DEF Schema
  <2> QED BY <1>5, <2>1 DEF TablesTyped, Typed, PinSchema, Of, ++,
             BoolFields, IntFields, DoubleFields, ArrayFields, ObjectFields
<1>6. CASE m = "store.compact"
  <2>1. Schema(m) = StoreCompactTriggerResult BY <1>6 DEF Schema
  <2> QED BY <1>6, <2>1 DEF TablesTyped, Typed, StoreCompactTriggerResult, Of, ++,
             BoolFields, IntFields, DoubleFields, ArrayFields, ObjectFields
<1>7. CASE m = "memory.describe"
  <2>1. Schema(m) = DescribeSchema BY <1>7 DEF Schema
  <2> QED BY <1>7, <2>1 DEF TablesTyped, Typed, DescribeSchema, Of, ++,
             BoolFields, IntFields, DoubleFields, ArrayFields, ObjectFields
<1> QED BY <1>1, <1>2, <1>3, <1>4, <1>5, <1>6, <1>7 DEF Methods

\* Fields fit that a handler puts into its tree as their table expects, and
\* fields without a table that are printed with the type of the schema.
Tabled(m) == BoolFields(m) \cup IntFields(m) \cup DoubleFields(m) \cup ArrayFields(m) \cup ObjectFields(m)

LEMMA FitBool ==
    ASSUME NEW m \in Methods, NEW fields, fields \subseteq BoolFields(m)
    PROVE  AllFit(m, Each(fields, "bool"))
<1> SUFFICES ASSUME NEW f \in fields PROVE Fits(m, f, "bool") BY AllFitEach
<1>1. Normal(m, f, "bool") = "boolean" BY NormalBool, TablesDisjoint, Conversions
<1> QED BY <1>1, TablesInSchemas DEF TablesTyped, Typed, Fits, Unconverted

LEMMA FitInt ==
    ASSUME NEW m \in Methods, NEW fields, fields \subseteq IntFields(m), NEW x \in {"int", "wide"}
    PROVE  AllFit(m, Each(fields, x))
<1> SUFFICES ASSUME NEW f \in fields PROVE Fits(m, f, x) BY AllFitEach
<1>1. Normal(m, f, "int") = "integer" /\ Normal(m, f, "wide") = "string_of_a_wide_int"
  BY NormalInt, TablesDisjoint, Conversions
<1> QED BY <1>1, TablesInSchemas DEF TablesTyped, Typed, Fits, Unconverted

LEMMA FitDouble ==
    ASSUME NEW m \in Methods, NEW fields, fields \subseteq DoubleFields(m), NEW x \in Finals
    PROVE  AllFit(m, Each(fields, x))
<1> SUFFICES ASSUME NEW f \in fields PROVE Fits(m, f, x) BY AllFitEach
<1>1. Normal(m, f, x) = ConvertValueToDoubleIfString(Printed(x)) BY NormalDouble, TablesDisjoint
<1>2. /\ x = "num" => Normal(m, f, x) = "number"
      /\ x = "tiny" => Normal(m, f, x) = "string_of_a_tiny_number"
      /\ x = "inf" => Normal(m, f, x) = "infinite"
  BY <1>1, Conversions
<1> QED BY <1>2, TablesInSchemas DEF TablesTyped, Typed, Fits, Unconverted, Finals

LEMMA FitArray ==
    ASSUME NEW m \in Methods, NEW fields, fields \subseteq ArrayFields(m), NEW x \in Lists
    PROVE  AllFit(m, Each(fields, x))
<1> SUFFICES ASSUME NEW f \in fields PROVE Fits(m, f, x) BY AllFitEach
<1>1. Normal(m, f, x) = EnsureArrayMember(Printed(x)) BY NormalArray, TablesDisjoint
<1>2. Normal(m, f, x) = "array" BY <1>1, Conversions DEF Lists
<1> QED BY <1>2, TablesInSchemas DEF TablesTyped, Typed, Fits, Lists

LEMMA FitObject ==
    ASSUME NEW m \in Methods, NEW fields, fields \subseteq ObjectFields(m), NEW x \in Objects
    PROVE  AllFit(m, Each(fields, x))
<1> SUFFICES ASSUME NEW f \in fields PROVE Fits(m, f, x) BY AllFitEach
<1>1. Normal(m, f, x) = EnsureObjectMember(Printed(x)) BY NormalObject, TablesDisjoint
<1>2. Normal(m, f, x) = IF x = "unkeyed" THEN "string" ELSE "object" BY <1>1, Conversions DEF Objects
<1> QED BY <1>2, TablesInSchemas DEF TablesTyped, Typed, Fits, Unconverted, Objects

LEMMA FitOther ==
    ASSUME NEW m, NEW fields, fields \cap Tabled(m) = {}, NEW x, Typed(m, fields, Printed(x)),
           x # "inf", Printed(x) # "infinite"
    PROVE  AllFit(m, Each(fields, x))
<1> SUFFICES ASSUME NEW f \in fields PROVE Fits(m, f, x) BY AllFitEach
<1>1. Normal(m, f, x) = Printed(x) BY NormalOther DEF Tabled
<1> QED BY <1>1 DEF Typed, Fits

\* Trees that fit their method and lack nothing.
Proper(m, tree) == AllFit(m, tree) /\ DOMAIN Schema(m) \ Optional(m, tree) \subseteq DOMAIN tree

\* The results of the handlers.
LEMMA WriteProper == ASSUME NEW tree \in HandleWrite PROVE Proper("memory.write", tree)
<1> DEFINE m == "memory.write"
<1>1. PICK l \in Lists \X Lists \X Lists : tree = 
    Each({"ok"}, "bool") ++ Each({"index_generation"}, "int")
       ++ Each({"stored_ids"}, l[1]) ++ Each({"deduped_ids"}, l[2]) ++ Each({"warnings"}, l[3])
  BY DEF HandleWrite
<1> DEFINE a == Each({"ok"}, "bool")
           b == Each({"index_generation"}, "int")
           c == Each({"stored_ids"}, l[1])
           d == Each({"deduped_ids"}, l[2])
           e == Each({"warnings"}, l[3])
<1>0. m \in Methods BY DEF Methods
<1>2. AllFit(m, a) BY <1>0, FitBool DEF BoolFields
<1>3. AllFit(m, b) BY <1>0, FitInt DEF IntFields
<1>4. {"stored_ids", "deduped_ids", "warnings"} \subseteq ArrayFields(m) BY DEF ArrayFields
<1>5. AllFit(m, c) /\ AllFit(m, d) /\ AllFit(m, e) BY <1>0, <1>4, FitArray
<1>6. /\ DOMAIN a = {"ok"} /\ DOMAIN b = {"index_generation"} /\ DOMAIN c = {"stored_ids"}
      /\ DOMAIN d = {"deduped_ids"} /\ DOMAIN e = {"warnings"}
  BY EachIs
<1> HIDE DEF a, b, c, d, e
<1>7. tree = a ++ b ++ c ++ d ++ e BY <1>1 DEF a, b, c, d, e
<1>8. AllFit(m, tree) BY <1>2, <1>3, <1>5, <1>7, AllFitJoined
<1>9. \A x : x \in DOMAIN tree <=>
         x \in DOMAIN a \/ x \in DOMAIN b \/ x \in DOMAIN c \/ x \in DOMAIN d \/ x \in DOMAIN e
  BY <1>7, JoinedFields
<1>10. DOMAIN Schema(m) \subseteq DOMAIN tree BY <1>6, <1>9 DEF Schema, WriteSchema, Of, ++
<1> QED BY <1>8, <1>10 DEF Proper

LEMMA StatsProper == ASSUME NEW tree \in HandleStats PROVE Proper("memory.stats", tree)
<1> DEFINE m == "memory.stats"
           a == Each({"p95_read_ms", "p95_write_ms", "token_reduction_ratio", "fallback_rate"}, "num")
           b == Each({"mem_used_bytes", "disk_used_bytes", "resident_limit_bytes", "resident_evicted_count",
                      "disk_fallback_search_count", "item_count", "tombstone_count", "gc_last_run_ms",
                      "gc_evicted_count"}, "int")
           c(used) == Each({"resident_used_bytes"}, used)
           d == Each({"capacity_blocked"}, "bool")
           e == Each({"write_ack_mode", "effective_backend"}, "text")
           f == Each({"index_stats"}, "object")
           g == Each({"segment_count", "posting_terms", "vector_count", "cold_rehydrate_count"}, "int")
           h == Each({"query_cache_hit_rate", "dense_probe_count_p95"}, "num")
<1>1. PICK used \in {"int", "wide"} : tree = a ++ b ++ c(used) ++ d ++ e ++ f ++ g ++ h
  BY DEF HandleStats
<1>0. m \in Methods BY DEF Methods
<1>2. AllFit(m, a) /\ AllFit(m, h) BY <1>0, FitDouble DEF DoubleFields, Finals
<1>3. AllFit(m, b) /\ AllFit(m, g) /\ AllFit(m, c(used)) BY <1>0, FitInt DEF IntFields
<1>4. AllFit(m, d) BY <1>0, FitBool DEF BoolFields
<1>5. {"write_ack_mode", "effective_backend", "index_stats"} \cap Tabled(m) = {}
  BY DEF Tabled, BoolFields, IntFields, DoubleFields, ArrayFields, ObjectFields
<1>6. Schema(m) = StatsSchema BY DEF Schema
<1>7. Typed(m, {"write_ack_mode", "effective_backend"}, "string") /\ Typed(m, {"index_stats"}, "object")
  BY <1>6 DEF Typed, StatsSchema, Of, ++
<1>8. AllFit(m, e) /\ AllFit(m, f) BY <1>5, <1>7, FitOther, Conversions
<1>9. \A x : x \in DOMAIN tree <=> x \in DOMAIN a \/ x \in DOMAIN b \/ x \in DOMAIN c(used) \/ x \in DOMAIN d
                              \/ x \in DOMAIN e \/ x \in DOMAIN f \/ x \in DOMAIN g \/ x \in DOMAIN h
  <2> HIDE DEF a, b, c, d, e, f, g, h
  <2> QED BY <1>1, JoinedFields
<1>10. AllFit(m, tree)
  <2> HIDE DEF a, b, c, d, e, f, g, h
  <2> QED BY <1>1, <1>2, <1>3, <1>4, <1>8, AllFitJoined
<1>11. DOMAIN StatsSchema \subseteq DOMAIN tree BY <1>9 DEF StatsSchema, Of, ++, Each
<1> QED BY <1>6, <1>10, <1>11 DEF Proper

LEMMA PinProper == ASSUME NEW tree \in HandlePin PROVE Proper("memory.pin", tree)
<1> DEFINE m == "memory.pin"
           a == Each({"ok"}, "bool")
           b == Each({"error"}, "text")
<1>0. m \in Methods BY DEF Methods
<1>1. tree = a \/ tree = a ++ b BY DEF HandlePin
<1>2. AllFit(m, a) BY <1>0, FitBool DEF BoolFields
<1>3. {"error"} \cap Tabled(m) = {}
  BY DEF Tabled, BoolFields, IntFields, DoubleFields, ArrayFields, ObjectFields
<1>4. Schema(m) = PinSchema BY DEF Schema
<1>5. Typed(m, {"error"}, "string") BY <1>4 DEF Typed, PinSchema, Of, ++
<1>6. AllFit(m, b) BY <1>3, <1>5, FitOther, Conversions
<1>7. DOMAIN a = {"ok"} BY EachIs
<1> HIDE DEF a, b
<1>8. AllFit(m, tree) BY <1>1, <1>2, <1>6, AllFitJoined
<1>9. "ok" \in DOMAIN tree BY <1>1, <1>7, JoinedFields
<1>10. Optional(m, tree) = {"error"} BY DEF Optional
<1>11. DOMAIN PinSchema \subseteq {"ok", "error"} BY DEF PinSchema, Of, ++
<1> QED BY <1>4, <1>8, <1>9, <1>10, <1>11 DEF Proper

LEMMA CompactProper == ASSUME NEW tree \in HandleCompact PROVE Proper("memory.compact", tree)
<1> DEFINE m == "memory.compact"
           a == Each({"triggered", "capacity_blocked"}, "bool")
           b == Each({"mem_before_bytes", "disk_before_bytes", "mem_after_bytes", "disk_after_bytes",
                      "summarized_count", "tombstoned_count", "deleted_count", "segments_before",
                      "segments_after", "postings_reclaimed", "vectors_reclaimed"}, "int")
<1>0. m \in Methods BY DEF Methods
<1>1. tree = a ++ b BY DEF HandleCompact
<1>2. AllFit(m, a) BY <1>0, FitBool DEF BoolFields
<1>3. AllFit(m, b) BY <1>0, FitInt DEF IntFields
<1>4. AllFit(m, tree) BY <1>1, <1>2, <1>3, AllFitJoined
<1>5. Schema(m) = CompactSchema BY DEF Schema
<1>6. \A x : x \in DOMAIN tree <=> x \in DOMAIN a \/ x \in DOMAIN b BY <1>1, JoinedFields
<1>7. DOMAIN CompactSchema \subseteq DOMAIN tree BY <1>6 DEF CompactSchema, Of, ++, Each
<1> QED BY <1>4, <1>5, <1>7 DEF Proper

LEMMA StoreCompactProper == ASSUME NEW tree \in HandleStoreCompact PROVE Proper("store.compact", tree)
<1> DEFINE m == "store.compact"
           a == Each({"triggered", "noop", "busy", "async"}, "bool")
           b == Each({"partition_count"}, "int")
           c == Each({"message"}, "text")
<1>0. m \in Methods BY DEF Methods
<1>1. tree = a ++ b ++ c BY DEF HandleStoreCompact
<1>2. AllFit(m, a) BY <1>0, FitBool DEF BoolFields
<1>3. AllFit(m, b) BY <1>0, FitInt DEF IntFields
<1>4. {"message"} \cap Tabled(m) = {}
  BY DEF Tabled, BoolFields, IntFields, DoubleFields, ArrayFields, ObjectFields
<1>5. Schema(m) = StoreCompactTriggerResult BY DEF Schema
<1>6. Typed(m, {"message"}, "string") BY <1>5 DEF Typed, StoreCompactTriggerResult, Of, ++
<1>7. AllFit(m, c) BY <1>4, <1>6, FitOther, Conversions
<1>8. /\ AllFit(m, tree)
      /\ \A x : x \in DOMAIN tree <=> x \in DOMAIN a \/ x \in DOMAIN b \/ x \in DOMAIN c
  <2> HIDE DEF a, b, c
  <2> QED BY <1>1, <1>2, <1>3, <1>7, AllFitJoined, JoinedFields
<1>9. DOMAIN StoreCompactTriggerResult \subseteq DOMAIN tree
  BY <1>8 DEF StoreCompactTriggerResult, Of, ++, Each
<1> QED BY <1>5, <1>8, <1>9 DEF Proper

LEMMA DescribeProper == ASSUME NEW tree \in HandleDescribe PROVE Proper("memory.describe", tree)
<1> DEFINE m == "memory.describe"
           a == Each({"describe_version", "schema_revision"}, "text")
           b == Each({"generated_at_ms"}, "int")
           c == Each({"server", "methods", "errors"}, "object")
           d == Each({"method_names"}, "list")
<1>0. m \in Methods BY DEF Methods
<1>1. tree = a ++ b ++ c ++ d BY DEF HandleDescribe
<1>2. AllFit(m, b) BY <1>0, FitInt DEF IntFields
<1>3. {"describe_version", "schema_revision", "server", "methods", "errors", "method_names"} \cap Tabled(m) = {}
  BY DEF Tabled, BoolFields, IntFields, DoubleFields, ArrayFields, ObjectFields
<1>4. Schema(m) = DescribeSchema BY DEF Schema
<1>5. /\ Typed(m, {"describe_version", "schema_revision"}, "string")
      /\ Typed(m, {"server", "methods", "errors"}, "object")
      /\ Typed(m, {"method_names"}, "array")
  BY <1>4 DEF Typed, DescribeSchema, Of, ++
<1>6. AllFit(m, a) /\ AllFit(m, c) /\ AllFit(m, d) BY <1>3, <1>5, FitOther, Conversions
<1>7. /\ AllFit(m, tree)
      /\ \A x : x \in DOMAIN tree <=> x \in DOMAIN a \/ x \in DOMAIN b \/ x \in DOMAIN c \/ x \in DOMAIN d
  <2> HIDE DEF a, b, c, d
  <2> QED BY <1>1, <1>2, <1>6, AllFitJoined, JoinedFields
<1>8. DOMAIN DescribeSchema \subseteq DOMAIN tree BY <1>7 DEF DescribeSchema, Of, ++, Each
<1> QED BY <1>4, <1>7, <1>8 DEF Proper

\* The parts of the result of memory.query.
LEMMA DebugFits == AllFit("memory.query", DebugStats)
<1> DEFINE m == "memory.query"
           a == Each({"debug_stats", "latency_ms"}, "object")
           b == Each({"sparse_candidates", "dense_candidates", "merged_candidates"}, "int")
           c == Each({"latency.sparse", "latency.dense", "latency.rerank", "latency.total"}, "num")
<1>0. m \in Methods BY DEF Methods
<1>1. DebugStats = a ++ b ++ c BY DEF DebugStats
<1>2. {"debug_stats", "latency_ms"} \cap Tabled(m) = {}
  BY DEF Tabled, BoolFields, IntFields, DoubleFields, ArrayFields, ObjectFields
<1>3. Schema(m) = QuerySchema BY DEF Schema
<1>4. Typed(m, {"debug_stats", "latency_ms"}, "object") BY <1>3 DEF Typed, QuerySchema, Of, ++
<1>5. AllFit(m, a) BY <1>2, <1>4, FitOther, Conversions
<1>6. AllFit(m, b) BY <1>0, FitInt DEF IntFields
<1>7. AllFit(m, c) BY <1>0, FitDouble DEF DoubleFields, Finals
<1> HIDE DEF a, b, c
<1> QED BY <1>1, <1>5, <1>6, <1>7, AllFitJoined

\* What a result without hits lacks.
HitFields == {"memory_id", "source", "content", "tags", "metadata", "scores", "scores.sparse", "scores.dense",
              "scores.freshness", "scores.pin", "scores.final", "updated_at_ms", "pinned"}

LEMMA HitFits == ASSUME NEW h \in Hit PROVE AllFit("memory.query", h) /\ HitFields \subseteq DOMAIN h
<1> DEFINE m == "memory.query"
           a == Each({"memory_id", "source", "content"}, "text")
           b(l) == Each({"tags"}, l)
           c(o) == Each({"metadata"}, o)
           d == Each({"scores"}, "object")
           e == Each({"scores.sparse", "scores.dense", "scores.freshness", "scores.pin"}, "num")
           z(y) == Each({"scores.final"}, y)
           f == Each({"updated_at_ms"}, "int")
           g == Each({"pinned"}, "bool")
<1>0. m \in Methods BY DEF Methods
<1>1. PICK l \in Lists, o \in Objects, y \in Finals : h = a ++ b(l) ++ c(o) ++ d ++ e ++ z(y) ++ f ++ g BY DEF Hit
<1>2. {"memory_id", "source", "content", "scores"} \cap Tabled(m) = {}
  BY DEF Tabled, BoolFields, IntFields, DoubleFields, ArrayFields, ObjectFields
<1>3. Schema(m) = QuerySchema BY DEF Schema
<1>4. Typed(m, {"memory_id", "source", "content"}, "string") /\ Typed(m, {"scores"}, "object")
  BY <1>3 DEF Typed, QuerySchema, Of, ++
<1>5. AllFit(m, a) /\ AllFit(m, d) BY <1>2, <1>4, FitOther, Conversions
<1>6. AllFit(m, b(l)) BY <1>0, FitArray DEF ArrayFields
<1>7. AllFit(m, c(o)) BY <1>0, FitObject DEF ObjectFields
<1>8. AllFit(m, e) /\ AllFit(m, z(y)) BY <1>0, FitDouble DEF DoubleFields, Finals
<1>9. AllFit(m, f) BY <1>0, FitInt DEF IntFields
<1>10. AllFit(m, g) BY <1>0, FitBool DEF BoolFields
<1>11. /\ AllFit(m, h)
       /\ \A x : x \in DOMAIN h <=> \/ x \in DOMAIN a \/ x \in DOMAIN b(l) \/ x \in DOMAIN c(o) \/ x \in DOMAIN d
                                   \/ x \in DOMAIN e \/ x \in DOMAIN z(y) \/ x \in DOMAIN f \/ x \in DOMAIN g
  <2> HIDE DEF a, b, c, d, e, f, g, z
  <2> QED BY <1>1, <1>5, <1>6, <1>7, <1>8, <1>9, <1>10, AllFitJoined, JoinedFields
<1>12. HitFields \subseteq DOMAIN h BY <1>11 DEF HitFields, Each
<1> QED BY <1>11, <1>12

LEMMA QueryProper == ASSUME NEW tree \in HandleQuery PROVE Proper("memory.query", tree)
<1> DEFINE m == "memory.query"
           no == Each({"hits"}, "no_list")
           some == Each({"hits"}, "list")
           required == {"hits", "debug_stats", "latency_ms", "sparse_candidates", "dense_candidates",
                        "merged_candidates", "latency.sparse", "latency.dense", "latency.rerank", "latency.total"}
<1>0. m \in Methods BY DEF Methods
<1>1. \/ tree = no ++ DebugStats \/ \E h \in Hit : tree = some ++ h ++ DebugStats BY DEF HandleQuery
<1>2. AllFit(m, no) /\ AllFit(m, some) BY <1>0, FitArray DEF ArrayFields, Lists
<1>3. DOMAIN no = {"hits"} /\ DOMAIN some = {"hits"} BY EachIs
<1> HIDE DEF no, some
<1>4. AllFit(m, tree) BY <1>1, <1>2, DebugFits, HitFits, AllFitJoined
<1>5. \A x : x \in DOMAIN DebugStats <=> x \in required \ {"hits"}
  <2> DEFINE a == Each({"debug_stats", "latency_ms"}, "object")
             b == Each({"sparse_candidates", "dense_candidates", "merged_candidates"}, "int")
             c == Each({"latency.sparse", "latency.dense", "latency.rerank", "latency.total"}, "num")
  <2>1. \A x : x \in DOMAIN DebugStats <=> x \in DOMAIN a \/ x \in DOMAIN b \/ x \in DOMAIN c
    BY JoinedFields DEF DebugStats
  <2> QED BY <2>1 DEF Each
<1>6. required \subseteq DOMAIN tree BY <1>1, <1>3, <1>5, JoinedFields
<1>7. "memory_id" \in DOMAIN tree => HitFields \subseteq DOMAIN tree
  <2>1. CASE tree = no ++ DebugStats
    <3>1. "memory_id" \notin DOMAIN tree BY <2>1, <1>3, <1>5, JoinedFields
    <3> QED BY <3>1
  <2>2. ASSUME NEW h \in Hit, tree = some ++ h ++ DebugStats PROVE HitFields \subseteq DOMAIN tree
    BY <2>2, HitFits, JoinedFields
  <2> QED BY <1>1, <2>1, <2>2
<1>8. Optional(m, tree) = IF "memory_id" \notin DOMAIN tree THEN HitFields ELSE {} BY DEF Optional, HitFields
<1>9. Schema(m) = QuerySchema BY DEF Schema
<1>10. DOMAIN QuerySchema \subseteq required \cup HitFields BY DEF QuerySchema, Of, ++, HitFields
<1> HIDE DEF required
<1>11. DOMAIN Schema(m) \ Optional(m, tree) \subseteq DOMAIN tree BY <1>6, <1>7, <1>8, <1>9, <1>10
<1> QED BY <1>4, <1>11 DEF Proper

\* Every result is proper,
LEMMA ResultsProper == ASSUME NEW m \in Methods, NEW tree \in Results(m) PROVE Proper(m, tree)
<1>1. CASE m = "memory.write"
  <2>1. Results(m) = HandleWrite BY <1>1 DEF Results
  <2> QED BY <1>1, <2>1, WriteProper
<1>2. CASE m = "memory.query"
  <2>1. Results(m) = HandleQuery BY <1>2 DEF Results
  <2> QED BY <1>2, <2>1, QueryProper
<1>3. CASE m = "memory.pin"
  <2>1. Results(m) = HandlePin BY <1>3 DEF Results
  <2> QED BY <1>3, <2>1, PinProper
<1>4. CASE m = "memory.stats"
  <2>1. Results(m) = HandleStats BY <1>4 DEF Results
  <2> QED BY <1>4, <2>1, StatsProper
<1>5. CASE m = "memory.compact"
  <2>1. Results(m) = HandleCompact BY <1>5 DEF Results
  <2> QED BY <1>5, <2>1, CompactProper
<1>6. CASE m = "store.compact"
  <2>1. Results(m) = HandleStoreCompact BY <1>6 DEF Results
  <2> QED BY <1>6, <2>1, StoreCompactProper
<1>7. CASE m = "memory.describe"
  <2>1. Results(m) = HandleDescribe BY <1>7 DEF Results
  <2> QED BY <1>7, <2>1, DescribeProper
<1> QED BY <1>1, <1>2, <1>3, <1>4, <1>5, <1>6, <1>7 DEF Methods

\* so that normalised it is what its schema says.
AsSchema(m, tree, fields) ==
    /\ DOMAIN Schema(m) \ Optional(m, fields) \subseteq DOMAIN fields
    /\ DOMAIN fields \subseteq DOMAIN Schema(m)
    /\ \A f \in DOMAIN fields : tree[f] \notin Unconverted => fields[f] = Schema(m)[f]

\* unless a score is infinite.
LEMMA NormalisedAsSchema ==
    ASSUME NEW m \in Methods, NEW tree \in Results(m)
    PROVE  LET fields == NormalizeResultByMethod(ToJsonString(tree), m) IN
           IF \E f \in DOMAIN fields : fields[f] = "infinite" THEN \E f \in DOMAIN tree : tree[f] = "inf"
           ELSE AsSchema(m, tree, fields)
<1> DEFINE fields == NormalizeResultByMethod(ToJsonString(tree), m)
<1>1. DOMAIN fields = DOMAIN tree BY DEF NormalizeResultByMethod, ToJsonString
<1>2. ASSUME NEW f \in DOMAIN tree PROVE fields[f] = Normal(m, f, tree[f])
  <2>1. ToJsonString(tree)[f] = Printed(tree[f]) /\ f \in DOMAIN ToJsonString(tree) BY DEF ToJsonString
  <2> QED BY <2>1, Zenon DEF NormalizeResultByMethod, Normal
<1>3. Proper(m, tree) BY ResultsProper
<1>4. Optional(m, fields) = Optional(m, tree) BY <1>1 DEF Optional
<1> HIDE DEF fields
<1>5. \A f \in DOMAIN tree : fields[f] = "infinite" <=> tree[f] = "inf" BY <1>2, <1>3 DEF Proper, AllFit, Fits
<1>6. CASE \E f \in DOMAIN fields : fields[f] = "infinite" BY <1>1, <1>5, <1>6 DEF fields
<1>7. CASE ~ \E f \in DOMAIN fields : fields[f] = "infinite"
  <2>1. AsSchema(m, tree, fields)
    BY <1>1, <1>2, <1>3, <1>4, <1>5, <1>7 DEF AsSchema, Proper, AllFit, Fits
  <2> QED BY <1>7, <2>1 DEF fields
<1> QED BY <1>6, <1>7

-----------------------------------------------------------------------------
(* Answers with a result *)

\* An answer with a result has the types of the method that ran.
TypedConn(j) ==
    (j.pc = "answered" /\ j.answer.kind = "result" /\ j.ran # "none") =>
        j.ran \in Methods /\ AsSchema(j.ran, j.tree, j.answer.fields)

\* One that is cut off had a score that is infinite.
CutConn(j) == (j.pc = "answered" /\ j.answer.kind = "cut") => \E f \in DOMAIN j.tree : j.tree[f] = "inf"

TypesInv == \A c \in Conn : TypedConn(conn[c]) /\ CutConn(conn[c])

\* The envelopes of calls.
LEMMA EnvelopeIs ==
    ASSUME ServerInv, NEW c \in Conn, conn[c].pc = "call"
    PROVE  conn[c].todo.envelope \in {"jsonrpc", "tool", "direct", "get"}
<1> DEFINE j == conn[c]
<1>1. /\ j.todo = Decision(j.req) /\ j.todo.envelope # "none" /\ j.req.route \in {"POST/mcp", "GET/mcp/describe"}
  BY DEF ServerInv, ConnOK
<1> HIDE DEF j
<1>2. j.todo.envelope \in {"jsonrpc", "tool", "direct", "get"}
  <2>1. CASE j.req.route = "POST/mcp"
    <3>1. j.todo = HandleMcpJsonRpc(j.req) BY <1>1, <2>1 DEF Decision
    <3> QED BY <1>1, <3>1, EnvelopeOfCall
  <2>2. CASE j.req.route # "POST/mcp"
    <3>1. j.todo = Call("memory.describe", "get") BY <2>2, <1>1 DEF Decision
    <3> QED BY <3>1, DecisionFields
  <2> QED BY <2>1, <2>2
<1> QED BY <1>2 DEF j

\* A method answers with its normalised result, or in the text of a tool.
LEMMA HandleTypes ==
    ASSUME ServerInv, NEW c \in Conn, Handle(c)
    PROVE  TypedConn(conn'[c]) /\ CutConn(conn'[c])
<1> DEFINE j == conn[c]
           m == j.todo.method
<1>1. PICK tree \in Results(m) :
        conn' = [conn EXCEPT ![c] = [Answered(c, CallResult(c, m, tree)) EXCEPT !.ran = m, !.tree = tree]]
  BY DEF Handle
<1>2. j.pc = "call" /\ m \in Methods BY DEF Handle, Calls
<1> DEFINE a == CallResult(c, m, tree)
           h == Answered(c, a)
           k == [h EXCEPT !.ran = m, !.tree = tree]
<1>3. IsConn(j) BY DEF ServerInv
<1>4. h = [j EXCEPT !.pc = "answered", !.answer = a] BY DEF Answered
<1>5. conn'[c] = k BY <1>1 DEF ServerInv
<1> DEFINE norm == NormalizeResultByMethod(ToJsonString(tree), m)
<1>6. /\ a.kind = "result" => a.fields = norm /\ \A f \in DOMAIN norm : norm[f] # "infinite"
      /\ a.kind = "cut" => \E f \in DOMAIN norm : norm[f] = "infinite"
  <2> DEFINE e == conn[c].todo.envelope
             id == JsonRpcIdLiteral(conn[c].req.id)
             direct == DirectId(conn[c].req.id)
             json == ToJsonString(tree)
  <2>1. e \in {"jsonrpc", "tool", "direct", "get"} BY <1>2, EnvelopeIs
  <2>2. /\ e = "jsonrpc" => a = Written(id, norm)
        /\ e = "tool" => a = Result(id, "tool_result", json)
        /\ e = "direct" => a = Written(direct, norm)
        /\ e = "get" => a = Written("none", norm)
    BY DEF CallResult
  <2> HIDE DEF a, norm, json, e, id, direct
  <2>3. CASE e = "tool"
    <3>1. a.kind = "tool_result" BY <2>2, <2>3, ResultFields
    <3> QED BY <3>1
  <2>4. CASE e # "tool"
    <3>1. PICK x : a = Written(x, norm) BY <2>1, <2>2, <2>4
    <3>2. a.kind # "cut" => a = Result(x, "result", norm) /\ \A f \in DOMAIN norm : norm[f] # "infinite"
      BY <3>1, WrittenIs
    <3>3. a.kind = "cut" => \E f \in DOMAIN norm : norm[f] = "infinite" BY <3>1, WrittenIs
    <3> QED BY <3>2, <3>3, ResultFields
  <2> QED BY <2>3, <2>4
<1>7. IF \E f \in DOMAIN norm : norm[f] = "infinite" THEN \E f \in DOMAIN tree : tree[f] = "inf"
      ELSE AsSchema(m, tree, norm)
  BY <1>2, NormalisedAsSchema
<1>k. k = [h EXCEPT !.ran = m, !.tree = tree] OBVIOUS
<1> HIDE DEF j, m, a, h, k, norm
<1>8. IsConn(h) /\ h.answer = a BY <1>3, <1>4 DEF IsConn
<1>9. k.answer = a /\ k.ran = m /\ k.tree = tree BY <1>8, <1>k DEF IsConn
<1>10. TypedConn(k) BY <1>2, <1>6, <1>7, <1>9 DEF TypedConn
<1>11. CutConn(k) BY <1>6, <1>7, <1>9 DEF CutConn
<1> QED BY <1>5, <1>10, <1>11

\* No route and no error of the dispatcher cuts an answer off.
LEMMA DecidedWhole ==
    ASSUME NEW r \in Request
    PROVE  Route(r).answer.kind # "cut"
<1> DEFINE Whole(d) == d.answer.kind # "cut"
<1>1. /\ \A status : Whole(Answer(Http(status)))
      /\ \A id, code : Whole(Answer(Error(id, code)))
      /\ \A id, fields : Whole(Answer(Result(id, "result", fields)))
      /\ \A m, envelope : Whole(Call(m, envelope))
  BY DEF Answer, Call, Http, Error, Result
<1>2. ASSUME NEW id PROVE Whole(ToolCall(r, id)) /\ Whole(MethodCall(r, id))
  <2> HIDE DEF Whole
  <2> QED BY <1>1 DEF ToolCall, MethodCall
<1>3. ASSUME NEW id PROVE Whole(RpcCall(r, id))
  <2> DEFINE d == RpcCall(r, id)
  <2>1. \/ d = Answer(Http(204))
        \/ d = Answer(Result(id, "result", NoFields))
        \/ d = Answer(Result(id, "result", ToolsList))
        \/ d = Answer(Error(id, -32601))
        \/ d = ToolCall(r, id)
        \/ d = MethodCall(r, id)
    BY DEF RpcCall
  <2> HIDE DEF d, Whole
  <2>2. Whole(d) BY <1>1, <1>2, <2>1
  <2> QED BY <2>2 DEF d
<1>4. Whole(HandleMcpJsonRpc(r))
  <2> HIDE DEF Whole
  <2> QED BY <1>1, <1>3 DEF HandleMcpJsonRpc
<1>5. Whole(Route(r))
  <2> HIDE DEF Whole
  <2>1. r.route \in {"GET/health", "GET/mcp/describe", "POST/mcp", "other"} BY DEF Request
  <2>2. CASE r.route = "other" BY <1>1, <2>2 DEF Route
  <2>3. CASE r.route # "other" /\ ~ready BY <1>1, <2>3 DEF Route
  <2>4. CASE r.route = "GET/health" /\ ready BY <1>1, <2>4 DEF Route
  <2>5. CASE r.route = "GET/mcp/describe" /\ ready BY <1>1, <2>5 DEF Route
  <2>6. CASE r.route = "POST/mcp" /\ ready BY <1>4, <2>6 DEF Route
  <2> QED BY <2>1, <2>2, <2>3, <2>4, <2>5, <2>6
<1> QED BY <1>5

LEMMA ErrorWhole ==
    ASSUME ServerInv, NEW c \in Conn, conn[c].pc = "call", conn[c].todo.method # "memory.describe", NEW code
    PROVE  CallError(c, code).kind # "cut"
<1> DEFINE j == conn[c]
           e == CallError(c, code)
<1>1. /\ j.todo = Decision(j.req) /\ j.todo.envelope # "none" /\ j.todo.method # "memory.describe"
  BY DEF ServerInv, ConnOK
<1>2. /\ j.todo.envelope = "jsonrpc" => e = Error(JsonRpcIdLiteral(j.req.id), code)
      /\ j.todo.envelope = "tool" => e = Result(JsonRpcIdLiteral(j.req.id), "tool_error", NoFields)
      /\ j.todo.envelope = "direct" => e = Error(DirectId(j.req.id), code)
  BY DEF CallError
<1> HIDE DEF j, e
<1>3. j.todo.envelope \in {"jsonrpc", "tool", "direct"}
  <2>1. CASE j.req.route = "POST/mcp"
    <3>1. j.todo = HandleMcpJsonRpc(j.req) BY <1>1, <2>1 DEF Decision
    <3> QED BY <1>1, <3>1, EnvelopeOfCall
  <2>2. CASE j.req.route # "POST/mcp"
    <3>1. j.todo = Call("memory.describe", "get") BY <2>2, <1>1 DEF Decision
    <3> QED BY <1>1, <3>1, DecisionFields
  <2> QED BY <2>1, <2>2
<1>4. e.kind \in {"error", "tool_error"} BY <1>2, <1>3, ErrorFields, ResultFields
<1> QED BY <1>4 DEF e

\* All other steps run no method, or leave the answer alone.
LEMMA TypesStep == ServerInv /\ TypesInv /\ [Next]_vars => TypesInv'
<1> SUFFICES ASSUME ServerInv, TypesInv, [Next]_vars, NEW x \in Conn PROVE TypedConn(conn'[x]) /\ CutConn(conn'[x])
  BY DEF TypesInv
<1>0. TypedConn(conn[x]) /\ CutConn(conn[x]) BY DEF TypesInv
<1>1. CASE Warmup \/ RunCompactWorker \/ UNCHANGED vars
  <2>1. conn' = conn BY <1>1 DEF Warmup, RunCompactWorker, vars
  <2> QED BY <1>0, <2>1
<1>2. ASSUME NEW c \in Conn, Arrive(c) \/ Server(c) \/ Reply(c) PROVE TypedConn(conn'[x]) /\ CutConn(conn'[x])
  <2>1. CASE x # c
    <3>1. conn'[x] = conn[x] BY <1>2, <2>1, OnlyOne
    <3> QED BY <1>0, <3>1
  <2>2. CASE x = c
    <3>1. IsConn(conn[c]) /\ (conn[c].pc # "answered" => conn[c].ran = "none") BY DEF ServerInv, ConnOK
    <3>2. CASE Arrive(c)
      <4>1. conn'[c].pc = "arrived" BY <3>1, <3>2 DEF Arrive, ServerInv, IsConn
      <4> QED BY <2>2, <4>1 DEF TypedConn, CutConn
    <3>3. CASE Reply(c)
      <4>1. conn'[c].pc = "idle" BY <3>3 DEF Reply, ServerInv, Idle
      <4> QED BY <2>2, <4>1 DEF TypedConn, CutConn
    <3>4. CASE Dispatch(c)
      <4>1. conn[c].ran = "none" /\ conn[c].req \in Request BY <3>1, <3>4 DEF Dispatch, ServerInv, ConnOK
      <4> DEFINE d == Route(conn[c].req)
      <4>2. d.answer.kind # "cut" BY <4>1, DecidedWhole
      <4>3. conn'[c] = IF d.method = "none" /\ d.envelope = "none" THEN Answered(c, d.answer)
                       ELSE [conn[c] EXCEPT !.pc = "call", !.todo = d]
        BY <3>4 DEF Dispatch, ServerInv
      <4> HIDE DEF d
      <4>4. conn'[c].ran = conn[c].ran /\ (conn'[c].pc = "answered" => conn'[c].answer = d.answer)
        BY <3>1, <4>3 DEF Answered, IsConn
      <4> QED BY <2>2, <4>1, <4>2, <4>4 DEF TypedConn, CutConn
    <3>5. ASSUME NEW a, conn'[c] = Answered(c, a), a.kind # "cut", conn[c].ran = "none"
          PROVE  TypedConn(conn'[c]) /\ CutConn(conn'[c])
      <4>1. conn'[c].answer = a /\ conn'[c].ran = "none" BY <3>1, <3>5 DEF Answered, IsConn
      <4> QED BY <3>5, <4>1 DEF TypedConn, CutConn
    <3>6. CASE HandleUnknown(c)
      <4>1. conn[c].pc = "call" /\ conn[c].todo.method \notin Methods BY <3>6 DEF HandleUnknown, Calls
      <4>2. conn'[c] = Answered(c, CallError(c, -32601)) BY <3>6 DEF HandleUnknown, ServerInv
      <4>3. CallError(c, -32601).kind # "cut" BY <4>1, ErrorWhole DEF Methods
      <4> QED BY <2>2, <3>1, <3>5, <4>1, <4>2, <4>3
    <3>7. CASE HandleBusy(c)
      <4>1. conn[c].pc = "call" /\ conn[c].todo.method = "store.compact" BY <3>7 DEF HandleBusy, Calls
      <4>2. conn'[c] = Answered(c, CallError(c, -32001)) BY <3>7 DEF HandleBusy, ServerInv
      <4>3. CallError(c, -32001).kind # "cut" BY <4>1, ErrorWhole
      <4> QED BY <2>2, <3>1, <3>5, <4>1, <4>2, <4>3
    <3>8. CASE HandleThrows(c)
      <4>1. conn[c].pc = "call" BY <3>8 DEF HandleThrows, Calls
      <4>2. conn'[c] = Answered(c, Http(500)) BY <3>8 DEF HandleThrows, ServerInv
      <4>3. Http(500).kind # "cut" BY DEF Http
      <4> QED BY <2>2, <3>1, <3>5, <4>1, <4>2, <4>3
    <3>9. CASE Handle(c) BY <2>2, <3>9, HandleTypes
    <3> QED BY <1>2, <3>2, <3>3, <3>4, <3>6, <3>7, <3>8, <3>9 DEF Server
  <2> QED BY <2>1, <2>2
<1> QED BY <1>1, <1>2 DEF Next

\* Results outside tool texts have the fields and types of their output_schema,
\* whatever is asked and whatever lists are empty, for any set of connections,
\* but for wide counters, scores below the normal numbers and metadata with the
\* key "" alone; a body is cut off only where a score is infinite.
THEOREM ResultsStayTyped == Spec => []StrictTypes
<1>1. Init => TypesInv
  <2> SUFFICES ASSUME Init, NEW c \in Conn PROVE TypedConn(conn[c]) /\ CutConn(conn[c]) BY DEF TypesInv
  <2> QED BY DEF Init, Idle, TypedConn, CutConn
<1>2. TypesInv => StrictTypes
  <2>1. ASSUME TypesInv, NEW c \in Conn, conn[c].pc = "answered", conn[c].answer.kind = "result",
               conn[c].ran # "none"
        PROVE  AsSchema(conn[c].ran, conn[c].tree, conn[c].answer.fields)
    BY <2>1 DEF TypesInv, TypedConn
  <2>2. ASSUME TypesInv, NEW c \in Conn, conn[c].pc = "answered", conn[c].answer.kind = "cut"
        PROVE  \E f \in DOMAIN conn[c].tree : conn[c].tree[f] = "inf"
    BY <2>2 DEF TypesInv, CutConn
  <2> QED BY <2>1, <2>2 DEF StrictTypes, AsSchema, Unconverted
<1> QED BY <1>1, <1>2, TypesStep, ServerInvariant, PTL DEF Spec
=============================================================================
