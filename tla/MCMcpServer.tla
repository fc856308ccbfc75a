---------------------------- MODULE MCMcpServer ----------------------------
(* A small instance of McpServer for TLC.  Members that the code does not look *)
(* at for a method have one value.                                            *)
EXTENDS McpServer

CONSTANTS c1, c2

Plain == [route |-> "POST/mcp", body |-> "object", jsonrpc |-> "2.0", method |-> "ping",
          id |-> "integer", params |-> "none", tool |-> "none", arguments |-> "none"]

Ids == {"none", "integer", "fraction", "string", "digits", "object"}

HttpRequests == {[Plain EXCEPT !.route = x] : x \in {"GET/health", "GET/mcp/describe", "other"}}
                \cup {[Plain EXCEPT !.body = "garbage"]}

Envelopes == {[Plain EXCEPT !.jsonrpc = j, !.method = m, !.id = i] :
    j \in {"2.0", "other"}, m \in Protocol \cup {"unknown", "none", "other"}, i \in Ids}

MethodCalls == {[Plain EXCEPT !.jsonrpc = j, !.method = m, !.params = p, !.id = i] :
    j \in {"none", "2.0"}, m \in Methods \cup Unknown, p \in Member, i \in {"integer", "digits"}}

ToolCalls == {[Plain EXCEPT !.method = "tools/call", !.tool = t, !.params = p, !.arguments = x] :
    t \in Methods \cup Unknown \cup {"none", "other"}, p \in Member, x \in Member}

\* One connection sends every request, the other those that compete for the
\* compaction.
MCRequests == [c \in Conn |->
    IF c = c1 THEN HttpRequests \cup Envelopes \cup MethodCalls \cup ToolCalls
    ELSE {[Plain EXCEPT !.method = "store.compact"], [Plain EXCEPT !.method = "memory.stats"]}]
=============================================================================
