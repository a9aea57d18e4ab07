-------------------------- MODULE MCRequestHandler --------------------------
(* Constants of the runs of RequestHandler. *)
EXTENDS RequestHandler

Plain == [host |-> "router", path |-> "generic", parses |-> TRUE, model |-> "llm", key |-> "bearer",
          metrics |-> TRUE, stream |-> FALSE, usage |-> {}, priority |-> "none", tools |-> <<>>,
          choice |-> "none", search |-> FALSE, container |-> "none"]

\* Every way into the router, with every kind of host, model, key and body.
Doors == {[Plain EXCEPT !.host = h, !.path = p, !.model = m, !.key = k, !.parses = b] :
            h \in {"router", "model", "empty"}, p \in Paths, m \in {"none", "llm", "websearch"},
            k \in {"none", "bearer", "protocol"}, b \in BOOLEAN}

\* Every combination of what the plan of a JSON body changes besides tools.
Bodies == {[Plain EXCEPT !.path = p, !.stream = s, !.usage = u, !.priority = x, !.key = k] :
            p \in {"chat", "responses", "generic"}, s \in BOOLEAN,
            u \in SUBSET {"include", "continuous"}, x \in {"none", "client"},
            k \in {"none", "bearer"}}

Toolsets == {<<>>, <<"fn">>, <<"fn_ci">>, <<"search">>, <<"ci">>, <<"ci", "ci">>,
             <<"fn", "ci">>, <<"ci", "fn_ci">>, <<"search", "fn">>, <<"search", "ci">>,
             <<"fn", "ci", "fn2">>, <<"fn2", "search", "fn">>}

ResponsesBodies ==
  {[Plain EXCEPT !.path = "responses", !.stream = s, !.priority = "client", !.tools = t,
                 !.choice = c, !.container = x] :
     s \in BOOLEAN, t \in Toolsets, c \in {"none", "null", "string", "ci", "fn"},
     x \in {"none", "auto", "named", "bad"}}

ChatBodies ==
  {[Plain EXCEPT !.path = "chat", !.stream = s, !.usage = u, !.priority = "client", !.tools = t,
                 !.search = w, !.container = x] :
     s \in BOOLEAN, u \in {{}, {"include"}}, t \in {<<>>, <<"fn2", "fn">>, <<"fn_ci">>}, w \in BOOLEAN,
     x \in {"none", "auto", "named", "bad"}}
  \cup {[Plain EXCEPT !.path = "chat", !.stream = s, !.container = "auto", !.model = "websearch"] :
          s \in BOOLEAN}
  \cup {[Plain EXCEPT !.path = "chat", !.stream = s, !.container = "auto", !.key = "none"] :
          s \in BOOLEAN}

\* A container is that of a hosted tool.
RequestsDef == Doors \cup Bodies \cup ChatBodies
  \cup {r \in ResponsesBodies : (r.container # "none") = ("ci" \in Range(r.tools))}

KindSeqs == {<<>>, <<"message">>, <<"user">>, <<"anon">>, <<"tool">>, <<"message", "tool">>,
             <<"tool", "tool">>, <<"tool", "user">>}

RepliesDef ==
  [status : {"ok"}, kinds : KindSeqs, usage : Usages, ending : {"completed"}]
    \cup [status : {"ok"}, kinds : {<<"message">>, <<"tool">>, <<"tool", "user">>}, usage : {3},
          ending : {"incomplete"}]
    \cup [status : {"error", "garbled"}, kinds : {<<>>}, usage : Usages, ending : {"completed"}]

ToolCall(choice, index, name, pieces) ==
  [choice |-> choice, index |-> index, name |-> name, pieces |-> pieces]

CompletionsDef ==
  [status : {"ok"}, usage : Usages,
   calls : {<<>>, <<ToolCall(0, 0, "ci", 2)>>, <<ToolCall(0, 0, "user", 2)>>,
            <<ToolCall(0, 0, "ci", 2), ToolCall(1, 0, "ci", 2)>>,
            <<ToolCall(0, 0, "ci", 2), ToolCall(0, 1, "user", 1), ToolCall(0, 2, "ci", 1)>>,
            <<ToolCall(0, 0, "ci", 1), ToolCall(0, 1, "ci", 1), ToolCall(1, 0, "ci", 1)>>}]
    \cup [status : {"error", "garbled"}, usage : Usages, calls : {<<>>}]
=============================================================================
