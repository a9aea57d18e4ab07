----------------------------- MODULE RequestPlan ----------------------------
(***************************************************************************)
(* From the arrival of a request to its dispatch: the HTTP handler of      *)
(* main.go chooses a model, and for the JSON API the typed or the generic  *)
(* plan of openaiapi/plan.go turns the client's body into the one that the *)
(* enclave gets, with the tools of builtins/.  What follows is the reverse *)
(* proxy (ProxyResponse) or a tool runner (ResponsesLoop, ChatTools).      *)
(*                                                                         *)
(* Abstracted: a body is the fields the router reads or changes.  The      *)
(* rate limit's verdict (RequestTracker), the pool of the model            *)
(* (EnclaveRegistry) and its overload (OverloadMetrics) are any.           *)
(***************************************************************************)
EXTENDS UpstreamCall

CONSTANT Requests  \* requests of the clients, see RequestType

Paths == {"/", "status", "models", "realtime", "speech", "audio", "convert",
          "chat", "responses", "generic"}

\* Tools of a body: "ci" and "search" are the hosted ones, "fn" and "fn2" are
\* functions of the client, "fn_ci" is one named code_interpreter.
Functions == {"fn", "fn2"}
ToolKinds == {"ci", "search", "fn_ci"} \cup Functions

RequestType ==
  [host     : {"router", "model", "empty"}, \* X-Forwarded-Host, without and with a subdomain
   path     : Paths,
   parses   : BOOLEAN,                      \* the body, as far as the path reads it
   model    : {"none", "llm", "websearch"}, \* the model it names
   key      : {"none", "bearer", "protocol"},
   metrics  : BOOLEAN,                      \* asks for a usage header
   stream   : BOOLEAN,
   usage    : SUBSET {"include", "continuous"}, \* stream_options
   priority : {"none", "client", "router"},
   tools    : Seq(ToolKinds),
   choice   : {"none", "null", "string", "ci", "fn"}, \* tool_choice; objects by their target
   search   : BOOLEAN,                      \* web_search_options
   container : {"none", "auto", "named", "bad"}] \* code_interpreter_options, or those of "ci"

ASSUME RequestsAssumption == Requests \subseteq RequestType

VARIABLES
  request,  \* what the client has sent; Dropped when a runner has taken over
  body,     \* the body as the plan has it, in the same terms
  target,   \* the model that is called
  bearer,   \* the Authorization header carries a key
  wantsUsage \* X-Tinfoil-Client-Requested-Usage

planVars == <<request, body, target, bearer, wantsUsage>>

Dropped == [host |-> "router", path |-> "/", parses |-> TRUE, model |-> "none", key |-> "none",
            metrics |-> FALSE, stream |-> FALSE, usage |-> {}, priority |-> "none",
            tools |-> <<>>, choice |-> "none", search |-> FALSE, container |-> "none"]

PlanInit ==
  /\ request \in Requests /\ body = request
  /\ target = "none" /\ wantsUsage = FALSE
  /\ bearer = (request.key = "bearer")

----------------------------------------------------------------------------
(* The handler of main.go *)

Answer(code, type) ==
  /\ Write(code, Written(type, <<>>, 0))
  /\ step' = "done"
  /\ UNCHANGED <<call, shown, billed, planVars>>

RefuseRequest(code) ==
  /\ ApiError(code)
  /\ step' = "done"
  /\ UNCHANGED <<call, shown, billed, planVars>>

Direct(model) ==
  /\ target' = model
  /\ step' = "dispatch"
  /\ UNCHANGED <<call, clientVars, shown, billed, request, body, wantsUsage>>

\* applyRealtimeWebSocketAuth: a browser can send its key in the subprotocol
\* only, from where it is moved to the Authorization header.
RealtimeKey == request.key # "none"

\* isWebSocketUpgrade: the body is not read.
RouteRealtime ==
  /\ step = "arrive" /\ request.path = "realtime" /\ request.host # "empty"
  /\ IF request.host = "router" /\ request.model = "none"
     THEN RefuseRequest(400)
     ELSE /\ Direct(IF request.host = "model" THEN "llm" ELSE request.model)
          /\ bearer' = RealtimeKey

\* parseModelFromSubdomain: the body is not read.
RouteSubdomain ==
  /\ step = "arrive" /\ request.path # "realtime" /\ request.host = "model"
  /\ Direct("llm") /\ UNCHANGED bearer

RefuseHost ==
  /\ step = "arrive" /\ request.host = "empty"
  /\ RefuseRequest(400)

Router(paths) == step = "arrive" /\ request.host = "router" /\ request.path \in paths

\* Redirect, status and metrics; /v1/models asks the control plane.
AnswerPage ==
  \/ Router({"/"}) /\ Answer(307, "page")
  \/ Router({"status", "models"}) /\ Answer(200, "page")
  \/ Router({"models"}) /\ \E code \in {500, 502} : RefuseRequest(code)

\* extractModelFromMultipart: a form that does not parse has no model.  The
\* model of a conversion is fixed.
AudioModel == IF request.path = "convert" \/ ~request.parses \/ request.model = "none"
              THEN "default" ELSE request.model

RouteAudio ==
  /\ Router({"speech", "audio", "convert"})
  /\ IF request.path = "speech" /\ ~request.parses
     THEN RefuseRequest(400)
     ELSE /\ Direct(AudioModel)
          /\ UNCHANGED bearer

JsonAPI == Router({"chat", "responses", "generic"})

\* PlanRequest: ParseRequest and parseGenericRequest
ParseFails ==
  /\ JsonAPI /\ (~request.parses \/ request.model = "none")
  /\ RefuseRequest(400)

ParseBody ==
  /\ JsonAPI /\ request.parses /\ request.model # "none"
  /\ step' = "plan"
  /\ UNCHANGED <<call, clientVars, shown, billed, planVars>>

----------------------------------------------------------------------------
(* The plans, one after the other: priority, usage statistics, tools *)

\* Mutant of SetPriority: the client's priority stays unless the key is over
\* its limit.
SetPriorityIfDemoted(demoted) ==
  /\ step = "plan"
  /\ demoted => bearer
  /\ body' = [body EXCEPT !.priority = IF demoted THEN "router" ELSE @]
  /\ step' = "options"
  /\ UNCHANGED <<call, clientVars, shown, billed, request, target, bearer, wantsUsage>>

\* shouldDemotePriority: the limit is that of the model the client names.
SetPriority(demoted) ==
  /\ step = "plan"
  /\ demoted => bearer
  /\ body' = [body EXCEPT !.priority = IF demoted THEN "router" ELSE "none"]
  /\ step' = "options"
  /\ UNCHANGED <<call, clientVars, shown, billed, request, target, bearer, wantsUsage>>

\* EnableContinuousUsageStats, and its like in serveGeneric
SetUsageOptions ==
  /\ step = "options"
  /\ IF body.stream
     THEN /\ wantsUsage' = (wantsUsage \/ body.usage # {})
          /\ body' = [body EXCEPT !.usage = @ \cup {"continuous"}]
     ELSE UNCHANGED <<wantsUsage, body>>
  /\ step' = "prepare"
  /\ UNCHANGED <<call, clientVars, shown, billed, request, target, bearer>>

\* Where the tools of some kinds are, and these in their order.
Places(tools, kinds) == {i \in DOMAIN tools : tools[i] \in kinds}
PlacesTo(tools, kinds, i) == {j \in Places(tools, kinds) : j <= i}
Only(tools, kinds) ==
  [n \in 1..Cardinality(Places(tools, kinds)) |->
     tools[CHOOSE i \in Places(tools, kinds) : Cardinality(PlacesTo(tools, kinds, i)) = n]]

Has(tool) == tool \in Range(body.tools)
Without(tool) == Only(body.tools, ToolKinds \ {tool})

\* What a tool makes of the body: it may refuse it, leave it to others, or
\* change it.  [verdict, body]
Left == [verdict |-> "left", body |-> body]
Refused == [verdict |-> "refused", body |-> body]
Changed(new) == [verdict |-> "changed", body |-> new]

\* websearch.Tool.Prepare; a chat body is passed on as it is.
SearchPrepare ==
  CASE body.path = "chat" /\ body.search -> Changed(body)
    [] body.path = "responses" /\ Has("search") ->
         Changed([body EXCEPT !.tools = Without("search")])
    [] OTHER -> Left

\* parseContainerConfig: a type, a file list, a network or a limit that is not
\* supported, or no configuration at all.
ContainerRefused == body.container = "bad"

\* codeinterpreter.Tool.prepareChat: its options become a function of the body.
InterpreterPrepareChat ==
  CASE body.container = "none" -> Left
    [] ContainerRefused \/ (body.container # "none" /\ Has("fn_ci")) -> Refused
    [] OTHER -> Changed([body EXCEPT !.container = "none", !.tools = Append(@, "fn_ci")])

\* normalizeResponsesToolChoice: a choice of the tool is "auto" when it is the
\* only one, so is a choice of another tool, and anything else is refused.
ChoiceRefused ==
  LET others == \E t \in Range(body.tools) : t # "ci" IN
  \/ body.choice = "ci" /\ others
  \/ body.choice = "fn" /\ ~others

NewChoice == CASE body.choice \in {"none", "null"} -> "none"
               [] OTHER -> "string"

\* codeinterpreter.Tool.prepareResponses: the hosted tool becomes a function.
InterpreterPrepareResponses ==
  LET refused == \/ Has("fn_ci") \/ ContainerRefused \/ ChoiceRefused
                 \/ \E i, j \in Places(body.tools, {"ci"}) : i # j
  IN CASE ~Has("ci") -> Left
       [] Has("ci") /\ refused -> Refused
       [] OTHER -> Changed([body EXCEPT !.tools = Append(Without("ci"), "fn_ci"),
                                        !.choice = NewChoice, !.container = "none"])

InterpreterPrepare ==
  CASE body.path = "chat" -> InterpreterPrepareChat
    [] body.path = "responses" -> InterpreterPrepareResponses
    [] OTHER -> Left

\* Runner.Prepare: at most one tool may want the request.
PrepareFails ==
  /\ step = "prepare"
  /\ \/ InterpreterPrepare.verdict = "refused"
     \/ InterpreterPrepare.verdict = "changed" /\ SearchPrepare.verdict = "changed"
  /\ RefuseRequest(400)

Prepare ==
  LET search == SearchPrepare.verdict = "changed"
      run    == InterpreterPrepare.verdict = "changed"
  IN
  /\ step = "prepare" /\ InterpreterPrepare.verdict # "refused" /\ ~(search /\ run)
  /\ body' = IF search THEN SearchPrepare.body ELSE InterpreterPrepare.body
  /\ target' = IF search THEN "websearch" ELSE body.model
  /\ step' = IF run THEN "invoke" ELSE "dispatch"
  /\ UNCHANGED <<call, clientVars, shown, billed, request, bearer, wantsUsage>>

----------------------------------------------------------------------------
(* Dispatch *)

\* serveProxyModel, and the tail of the handler for requests without a plan:
\* 404 for an unknown model, 503 for one without an enclave, 429 when the
\* enclave is overloaded.
DispatchFails ==
  /\ step = "dispatch"
  /\ \E code \in {404, 503, 429} : RefuseRequest(code)

\* Enclave.ServeHTTP takes over, with the body as it is now.
ServeProxy ==
  /\ step = "dispatch"
  /\ step' = "proxied"
  /\ UNCHANGED <<call, clientVars, shown, billed, planVars>>

\* NewUpstreamInvoker tells an unknown model and an empty pool apart, its
\* caller does not.
InvokerFails ==
  /\ step = "invoke"
  /\ \E code \in {404, 429} : RefuseRequest(code)

\* HandleJSON and HandleStream: the runners read no more of the request than this.
StartRunner ==
  /\ step = "invoke"
  /\ call' = [kind |-> request.path, stream |-> body.stream, metrics |-> request.metrics,
              wants |-> request.path = "chat" /\ wantsUsage, key |-> bearer, model |-> target]
  /\ step' = IF request.path = "chat" THEN "chat" ELSE "send"
  /\ request' = Dropped /\ body' = Dropped
  /\ target' = "none" /\ bearer' = FALSE /\ wantsUsage' = FALSE
  /\ UNCHANGED <<clientVars, shown, billed>>

PlanNext ==
  \/ RouteRealtime \/ RouteSubdomain \/ RefuseHost \/ AnswerPage \/ RouteAudio
  \/ ParseFails \/ ParseBody
  \/ \E demoted \in BOOLEAN : SetPriority(demoted)
  \/ SetUsageOptions \/ PrepareFails \/ Prepare
  \/ DispatchFails \/ ServeProxy \/ InvokerFails \/ StartRunner

----------------------------------------------------------------------------
(* Properties *)

PlanTypeOK ==
  /\ request \in RequestType /\ body \in RequestType
  /\ target \in {"none", "llm", "websearch", "default"}
  /\ bearer \in BOOLEAN /\ wantsUsage \in BOOLEAN

\* The body of a JSON API request is about to be sent.
Planned == step \in {"invoke", "dispatch"} /\ request.host = "router"
             /\ request.path \in {"chat", "responses", "generic"}

SearchAsked == IF request.path = "chat" THEN request.search ELSE "search" \in Range(request.tools)

\* What an enclave gets is the client's request, but for what the router is to
\* decide.  It never gets a priority that the client has chosen, and streams
\* report usage all along for the billing, which the client sees if, and only
\* if, it has asked for some.  The client's own functions reach the model in
\* their order, and no hosted tool with them to /responses; a function named
\* code_interpreter that the runner will execute is the router's, there once;
\* only a web search goes to another model than the one asked for.
BodyIsRewritten ==
  Planned =>
    /\ body.priority # "client"
    /\ body.stream => "continuous" \in body.usage /\ (wantsUsage <=> request.usage # {})
    /\ body.usage \subseteq request.usage \cup {"continuous"}
    /\ Only(body.tools, Functions) = Only(request.tools, Functions)
    /\ step = "invoke" => /\ \E i \in DOMAIN body.tools : Places(body.tools, {"fn_ci"}) = {i}
                          /\ body.container = "none" /\ target = request.model
                          /\ request.path = "responses" => /\ body.choice \in {"none", "string"}
                                                           /\ ~Has("ci") /\ ~Has("search")
    /\ step = "dispatch" /\ request.path # "generic" =>
         /\ request.path = "chat" => body.container = "none"
         /\ request.path = "responses" => ~Has("ci") /\ ~Has("search")
         /\ target = IF SearchAsked THEN "websearch" ELSE request.model
=============================================================================
