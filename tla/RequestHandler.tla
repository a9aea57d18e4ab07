--------------------------- MODULE RequestHandler ---------------------------
(***************************************************************************)
(* The life of one request in the router: its plan (RequestPlan), the      *)
(* runner of the code interpreter for its endpoint (ResponsesLoop or       *)
(* ChatTools), and the error that serveTyped writes when a runner fails.   *)
(* They share the handler's position and what the client gets              *)
(* (UpstreamCall).  The container that executes code is SandboxSession's:  *)
(* here an execution succeeds or fails.                                    *)
(***************************************************************************)
EXTENDS RequestPlan, ResponsesLoop, ChatTools

vars == <<sharedVars, planVars, responsesVars, chatVars>>

TypeOK ==
  /\ step \in {"arrive", "plan", "options", "prepare", "dispatch", "invoke", "proxied",
               "send", "await", "process", "stream", "finish", "panicked",
               "chat", "chat_patch", "chat_stream", "chat_execute", "failed", "done"}
  /\ call \in Calls /\ status \in {0, 200, 307, 400, 404, 429, 500, 502, 503}
  /\ \A k \in DOMAIN out : out[k].usage \in Nat /\ out[k].n \in 0..Len(out)
  /\ shown \in Nat \cup {NotShown} /\ billed \in [events : Nat, tokens : Nat]
  /\ PlanTypeOK /\ ResponsesTypeOK /\ ChatTypeOK

Init == SharedInit /\ PlanInit /\ ResponsesInit /\ ChatInit

Plan      == PlanNext /\ UNCHANGED <<responsesVars, chatVars>>
Responses == ResponsesNext /\ UNCHANGED <<planVars, chatVars>>
Chat      == ChatNext /\ UNCHANGED <<planVars, responsesVars>>
Report    == ReportError /\ UNCHANGED <<planVars, responsesVars, chatVars>>

\* The handler has returned, or the reverse proxy has the request.
HandlerEnded == Ended /\ UNCHANGED vars

Next == Plan \/ Responses \/ Chat \/ Report \/ HandlerEnded

\* A step of the handler is its own, or the answer to a call it waits for.
\* Every call comes to an end: the model and the container answer or fail, or
\* the client leaves and takes the call's context with it.  The attestation of
\* a sandbox, which has no such context, is taken to end (see SandboxSession).
Spec == Init /\ [][Next]_vars /\ WF_vars(Plan \/ Responses \/ Chat \/ Report)

Final(written) == written.type \in {"answer", "completed"}

\* The tokens in the answer, in its usage header and in the billing events are
\* the same, over however many calls of the model, and a chat answer is billed
\* once, with the last report of its stream.  No code runs for an answer that
\* has not been billed.
UsageAddsUp ==
  call.key =>
    /\ call.kind = "chat" => billed.events <= 1
    /\ chatRan # <<>> \/ executed # <<>> \/ Succeeded => billed.events >= 1
    /\ call.model # "websearch" =>
         /\ \A k \in DOMAIN out : Final(out[k]) => out[k].usage = billed.tokens
         /\ shown # NotShown => shown = billed.tokens
         /\ call.kind = "chat" /\ billed.events = 1 => billed.tokens = latest

\* What the client sees of the handler's position.
Phase == CASE step = "done"     -> "finished"
           [] step = "proxied"  -> "handed"
           [] step = "panicked" -> "dropped"
           [] OTHER             -> IF status = 0 THEN "waiting" ELSE "streaming"

Exchange == INSTANCE ClientExchange WITH phase <- Phase, code <- status

\* Over however many calls of the model and of the tool, the client gets one
\* exchange: a status line that is final, the rest of a stream or an error, and
\* an end; what has been answered in part is neither answered again with
\* another status nor handed to the reverse proxy.
ImplementsExchange == Exchange!Spec

----------------------------------------------------------------------------
(* The invariant of the proofs *)

PlanSteps == {"arrive", "plan", "options", "prepare", "dispatch", "invoke", "proxied"}
LoopSteps == {"send", "await", "process", "stream", "finish", "panicked"}
ChatSteps == {"chat", "chat_patch", "chat_stream", "chat_execute"}

\* One part of the router has the request; the variables of the others are as
\* they were in the beginning.
Ownership ==
  /\ step \in PlanSteps \cup LoopSteps \cup ChatSteps \cup {"failed", "done"}
  /\ call \in Calls
  /\ step \in PlanSteps => call = NoCall /\ status = 0 /\ out = <<>>
  /\ step \in LoopSteps => call.kind = "responses"
  /\ step \in ChatSteps => call.kind = "chat"
  /\ step = "failed" => call.kind # "none"
  /\ step \in {"stream", "finish", "panicked", "chat_stream", "chat_execute"} => call.stream
  /\ step = "chat_patch" => ~call.stream
  /\ call.kind = "none" => call = NoCall /\ billed = [events |-> 0, tokens |-> 0] /\ shown = NotShown
  /\ call.kind # "responses" => ResponsesInit
  /\ call.kind # "chat" => ChatInit
  /\ queue # <<>> => step \in {"stream", "send", "finish"} /\ call.stream

\* What the plan hands to a runner.
PlanReady ==
  /\ request \in RequestType
  /\ DOMAIN body = DOMAIN Dropped
  /\ body.path = request.path /\ body.model = request.model /\ body.stream = request.stream
  /\ target \in {"none", "llm", "websearch", "default"}
  /\ bearer \in BOOLEAN /\ wantsUsage \in BOOLEAN
  /\ step \in {"plan", "options", "prepare"} =>
       request.path \in {"chat", "responses", "generic"} /\ request.model # "none"
  /\ step = "invoke" => request.path \in {"chat", "responses"} /\ target \in {"llm", "websearch"}

\* Where the model's stream of a hop is.
StreamPlace ==
  step = "stream" =>
    /\ at \in 1..Len(reply.items) + 2
    /\ part \in 1..(IF InItems THEN Len(ItemEvents(reply.items[at])) ELSE 1)
    /\ known # {} => hadTool
    /\ hadTool => reply.items # <<>>
    /\ completed => ~MoreEvents

\* The client has got, or is about to get, the beginning of a stream.
Begun == status # 0 \/ queue # <<>>

\* A handler that is still at work has answered nothing or begun a stream; it has
\* begun one once an event of an item has been read or an item put out.
Beginning ==
  /\ status \in {0, 200, 307, 400, 404, 429, 500, 502, 503}
  /\ step # "done" => status \in {0, 200}
  /\ step = "done" => status # 0
  /\ step \in {"finish", "panicked"} => Begun
  /\ step \in LoopSteps /\ call.stream /\ public # <<>> => Begun
  /\ step = "process" /\ call.stream /\ reply.items # <<>> => status # 0
  /\ step = "stream" /\ (part = 4 \/ (at > 1 /\ reply.items # <<>>)) => Begun
  /\ step = "stream" /\ ~MoreEvents /\ public = <<>> /\ ~hadTool => Begun

\* Nothing has been counted while nothing has been put out.
NothingCounted ==
  /\ step \in {"send", "await"} /\ public = <<>> => total = 0
  /\ step = "process" /\ public = <<>> => total = 0 \/ (at = 1 /\ reply.items # <<>>)
  /\ step = "stream" /\ public = <<>> /\ (MoreEvents \/ ~completed) => total = 0

\* What the answer reports, and what the client is shown, is what has been used;
\* after a final answer nothing more is.
Used == IF call.kind = "chat" THEN latest ELSE total
FinalIsTotal ==
  /\ \A k \in DOMAIN out : Final(out[k]) => out[k].usage = Used
  /\ \A k \in DOMAIN queue : Final(queue[k]) => queue[k].usage = total
  /\ (\E k \in DOMAIN out : Final(out[k])) \/ (\E k \in DOMAIN queue : Final(queue[k])) =>
       \/ step \in {"finish", "failed", "done"}
       \/ step = "stream" /\ ~MoreEvents /\ ~hadTool /\ public = <<>>
  /\ shown # NotShown => step = "done" /\ shown = Used
  /\ call.kind = "chat" /\ call.stream => finalUsage = latest
  /\ step = "chat_patch" => completion.usage = latest

\* What has been used is billed, and nothing is executed or answered before.
UsedIsBilled ==
  call.key =>
    /\ call.kind = "chat" =>
         /\ billed.events <= 1 /\ \A k \in DOMAIN out : out[k].type # "completed"
         /\ step \in {"chat", "chat_stream"} => billed.events = 0
         /\ step \in {"chat_patch", "chat_execute"} \/ shown # NotShown => billed.events = 1
    /\ executed # <<>> \/ chatRan # <<>> \/ (step = "process" /\ (reply.items # <<>> \/ ~call.stream))
         \/ (step = "stream" /\ completed) => billed.events >= 1
    /\ \A k \in DOMAIN out : out[k].type \in {"answer", "done"} => billed.events >= 1
    /\ call.model # "websearch" =>
         /\ call.kind = "responses" => billed.tokens = total
         /\ call.kind = "chat" => billed.tokens = IF billed.events = 1 THEN latest ELSE 0

\* An event for the client, not written yet.
EventType ==
  [type  : {"other", "call_added", "code_delta", "code_done", "in_progress", "interpreting",
            "call_completed", "call_done", "completed", "incomplete"},
   items : Seq(ItemType), usage : Nat, n : {0}]

Queued == out \in Seq(Range(out)) /\ queue \in Seq(EventType)

\* A chat answer begins from nothing; what arrives is a piece of one of its calls.
Arriving ==
  /\ step = "chat" => ChatInit
  /\ DOMAIN arrived \subseteq DOMAIN completion.calls

IInv ==
  /\ billed \in [events : Nat, tokens : Nat]
  /\ ResponsesTypeOK /\ ChatTypeOK
  /\ Ownership /\ PlanReady /\ StreamPlace /\ Beginning /\ NothingCounted
  /\ FinalIsTotal /\ UsedIsBilled /\ Queued /\ Arriving

\* The items of a hop are told apart by their place in it, and those that have
\* been executed in it are the calls of the tool before the next item.
HopItems ==
  /\ step \in {"process", "stream"} =>
       \A i \in DOMAIN reply.items :
         reply.items[i].hop = hop /\ reply.items[i].at = i /\ reply.items[i].kind \in ItemKinds
  /\ step = "process" =>
       /\ IsInjective(fresh)
       /\ \A j \in DOMAIN fresh :
            IsTool(fresh[j]) /\ \E i \in DOMAIN reply.items : i < at /\ fresh[j] = reply.items[i]
       /\ \A i \in DOMAIN reply.items : i < at /\ IsTool(reply.items[i]) =>
            \E j \in DOMAIN fresh : fresh[j] = reply.items[i]

\* The strengthening of ReplayAnswered: between two hops too, and nothing of a
\* hop is in the input before its end.
ReplayGrows ==
  /\ HopItems
  /\ step \in {"send", "await", "process", "stream"} =>
       /\ Answerable(input)
       /\ \A i \in DOMAIN input : input[i].hop <= hop /\ (step # "send" => input[i].hop < hop)

\* The strengthening of ExecutedIsReported: what has run is what the output so
\* far reports, and a hop that has called no tool adds no call to it.
RunIsPublic ==
  call.kind = "responses" =>
    /\ Reports(public, executed)
    /\ \A k \in DOMAIN out : Final(out[k]) => Reports(out[k].items, executed)
    /\ \A k \in DOMAIN queue : Final(queue[k]) => Reports(queue[k].items, executed)
    /\ step = "stream" /\ ~hadTool =>
         \A i \in DOMAIN reply.items : i < at \/ (i = at /\ part > 1) => ~IsTool(reply.items[i])

\* The strengthening of CallsRunOnce: a builder is what has arrived of its call,
\* what has run is a call of the tool, and an answer comes after all of them.
AllHaveRun ==
  \A c \in DOMAIN completion.calls : IsInterpreter(c) /\ Made(c) > 0 => Runs(c) # {}
Built ==
  /\ DOMAIN arrived = DOMAIN completion.calls
  /\ DOMAIN builders = {BuilderKey(c) : c \in {d \in DOMAIN arrived : arrived[d] > 0}}
  /\ \A c \in DOMAIN arrived : arrived[c] > 0 =>
       builders[BuilderKey(c)] = [id |-> c, name |-> completion.calls[c].name, args |-> ChatArgs(c, arrived[c])]
  /\ step \in {"chat", "chat_stream"} => chatRan = <<>>
  /\ \A c \in DOMAIN completion.calls :
       IF Runs(c) = {} THEN Patches(c) = {} ELSE \E k \in DOMAIN out : Patches(c) = {k}
RunsOwn ==
  call.kind = "chat" =>
    /\ step = "chat" => out = <<>>
    /\ \A k \in DOMAIN chatRan :
         /\ chatRan[k].id \in DOMAIN completion.calls /\ IsInterpreter(chatRan[k].id)
         /\ chatRan[k].args = ChatArgs(chatRan[k].id, Made(chatRan[k].id))
    /\ \A j, k \in DOMAIN chatRan : chatRan[j].id = chatRan[k].id => j = k
    /\ (\E k \in DOMAIN out : out[k].type \in {"answer", "done"}) => step = "done" /\ AllHaveRun
    /\ IF call.stream THEN Built
       ELSE /\ \A k \in DOMAIN chatRan : chatRan[k].id < cursor
            /\ step = "chat_patch" =>
                 \A c \in DOMAIN completion.calls : c < cursor /\ IsInterpreter(c) => Runs(c) # {}

\* The strengthening of StreamWellFormed: it is about what is written and what is
\* about to be.  Of the hop's calls as much has been told as the model has sent.
Said == out \o queue
Told(item, e) == \E k \in DOMAIN Said : Tells(Said[k], e, item)
Sent(i) == IF i < at \/ (i = at /\ part = 4) THEN 3 ELSE IF i = at /\ part > 1 THEN 1 ELSE 0
HopTold ==
  /\ \A k \in DOMAIN Said, e \in DOMAIN CallEvents : Said[k].type = CallEvents[e] =>
       LET item == Said[k].items[1] IN
       /\ item \in ItemType /\ item.hop <= hop /\ (step = "await" => item.hop < hop)
       /\ step = "process" /\ item.hop = hop => e <= 3
       /\ step = "stream" /\ item.hop = hop =>
            item.at \in DOMAIN reply.items /\ item = reply.items[item.at] /\ e <= Sent(item.at)
  /\ step \in {"process", "stream"} =>
       \A i \in DOMAIN reply.items : reply.items[i].kind = "tool" =>
         \A e \in 1..(IF step = "stream" THEN Sent(i) ELSE 3) : Told(reply.items[i], e)
  /\ step = "stream" =>
       known = {reply.items[i] : i \in {j \in DOMAIN reply.items : reply.items[j].kind = "tool" /\ Sent(j) > 0}}
FinalTold == Finals # {} =>
  \A i \in DOMAIN executed : \E k \in DOMAIN out : Tells(out[k], Len(CallEvents), executed[i])
FinalLast == \A k \in Finals : \A j \in k + 1..Len(out) : out[j].type = "error"
StreamGrows ==
  (call.kind = "responses" /\ call.stream) =>
    /\ Numbered /\ InOrder(out) /\ FinalTold /\ FinalLast
    /\ step \in LoopSteps =>
         /\ sequence = Len(out) + 1 /\ InOrder(Said) /\ HopTold
         /\ \A i \in DOMAIN executed :
              Told(executed[i], 7) \/ (step = "process" /\ executed[i] \in Range(fresh))
         /\ Finals # {} => queue = <<>>
         /\ \A k \in DOMAIN queue : Final(queue[k]) => k = Len(queue)

\* And for response.incomplete.  A call of the tool that the model has sent whole
\* is in the stream, so that one is passed on only if the stream tells why; it is
\* the last event of its hop, whose output is then empty.
InStream(item) ==
  \/ \E k \in DOMAIN out : out[k].items = <<item>>
  \/ \E m \in DOMAIN queue : queue[m].items = <<item>>
HopShown ==
  /\ hadTool => \E i \in DOMAIN reply.items : i <= at /\ IsTool(reply.items[i])
  /\ \A i \in DOMAIN reply.items : IsTool(reply.items[i]) /\ Sent(i) = 3 => InStream(reply.items[i])
IncompleteWritten(k) ==
  /\ out[k].items # <<>> /\ HopOf(out[k]) \in 0..hop
  /\ \/ ToolBefore(out, k)
     \/ step \in {"finish", "panicked"}
     \/ step = "stream" /\ HopOf(out[k]) = hop /\ ~hadTool
  /\ step = "await" => HopOf(out[k]) < hop
  /\ step = "stream" /\ HopOf(out[k]) = hop => ~MoreEvents /\ ~completed
  /\ step = "process" /\ HopOf(out[k]) = hop => reply.items = <<>>
  /\ \A m \in DOMAIN queue : MayFollow(queue[m], k) /\ ToolBefore(out, k)
IncompleteQueued(m) ==
  /\ Len(queue) = 1 /\ queue[m].items = <<Item(hop, 0, "none")>>
  /\ step = "stream" /\ ~MoreEvents /\ ~completed
Stops == {k \in DOMAIN out : Incomplete(out[k]) /\ ~PassedOn(k)}
StopTold == Stops # {} =>
  \A i \in DOMAIN executed : \E k \in DOMAIN out : Tells(out[k], Len(CallEvents), executed[i])
StopLast == \A k \in Stops : \A j \in k + 1..Len(out) : out[j].type = "error"
EndsGrow ==
  (call.kind = "responses" /\ call.stream) =>
    /\ StopTold /\ StopLast /\ LaterHopsAfter
    /\ step \in LoopSteps =>
         /\ step = "stream" => HopShown
         /\ \A k \in DOMAIN out : Incomplete(out[k]) => IncompleteWritten(k)
         /\ \A m \in DOMAIN queue : Incomplete(queue[m]) => IncompleteQueued(m)

\* The strengthening of BodyIsRewritten: what each of the three plans has changed
\* of the body, one after the other.
UsageAsked ==
  /\ body.stream => "continuous" \in body.usage /\ (wantsUsage <=> request.usage # {})
  /\ body.usage \subseteq request.usage \cup {"continuous"}
BodyGrows ==
  /\ PlanTypeOK
  /\ step \in {"arrive", "plan", "options"} => ~wantsUsage
  /\ step \in {"arrive", "plan"} => body = request
  /\ step \in {"options", "prepare"} => body.priority \in {"none", "router"}
  /\ step = "options" => body = [request EXCEPT !.priority = body.priority]
  /\ step = "prepare" =>
       body = [request EXCEPT !.priority = body.priority, !.usage = body.usage] /\ UsageAsked
  /\ BodyIsRewritten

=============================================================================
