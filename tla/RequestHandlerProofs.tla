------------------------ MODULE RequestHandlerProofs ------------------------
(***************************************************************************)
(* Proofs about RequestHandler, for every set of requests, answers of the  *)
(* model and usage reports, and for any number of hops: what the client is *)
(* told it has used is what it is billed for, the handler's steps are      *)
(* steps of the one exchange the client is promised, and what an enclave   *)
(* gets is the client's body with the decisions of the router in it.       *)
(***************************************************************************)
EXTENDS RequestHandler, SequenceTheorems, FiniteSetTheorems, TLAPS

----------------------------------------------------------------------------
(* What is written, billed and queued *)

\* One more thing at the end of a sequence of anything.
LEMMA AppendAny ==
  ASSUME NEW s, s \in Seq(Range(s)), NEW e
  PROVE  /\ Append(s, e) \in Seq(Range(Append(s, e)))
         /\ Len(s) \in Nat /\ Len(Append(s, e)) = Len(s) + 1
         /\ \A k \in DOMAIN s : k \in DOMAIN Append(s, e) /\ Append(s, e)[k] = s[k]
         /\ \A k \in DOMAIN Append(s, e) :
              (k \in DOMAIN s /\ Append(s, e)[k] = s[k]) \/ Append(s, e)[k] = e
         /\ \E k \in DOMAIN Append(s, e) : Append(s, e)[k] = e
<1> DEFINE S == Range(s) \cup {e}
           t == Append(s, e)
<1>1. s \in Seq(S) /\ e \in S
  BY SeqMonotonic
<1>2. t \in Seq(S) /\ Len(t) = Len(s) + 1 /\ Len(s) \in Nat
      /\ DOMAIN s = 1..Len(s) /\ DOMAIN t = 1..Len(s) + 1
  BY <1>1
<1>3. \A k \in 1..Len(s) : t[k] = s[k]
  BY <1>1
<1>4. t[Len(s) + 1] = e
  BY <1>1
<1>5. t \in Seq(Range(t))
  BY <1>2, SeqOfRange
<1> HIDE DEF t
<1>6. QED
  BY <1>2, <1>3, <1>4, <1>5 DEF t

LEMMA RecordBills ==
  ASSUME NEW tokens \in Nat, billed \in [events : Nat, tokens : Nat], call \in Calls,
         RecordUsage(tokens)
  PROVE  /\ billed' \in [events : Nat, tokens : Nat]
         /\ call.key => /\ billed'.events = billed.events + 1
                        /\ call.model # "websearch" =>
                             billed'.tokens = billed.tokens + tokens
BY DEF RecordUsage, Calls

----------------------------------------------------------------------------
(* The plan *)

Statuses == {200, 307, 400, 404, 429, 500, 502, 503}

\* What the steps of the plan do to the rest of the handler: they go on, answer
\* the client, or start a runner.
PlanGoesOn == step' \in PlanSteps /\ UNCHANGED <<call, clientVars>>
PlanAnswers ==
  /\ step' = "done" /\ UNCHANGED call
  /\ \E code \in Statuses, type \in {"page", "error"} : Write(code, Written(type, <<>>, 0))
RunnerStarts ==
  /\ UNCHANGED clientVars
  /\ call' \in Calls
  /\ \/ step' = "chat" /\ call'.kind = "chat"
     \/ step' = "send" /\ call'.kind = "responses"

LEMMA RequestFields ==
  ASSUME request \in RequestType
  PROVE  /\ request.path \in Paths /\ request.model \in {"none", "llm", "websearch"}
         /\ request.stream \in BOOLEAN /\ request.metrics \in BOOLEAN
BY DEF RequestType

\* A tool changes no field of the body that the handler or the runner reads.
SameBody(new) ==
  DOMAIN new = DOMAIN body /\ new.path = body.path /\ new.model = body.model
    /\ new.stream = body.stream

LEMMA ToolsKeepBody ==
  ASSUME DOMAIN body = DOMAIN Dropped
  PROVE  /\ SameBody(SearchPrepare.body) /\ SameBody(InterpreterPrepare.body)
         /\ InterpreterPrepare.verdict = "changed" => body.path \in {"chat", "responses"}
<1>1. SameBody(SearchPrepare.body)
  BY DEF SearchPrepare, SameBody, Changed, Left, Dropped
<1>2. SameBody(InterpreterPrepareChat.body)
  BY DEF InterpreterPrepareChat, SameBody, Changed, Left, Refused, Dropped
<1>3. SameBody(InterpreterPrepareResponses.body)
  BY DEF InterpreterPrepareResponses, SameBody, Changed, Left, Refused, Dropped
<1>4. QED
  BY <1>1, <1>2, <1>3 DEF InterpreterPrepare, SameBody, Left

LEMMA PlanEffect ==
  ASSUME Ownership, PlanReady, PlanNext
  PROVE  /\ step \in PlanSteps
         /\ UNCHANGED <<shown, billed>>
         /\ PlanGoesOn \/ PlanAnswers \/ RunnerStarts
         /\ PlanReady'
<1> USE DEF PlanSteps, PlanGoesOn, PlanAnswers, RunnerStarts, Statuses, Answer,
            RefuseRequest, ApiError, clientVars, planVars, Router, JsonAPI
<1>0. PlanReady
  OBVIOUS
<1>1. CASE RouteRealtime
  <2>1. CASE request.host = "router" /\ request.model = "none"
    BY <1>0, <1>1, <2>1 DEF RouteRealtime, PlanReady
  <2>2. CASE ~ (request.host = "router" /\ request.model = "none")
    <3>1. target' \in {"none", "llm", "websearch"}
      BY <1>0, <1>1, <2>2, RequestFields DEF RouteRealtime, Direct, PlanReady
    <3>2. bearer' \in BOOLEAN
      BY <1>1, <2>2 DEF RouteRealtime, RealtimeKey
    <3>3. QED
      BY <1>0, <1>1, <2>2, <3>1, <3>2 DEF RouteRealtime, Direct, PlanReady
  <2>3. QED
    BY <2>1, <2>2
<1>2. CASE RouteSubdomain
  BY <1>0, <1>2 DEF RouteSubdomain, Direct, PlanReady
<1>3. CASE RefuseHost
  BY <1>0, <1>3 DEF RefuseHost, PlanReady
<1>4. CASE AnswerPage
  BY <1>0, <1>4 DEF AnswerPage, PlanReady
<1>5. CASE RouteAudio
  BY <1>0, <1>5, RequestFields DEF RouteAudio, AudioModel, Direct, PlanReady
<1>6. CASE ParseFails
  BY <1>0, <1>6 DEF ParseFails, PlanReady
<1>7. CASE ParseBody
  BY <1>0, <1>7 DEF ParseBody, PlanReady
<1>8. CASE \E demoted \in BOOLEAN : SetPriority(demoted)
  BY <1>0, <1>8 DEF SetPriority, PlanReady
<1>9. CASE SetUsageOptions
  <2>1. body' = body \/ body' = [body EXCEPT !.usage = @ \cup {"continuous"}]
    BY <1>9 DEF SetUsageOptions
  <2>2. DOMAIN body' = DOMAIN body /\ body'.path = body.path /\ body'.model = body.model
        /\ body'.stream = body.stream
    BY <1>0, <2>1 DEF PlanReady, Dropped
  <2>3. wantsUsage' \in BOOLEAN
    BY <1>0, <1>9 DEF SetUsageOptions, PlanReady
  <2>4. QED
    BY <1>0, <1>9, <2>2, <2>3 DEF SetUsageOptions, PlanReady
<1>10. CASE PrepareFails
  BY <1>0, <1>10 DEF PrepareFails, PlanReady
<1>11. CASE Prepare
  <2>1. /\ DOMAIN body' = DOMAIN body /\ body'.path = body.path /\ body'.model = body.model
        /\ body'.stream = body.stream
        /\ step' = "invoke" => body.path \in {"chat", "responses"}
    BY <1>0, <1>11, ToolsKeepBody DEF Prepare, PlanReady, SameBody
  <2>2. target' \in {"llm", "websearch"}
    BY <1>0, <1>11, RequestFields DEF Prepare, PlanReady
  <2>3. QED
    BY <1>0, <1>11, <2>1, <2>2 DEF Prepare, PlanReady
<1>12. CASE DispatchFails
  BY <1>0, <1>12 DEF DispatchFails, PlanReady
<1>13. CASE ServeProxy
  BY <1>0, <1>13 DEF ServeProxy, PlanReady
<1>14. CASE InvokerFails
  BY <1>0, <1>14 DEF InvokerFails, PlanReady
<1>15. CASE StartRunner
  <2>1. request.stream \in BOOLEAN /\ request.metrics \in BOOLEAN
    BY <1>0, RequestFields DEF PlanReady
  <2>2. request.path \in {"chat", "responses"} /\ target \in {"llm", "websearch"}
        /\ body.stream = request.stream /\ bearer \in BOOLEAN /\ wantsUsage \in BOOLEAN
    BY <1>0, <1>15 DEF PlanReady, StartRunner
  <2>3. call' \in Calls /\ call'.kind = request.path
    BY <1>15, <2>1, <2>2 DEF StartRunner, Calls
  <2>4. request' = Dropped /\ body' = Dropped /\ Dropped \in RequestType
    BY <1>15 DEF StartRunner, Dropped, RequestType, Paths
  <2>5. PlanReady'
    BY <1>15, <2>4 DEF StartRunner, PlanReady
  <2>6. QED
    BY <1>0, <1>15, <2>2, <2>3, <2>5 DEF StartRunner, Ownership
<1>16. QED
  BY <1>1, <1>2, <1>3, <1>4, <1>5, <1>6, <1>7, <1>8, <1>9, <1>10, <1>11, <1>12, <1>13,
     <1>14, <1>15 DEF PlanNext

----------------------------------------------------------------------------
(* What a step leaves alone *)

LEMMA LoopKept ==
  ASSUME UNCHANGED responsesVars
  PROVE  /\ ResponsesTypeOK => ResponsesTypeOK'
         /\ ResponsesInit => ResponsesInit'
BY DEF responsesVars, hopVars, loopVars, ResponsesTypeOK, ResponsesInit

LEMMA ChatKept ==
  ASSUME UNCHANGED chatVars
  PROVE  /\ ChatTypeOK => ChatTypeOK'
         /\ ChatInit => ChatInit'
BY DEF chatVars, ChatTypeOK, ChatInit

LEMMA OutGrows ==
  ASSUME Queued, NEW code, NEW written, Write(code, written)
  PROVE  /\ status' = IF status = 0 THEN code ELSE status
         /\ out' \in Seq(Range(out')) /\ Len(out) \in Nat /\ Len(out') = Len(out) + 1
         /\ \A k \in DOMAIN out : k \in DOMAIN out' /\ out'[k] = out[k]
         /\ \A k \in DOMAIN out' :
              (k \in DOMAIN out /\ out'[k] = out[k]) \/ out'[k] = written
         /\ \E k \in DOMAIN out' : out'[k] = written
BY AppendAny DEF Write, Queued

LEMMA PlanKeepsInv ==
  ASSUME IInv, Plan
  PROVE  IInv'
<1>1. /\ step \in PlanSteps /\ UNCHANGED <<shown, billed>> /\ PlanReady'
      /\ PlanGoesOn \/ PlanAnswers \/ RunnerStarts
  BY PlanEffect DEF IInv, Plan
<1>2. /\ call = NoCall /\ status = 0 /\ out = <<>> /\ ResponsesInit /\ ChatInit
      /\ billed = [events |-> 0, tokens |-> 0] /\ shown = NotShown
  BY <1>1 DEF IInv, Ownership, NoCall
<1>3. ResponsesInit' /\ ChatInit' /\ ResponsesTypeOK' /\ ChatTypeOK' /\ Arriving'
  BY <1>2, LoopKept, ChatKept DEF IInv, Plan, ChatInit, Arriving
<1>4. /\ Queued /\ queue' = <<>> /\ total' = 0 /\ latest' = 0 /\ finalUsage' = 0 /\ executed' = <<>>
      /\ chatRan' = <<>> /\ public' = <<>>
  BY <1>3 DEF IInv, ResponsesInit, ChatInit
<1>5. CASE PlanGoesOn
  <2>1. UNCHANGED <<call, status, out>> /\ step' \in PlanSteps
    BY <1>5 DEF PlanGoesOn, clientVars
  <2>2. Ownership'
    BY <1>1, <1>2, <1>3, <1>4, <2>1
    DEF Ownership, PlanSteps, LoopSteps, ChatSteps, NoCall, Calls
  <2>3. StreamPlace' /\ Beginning' /\ NothingCounted'
    BY <1>1, <1>2, <1>3, <1>4, <2>1
    DEF StreamPlace, Beginning, NothingCounted, PlanSteps, LoopSteps
  <2>4. FinalIsTotal'
    BY <1>1, <1>2, <1>3, <1>4, <2>1 DEF FinalIsTotal, PlanSteps, NoCall
  <2>5. UsedIsBilled' /\ Queued'
    BY <1>1, <1>2, <1>3, <1>4, <2>1 DEF UsedIsBilled, Queued, PlanSteps, NoCall
  <2>6. QED
    BY <1>1, <1>3, <2>2, <2>3, <2>4, <2>5 DEF IInv
<1>6. CASE PlanAnswers
  <2>1. PICK code \in Statuses, type \in {"page", "error"} : Write(code, Written(type, <<>>, 0))
    BY <1>6 DEF PlanAnswers
  <2>2. /\ status' \in Statuses /\ out' \in Seq(Range(out')) /\ call' = NoCall /\ step' = "done"
        /\ \A k \in DOMAIN out' : out'[k].type \in {"page", "error"}
    BY <1>2, <1>4, <1>6, <2>1, OutGrows DEF PlanAnswers, Written
  <2>3. Ownership'
    BY <1>1, <1>2, <1>3, <1>4, <2>2
    DEF Ownership, PlanSteps, LoopSteps, ChatSteps, NoCall, Calls
  <2>4. StreamPlace' /\ Beginning' /\ NothingCounted'
    BY <1>3, <1>4, <2>2 DEF StreamPlace, Beginning, NothingCounted, Statuses, LoopSteps
  <2>5. FinalIsTotal'
    BY <1>1, <1>2, <1>4, <2>2 DEF FinalIsTotal, Final, NoCall
  <2>6. UsedIsBilled' /\ Queued'
    BY <1>1, <1>2, <1>4, <2>2 DEF UsedIsBilled, Queued, NoCall
  <2>7. QED
    BY <1>1, <1>2, <1>3, <2>3, <2>4, <2>5, <2>6 DEF IInv
<1>7. CASE RunnerStarts
  <2>1. UNCHANGED <<status, out>> /\ step' \in {"chat", "send"} /\ call' \in Calls
        /\ call'.kind = IF step' = "chat" THEN "chat" ELSE "responses"
    BY <1>7 DEF RunnerStarts, clientVars
  <2>2. Ownership'
    BY <1>2, <1>3, <1>4, <2>1 DEF Ownership, PlanSteps, LoopSteps, ChatSteps, Calls
  <2>3. StreamPlace' /\ Beginning' /\ NothingCounted'
    BY <1>2, <1>4, <2>1 DEF StreamPlace, Beginning, NothingCounted, LoopSteps
  <2>4. FinalIsTotal'
    BY <1>1, <1>2, <1>4, <2>1 DEF FinalIsTotal
  <2>5. UsedIsBilled' /\ Queued'
    BY <1>1, <1>2, <1>4, <2>1 DEF UsedIsBilled, Queued
  <2>6. QED
    BY <1>1, <1>2, <1>3, <2>2, <2>3, <2>4, <2>5 DEF IInv
<1>8. QED
  BY <1>1, <1>5, <1>6, <1>7

\* The error that serveTyped writes for a runner.
LEMMA ReportKeepsInv ==
  ASSUME IInv, Report
  PROVE  IInv'
<1>1. /\ step = "failed" /\ step' = "done" /\ UNCHANGED <<call, shown, billed>>
      /\ UNCHANGED responsesVars /\ UNCHANGED chatVars /\ UNCHANGED planVars
      /\ Queued /\ Write(502, Written("error", <<>>, 0))
  BY DEF IInv, Report, ReportError, ApiError
<1>2. /\ out' \in Seq(Range(out'))
      /\ \A k \in DOMAIN out' : (k \in DOMAIN out /\ out'[k] = out[k]) \/ out'[k].type = "error"
      /\ status' = IF status = 0 THEN 502 ELSE status
  BY <1>1, OutGrows DEF Written
<1>3. ResponsesTypeOK' /\ ChatTypeOK' /\ (ResponsesInit => ResponsesInit') /\ (ChatInit => ChatInit')
  BY <1>1, LoopKept, ChatKept DEF IInv
<1>4. PlanReady'
  BY <1>1 DEF IInv, PlanReady, planVars
<1>5. Ownership'
  BY <1>1, <1>3 DEF IInv, Ownership, PlanSteps, LoopSteps, ChatSteps, responsesVars
<1>6. Beginning' /\ StreamPlace' /\ NothingCounted'
  BY <1>1, <1>2 DEF IInv, Beginning, StreamPlace, NothingCounted, LoopSteps
<1>7. FinalIsTotal'
  BY <1>1, <1>2
  DEF IInv, FinalIsTotal, Final, Used, responsesVars, loopVars, chatVars
<1>8. UsedIsBilled' /\ Queued'
  BY <1>1, <1>2 DEF IInv, UsedIsBilled, Queued, responsesVars, loopVars, chatVars
<1>9. Arriving'
  BY <1>1 DEF IInv, Arriving, chatVars
<1>10. QED
  BY <1>1, <1>3, <1>4, <1>5, <1>6, <1>7, <1>8, <1>9 DEF IInv

----------------------------------------------------------------------------
(* The chat runner *)

\* What a step of the chat runner does not touch.
LEMMA ChatFrame ==
  ASSUME IInv, Chat, step \in ChatSteps, step' \in ChatSteps \cup {"failed", "done"},
         call' = call, step' \in {"chat_stream", "chat_execute"} => call.stream,
         step' = "chat_patch" => ~call.stream,
         status' \in {0} \cup Statuses, step' # "done" => status' \in {0, 200},
         step' = "done" => status' # 0
  PROVE  /\ Ownership' /\ PlanReady' /\ StreamPlace' /\ Beginning' /\ NothingCounted'
         /\ ResponsesTypeOK' /\ queue' = <<>> /\ total' = 0 /\ executed' = <<>>
         /\ queue = <<>> /\ total = 0 /\ executed = <<>> /\ call.kind = "chat"
<1>1. call.kind = "chat" /\ ResponsesInit
  BY DEF IInv, Ownership, Calls
<1>2. ResponsesInit' /\ ResponsesTypeOK'
  BY <1>1, LoopKept DEF IInv, Chat
<1>3. /\ queue' = <<>> /\ total' = 0 /\ executed' = <<>>
      /\ queue = <<>> /\ total = 0 /\ executed = <<>>
  BY <1>1, <1>2 DEF ResponsesInit
<1>4. PlanReady'
  BY DEF IInv, Chat, PlanReady, planVars, ChatSteps
<1>5. Ownership'
  BY <1>1, <1>2, <1>3 DEF IInv, Ownership, PlanSteps, LoopSteps, ChatSteps
<1>6. StreamPlace' /\ Beginning' /\ NothingCounted'
  BY <1>3 DEF StreamPlace, Beginning, NothingCounted, ChatSteps, LoopSteps, Statuses
<1>7. QED
  BY <1>1, <1>2, <1>3, <1>4, <1>5, <1>6

LEMMA CompletionFields ==
  ASSUME NEW r \in Completions \cup {NoCompletion}
  PROVE  /\ r.usage \in Nat /\ r.usage \in Usages \cup {0}
         /\ r.calls \in Seq(ChatCalls)
         /\ r \in Completions => r.usage \in Usages
<1>1. CASE r \in Completions
  <2>1. r.usage \in Usages /\ r.calls \in Seq(ChatCalls)
    BY <1>1, CompletionsAssumption
  <2>2. QED
    BY <2>1, UsagesAssumption
<1>2. CASE r = NoCompletion
  <2>1. r.usage = 0 /\ r.calls = <<>>
    BY <1>2 DEF NoCompletion
  <2>2. QED
    BY <1>2, <2>1, CompletionsAssumption
<1>3. QED
  BY <1>1, <1>2

LEMMA ReportedTokens ==
  ASSUME ChatTypeOK
  PROVE  finalUsage \in Nat /\ latest \in Nat
BY UsagesAssumption DEF ChatTypeOK

\* What UsedIsBilled says of a chat answer that is not finished.
ChatBill ==
  /\ billed.events <= 1 /\ \A k \in DOMAIN out : out[k].type # "completed"
  /\ step \in {"chat", "chat_stream"} => billed.events = 0
  /\ step \in {"chat_patch", "chat_execute"} => billed.events = 1
  /\ chatRan # <<>> => billed.events >= 1
  /\ \A k \in DOMAIN out : out[k].type \in {"answer", "done"} => billed.events >= 1
  /\ call.model # "websearch" => billed.tokens = IF billed.events = 1 THEN latest ELSE 0

\* While the runner is at work, nothing final has been said.
LEMMA ChatAtWork ==
  ASSUME IInv, step \in ChatSteps
  PROVE  /\ \A k \in DOMAIN out : ~ Final(out[k])
         /\ shown = NotShown /\ Queued /\ queue = <<>> /\ call.kind = "chat" /\ call \in Calls
         /\ ChatTypeOK /\ billed \in [events : Nat, tokens : Nat]
         /\ call.stream => finalUsage = latest
         /\ executed = <<>>
         /\ call.key => ChatBill
<1>1. call.kind = "chat" /\ call \in Calls /\ ResponsesInit
  BY DEF IInv, Ownership, ChatSteps
<1>2. queue = <<>> /\ executed = <<>>
  BY <1>1 DEF ResponsesInit
<1>3. (\A k \in DOMAIN out : ~ Final(out[k])) /\ shown = NotShown
      /\ (call.stream => finalUsage = latest)
  BY <1>1 DEF IInv, FinalIsTotal, ChatSteps
<1>4. call.key => ChatBill
  BY <1>1 DEF IInv, UsedIsBilled, ChatBill
<1>5. Queued /\ ChatTypeOK /\ billed \in [events : Nat, tokens : Nat]
  BY DEF IInv
<1>6. QED
  BY <1>1, <1>2, <1>3, <1>4, <1>5

\* The other parts of the invariant, for a step of the chat runner.
ChatAnswers ==
  ChatTypeOK /\ billed \in [events : Nat, tokens : Nat] /\ FinalIsTotal /\ UsedIsBilled
    /\ Queued /\ Arriving

\* A step that adds to the client's answer what is not final, and bills nothing.
LEMMA ChatGoesOn ==
  ASSUME IInv, step \in ChatSteps, UNCHANGED <<call, billed, shown>>,
         step' \in ChatSteps \cup {"failed", "done"}, queue' = <<>>, executed' = <<>>,
         call.stream => finalUsage' = latest',
         step' = "chat_patch" => completion'.usage = latest',
         call.key => billed.events = 0 \/ latest' = latest,
         step' \in {"chat", "chat_stream"} => (call.key => billed.events = 0),
         step' \in {"chat_patch", "chat_execute"} => (call.key => billed.events = 1),
         chatRan' # <<>> => chatRan # <<>> \/ (call.key => billed.events = 1),
         out' \in Seq(Range(out')),
         \A k \in DOMAIN out' : \/ k \in DOMAIN out /\ out'[k] = out[k]
                               \/ out'[k].type \notin {"answer", "completed", "done"}
  PROVE  /\ billed' \in [events : Nat, tokens : Nat] /\ FinalIsTotal' /\ UsedIsBilled' /\ Queued'
<1>1. \A k \in DOMAIN out' : ~ Final(out'[k])
  BY ChatAtWork DEF Final
<1>2. FinalIsTotal'
  BY <1>1, ChatAtWork DEF FinalIsTotal, Final
<1>3. UsedIsBilled'
  BY ChatAtWork DEF UsedIsBilled, ChatSteps, ChatBill
<1>4. QED
  BY <1>2, <1>3, ChatAtWork DEF Queued

LEMMA CallFields ==
  ASSUME ChatTypeOK, NEW c \in DOMAIN completion.calls
  PROVE  /\ c \in Nat /\ completion.calls[c].name \in {"ci", "user"}
         /\ completion.calls[c].pieces \in Nat
         /\ completion.calls[c].choice \in Nat /\ completion.calls[c].index \in Nat
<1>1. completion.calls \in Seq(ChatCalls)
  BY CompletionFields DEF ChatTypeOK
<1>2. c \in 1..Len(completion.calls) /\ completion.calls[c] \in ChatCalls
  BY <1>1
<1>3. QED
  BY <1>2 DEF ChatCalls

LEMMA ArgsType ==
  ASSUME NEW c \in Nat, NEW n \in Nat
  PROVE  ChatArgs(c, n) \in Seq(Nat \X Nat)
BY DEF ChatArgs

Builders == [id : Nat, name : {"none", "ci", "user"}, args : Seq(Nat \X Nat)]

LEMMA CollectedType ==
  ASSUME ChatTypeOK, NEW c \in DOMAIN completion.calls, NEW piece \in Nat
  PROVE  \A key \in DOMAIN Collected(c, piece) : Collected(c, piece)[key] \in Builders
<1> DEFINE key == BuilderKey(c)
           old == IF key \in DOMAIN builders THEN builders[key]
                  ELSE [id |-> 0, name |-> "none", args |-> <<>>]
           new == [id   |-> IF piece = 1 THEN c ELSE old.id,
                   name |-> IF piece = 1 THEN completion.calls[c].name ELSE old.name,
                   args |-> Append(old.args, <<c, piece>>)]
<1>1. \A k \in DOMAIN builders : builders[k] \in Builders
  BY DEF ChatTypeOK, Builders
<1>2. old \in Builders
  BY <1>1 DEF Builders
<1>3. old.id \in Nat /\ old.name \in {"none", "ci", "user"} /\ old.args \in Seq(Nat \X Nat)
  BY <1>2 DEF Builders
<1>4. <<c, piece>> \in Nat \X Nat
  BY CallFields
<1>5. new \in Builders
  <2>1. Append(old.args, <<c, piece>>) \in Seq(Nat \X Nat)
    BY <1>3, <1>4
  <2>2. (IF piece = 1 THEN c ELSE old.id) \in Nat
    BY <1>3, CallFields
  <2>3. (IF piece = 1 THEN completion.calls[c].name ELSE old.name) \in {"none", "ci", "user"}
    BY <1>3, CallFields
  <2> HIDE DEF old
  <2>4. QED
    BY <2>1, <2>2, <2>3 DEF Builders
<1>6. Collected(c, piece) = [k \in DOMAIN builders \cup {key} |-> IF k = key THEN new ELSE builders[k]]
  BY DEF Collected
<1> HIDE DEF new, old, key
<1>7. QED
  BY <1>1, <1>5, <1>6

LEMMA ChatKeepsInv ==
  ASSUME IInv, Chat
  PROVE  IInv'
<1> SUFFICES step \in ChatSteps
             /\ step' \in ChatSteps \cup {"failed", "done"} /\ call' = call
             /\ (step' \in {"chat_stream", "chat_execute"} => call.stream)
             /\ (step' = "chat_patch" => ~call.stream)
             /\ status' \in {0} \cup Statuses /\ (step' # "done" => status' \in {0, 200})
             /\ (step' = "done" => status' # 0)
             /\ ChatAnswers'
  BY ChatFrame DEF IInv, ChatAnswers
<1>0. ChatNext /\ ChatTypeOK /\ Queued /\ Arriving /\ Ownership /\ UNCHANGED responsesVars
  BY DEF IInv, Chat
<1>b. step \in ChatSteps => status \in {0, 200} /\ status \in Statuses \cup {0}
  BY DEF IInv, Beginning, ChatSteps, Statuses
<1>q. step \in ChatSteps => queue' = <<>> /\ executed' = <<>>
  BY <1>0, ChatAtWork DEF responsesVars, loopVars
<1>1. CASE ChatFails \/ PatchFails
  <2>1. /\ step \in ChatSteps /\ step' = "done" /\ UNCHANGED <<call, shown, billed, chatVars>>
        /\ Write(502, Written("error", <<>>, 0))
    BY <1>1 DEF ChatFails, PatchFails, ApiError, ChatSteps
  <2>2. /\ out' \in Seq(Range(out')) /\ status' \in Statuses
        /\ \A k \in DOMAIN out' : (k \in DOMAIN out /\ out'[k] = out[k]) \/ out'[k].type = "error"
    BY <1>0, <1>b, <2>1, OutGrows DEF Written, Statuses
  <2>3. ChatTypeOK' /\ Arriving'
    BY <1>0, <2>1, ChatKept DEF Arriving, chatVars
  <2>4. /\ billed' \in [events : Nat, tokens : Nat]
        /\ FinalIsTotal' /\ UsedIsBilled' /\ Queued'
    BY <1>q, <2>1, <2>2, ChatGoesOn, ChatAtWork DEF ChatBill, chatVars
  <2>5. QED
    BY <2>1, <2>2, <2>3, <2>4 DEF ChatAnswers, Statuses
<1>2. CASE BreakStream \/ RunBuilderFails
  <2>1. /\ step \in ChatSteps /\ step' = "failed"
        /\ UNCHANGED <<call, status, out, shown, billed, chatVars>>
    BY <1>2 DEF BreakStream, RunBuilderFails, ReturnError, ChatSteps, clientVars
  <2>2. ChatTypeOK' /\ Arriving'
    BY <1>0, <2>1, ChatKept DEF Arriving, chatVars
  <2>3. /\ billed' \in [events : Nat, tokens : Nat]
        /\ FinalIsTotal' /\ UsedIsBilled' /\ Queued'
    BY <1>q, <2>1, ChatGoesOn, ChatAtWork DEF ChatBill, chatVars, Queued
  <2>4. QED
    BY <1>b, <2>1, <2>2, <2>3 DEF ChatAnswers
<1>3. CASE \E r \in Completions : ReceiveCompletion(r)
  <2>1. PICK r \in Completions : ReceiveCompletion(r)
    BY <1>3
  <2>2. /\ step = "chat" /\ step \in ChatSteps /\ ~ call.stream /\ call' = call /\ call \in Calls
        /\ call.kind = "chat" /\ latest' = r.usage /\ completion' = r /\ arrived = <<>>
        /\ UNCHANGED <<arrived, chunks, builders, finalUsage, lastChunk, cursor, chatRan>>
        /\ RecordUsage(r.usage) /\ r.usage \in Nat /\ r.usage \in Usages /\ chatRan = <<>>
    BY <1>0, <2>1, ChatAtWork, CompletionFields, UsagesAssumption
    DEF ReceiveCompletion, ChatSteps, Arriving, ChatInit
  <2>3. ChatTypeOK'
    BY <1>0, <2>2 DEF ChatTypeOK
  <2>4. Arriving' /\ step' \in {"done", "chat_patch"}
    BY <1>0, <2>1, <2>2 DEF Arriving, ReceiveCompletion
  <2>5. /\ billed' \in [events : Nat, tokens : Nat]
        /\ call.key => /\ billed'.events = 1
                       /\ call.model # "websearch" => billed'.tokens = r.usage
    BY <2>2, ChatAtWork, RecordBills DEF ChatBill
  <2>6. CASE step' = "chat_patch"
    <3>1. UNCHANGED <<status, out, shown>>
      BY <2>1, <2>6 DEF ReceiveCompletion, clientVars
    <3>2. FinalIsTotal' /\ Queued'
      BY <1>q, <2>2, <2>6, <3>1, ChatAtWork DEF FinalIsTotal, Queued
    <3>3. UsedIsBilled'
      BY <1>q, <2>2, <2>5, <2>6, <3>1, ChatAtWork DEF UsedIsBilled, ChatBill
    <3>4. QED
      BY <1>b, <2>2, <2>3, <2>4, <2>5, <2>6, <3>1, <3>2, <3>3 DEF ChatAnswers, ChatSteps
  <2>7. CASE step' = "done"
    <3>1. PICK code, w :
            /\ code \in Statuses /\ Write(code, w)
            /\ (w.type \in {"error", "forwarded"} \/ w = Written("answer", <<>>, r.usage))
            /\ shown' = NotShown \/ shown' = r.usage
      <4>1. CASE r.status = "error"
        BY <2>1, <4>1, <2>2, ChatAtWork DEF ReceiveCompletion, Written, Statuses
      <4>2. CASE r.status = "garbled"
        BY <2>1, <4>2, <2>2, ChatAtWork DEF ReceiveCompletion, Written, ApiError, Statuses
      <4>3. CASE r.status \notin {"error", "garbled"}
        BY <2>1, <4>3, <2>2, <2>7, ChatAtWork
        DEF ReceiveCompletion, ShowChatUsage, ShowUsage, Statuses
      <4>4. QED
        BY <4>1, <4>2, <4>3
    <3>2. /\ out' \in Seq(Range(out')) /\ status' \in Statuses
          /\ \A k \in DOMAIN out' :
               \/ k \in DOMAIN out /\ out'[k] = out[k]
               \/ out'[k].type \in {"error", "forwarded"}
               \/ out'[k].type = "answer" /\ out'[k].usage = r.usage
      BY <1>0, <1>b, <2>2, <3>1, OutGrows DEF Written, Statuses
    <3>3. FinalIsTotal' /\ Queued'
      BY <1>q, <2>2, <2>7, <3>1, <3>2, ChatAtWork DEF FinalIsTotal, Queued, Final, Used
    <3>4. UsedIsBilled'
      BY <1>q, <2>2, <2>5, <2>7, <3>1, <3>2, ChatAtWork DEF UsedIsBilled, ChatBill
    <3>5. QED
      BY <1>b, <2>2, <2>3, <2>4, <2>5, <2>7, <3>2, <3>3, <3>4 DEF ChatAnswers, ChatSteps, Statuses
  <2>8. QED
    BY <2>4, <2>6, <2>7
<1>4. CASE \E r \in Completions : OpenStream(r)
  <2>1. PICK r \in Completions : OpenStream(r)
    BY <1>4
  <2>2. /\ step = "chat" /\ step \in ChatSteps /\ call.stream
        /\ UNCHANGED <<call, shown, billed, chunks, builders, finalUsage, lastChunk, cursor, chatRan, latest>>
        /\ r.calls \in Seq(ChatCalls)
    BY <2>1, CompletionFields DEF OpenStream, ChatSteps
  <2>3. CASE r.status = "error"
    <3>1. /\ step' = "done" /\ UNCHANGED <<completion, arrived>>
          /\ Write(500, Written("forwarded", <<>>, 0))
      BY <2>1, <2>3 DEF OpenStream
    <3>2. /\ out' \in Seq(Range(out')) /\ status' \in Statuses
          /\ \A k \in DOMAIN out' :
               (k \in DOMAIN out /\ out'[k] = out[k]) \/ out'[k].type = "forwarded"
      BY <1>0, <1>b, <2>2, <3>1, OutGrows DEF Written, Statuses
    <3>3. ChatTypeOK' /\ Arriving'
      BY <1>0, <2>2, <3>1 DEF ChatTypeOK, Arriving
    <3>4. /\ billed' \in [events : Nat, tokens : Nat]
          /\ FinalIsTotal' /\ UsedIsBilled' /\ Queued'
      BY <1>q, <2>2, <3>1, <3>2, ChatGoesOn, ChatAtWork DEF ChatBill
    <3>5. QED
      BY <2>2, <3>1, <3>2, <3>3, <3>4 DEF ChatAnswers, Statuses
  <2>4. CASE r.status # "error"
    <3>1. /\ step' = "chat_stream" /\ UNCHANGED <<status, out>> /\ completion' = r
          /\ arrived' = [c \in DOMAIN r.calls |-> 0]
      BY <2>1, <2>4 DEF OpenStream, clientVars
    <3>2. ChatTypeOK' /\ Arriving'
      BY <1>0, <2>2, <3>1 DEF ChatTypeOK, Arriving
    <3>3. /\ billed' \in [events : Nat, tokens : Nat]
          /\ FinalIsTotal' /\ UsedIsBilled' /\ Queued'
      BY <1>0, <1>q, <2>2, <3>1, ChatGoesOn, ChatAtWork DEF ChatBill, ChatSteps, Queued
    <3>4. QED
      BY <1>b, <2>2, <3>1, <3>2, <3>3 DEF ChatAnswers, ChatSteps
  <2>5. QED
    BY <2>3, <2>4
<1>5. CASE PatchCall
  <2>1. /\ step = "chat_patch" /\ step \in ChatSteps /\ UNCHANGED <<sharedVars, completion, arrived, latest>>
        /\ UNCHANGED <<chunks, builders, finalUsage, lastChunk>>
        /\ cursor \in DOMAIN completion.calls /\ cursor' = cursor + 1
    BY <1>5 DEF PatchCall, ChatSteps
  <2>2. UNCHANGED <<step, call, status, out, shown, billed>>
    BY <2>1 DEF sharedVars, clientVars
  <2>3. chatRan' \in Seq([id : Nat, args : Seq(Nat \X Nat)])
    <3>1. chatRan \in Seq([id : Nat, args : Seq(Nat \X Nat)])
      BY <1>0 DEF ChatTypeOK
    <3>2. [id |-> cursor, args |-> ChatArgs(cursor, completion.calls[cursor].pieces)]
            \in [id : Nat, args : Seq(Nat \X Nat)]
      BY <1>0, <2>1, CallFields, ArgsType
    <3>3. Append(chatRan, [id |-> cursor, args |-> ChatArgs(cursor, completion.calls[cursor].pieces)])
            \in Seq([id : Nat, args : Seq(Nat \X Nat)])
      BY <3>1, <3>2, AppendProperties
    <3>4. QED
      BY <1>5, <3>1, <3>3 DEF PatchCall
  <2>4. ChatTypeOK' /\ Arriving'
    BY <1>0, <2>1, <2>2, <2>3 DEF ChatTypeOK, Arriving
  <2>5. completion.usage = latest /\ ~ call.stream
    BY <1>0, <2>1 DEF IInv, FinalIsTotal, Ownership
  <2>6. /\ billed' \in [events : Nat, tokens : Nat]
        /\ FinalIsTotal' /\ UsedIsBilled' /\ Queued'
    BY <1>0, <1>q, <2>1, <2>2, <2>5, ChatGoesOn, ChatAtWork DEF ChatBill, Queued
  <2>7. QED
    BY <1>b, <2>1, <2>2, <2>4, <2>5, <2>6 DEF ChatAnswers
<1>6. CASE AnswerChat
  <2>1. /\ step = "chat_patch" /\ step \in ChatSteps /\ step' = "done" /\ UNCHANGED <<call, billed, chatVars>>
        /\ ShowChatUsage(completion.usage) /\ completion.usage = latest /\ ~ call.stream
    BY <1>0, <1>6 DEF AnswerChat, ChatSteps, IInv, FinalIsTotal, Ownership
  <2>2. PICK items : Write(200, Written("answer", items, latest))
    BY <1>6, <2>1 DEF AnswerChat
  <2>3. /\ out' \in Seq(Range(out')) /\ status' \in Statuses
        /\ \A k \in DOMAIN out' :
             \/ k \in DOMAIN out /\ out'[k] = out[k]
             \/ out'[k].type = "answer" /\ out'[k].usage = latest
    BY <1>0, <1>b, <2>1, <2>2, OutGrows DEF Written, Statuses
  <2>4. shown' = NotShown \/ shown' = latest
    BY <2>1, ChatAtWork DEF ShowChatUsage, ShowUsage
  <2>5. ChatTypeOK' /\ Arriving' /\ latest' = latest
    BY <1>0, <2>1, ChatKept DEF Arriving, chatVars
  <2>6. FinalIsTotal' /\ Queued'
    BY <1>q, <2>1, <2>3, <2>4, <2>5, ChatAtWork DEF FinalIsTotal, Queued, Used
  <2>7. UsedIsBilled'
    BY <1>q, <2>1, <2>3, <2>4, <2>5, ChatAtWork DEF UsedIsBilled, ChatBill, chatVars
  <2>8. QED
    BY <1>0, <2>1, <2>3, <2>5, <2>6, <2>7, ChatAtWork DEF ChatAnswers, Statuses
<1>7. CASE \E c \in DOMAIN arrived, usage \in Usages : PieceArrives(c, usage)
  <2>1. PICK c \in DOMAIN arrived, usage \in Usages : PieceArrives(c, usage)
    BY <1>7
  <2>2. /\ step = "chat_stream" /\ step \in ChatSteps /\ call.stream /\ NoteUsage(usage)
        /\ UNCHANGED <<step, call, shown, billed, completion, chunks, cursor, chatRan>>
        /\ arrived' = [arrived EXCEPT ![c] = @ + 1] /\ lastChunk' = TRUE
        /\ builders' = Collected(c, arrived[c] + 1)
        /\ Write(200, Written("piece", <<c, arrived[c] + 1>>, 0))
    BY <1>0, <2>1 DEF PieceArrives, ChatSteps, Ownership
  <2>3. finalUsage' \in Usages \cup {0} /\ latest' \in Usages \cup {0} /\ finalUsage' = latest'
    BY <1>0, <2>2, ChatAtWork DEF NoteUsage, ChatTypeOK
  <2>4. arrived' \in Seq(Nat) /\ DOMAIN arrived' = DOMAIN arrived /\ arrived[c] \in Nat
    BY <1>0, <2>2 DEF ChatTypeOK
  <2>5. \A key \in DOMAIN builders' : builders'[key] \in Builders
    BY <1>0, <2>2, <2>4, CollectedType DEF Arriving
  <2>6. ChatTypeOK' /\ Arriving'
    BY <1>0, <2>2, <2>3, <2>4, <2>5 DEF ChatTypeOK, Arriving, Builders
  <2>7. /\ out' \in Seq(Range(out')) /\ status' \in {200}
        /\ \A k \in DOMAIN out' :
             (k \in DOMAIN out /\ out'[k] = out[k]) \/ out'[k].type = "piece"
    BY <1>0, <1>b, <2>2, OutGrows DEF Written
  <2>8. /\ billed' \in [events : Nat, tokens : Nat]
        /\ FinalIsTotal' /\ UsedIsBilled' /\ Queued'
    BY <1>0, <1>q, <2>2, <2>3, <2>7, ChatGoesOn, ChatAtWork DEF ChatBill
  <2>9. QED
    BY <2>2, <2>6, <2>7, <2>8 DEF ChatAnswers, Statuses
<1>8. CASE \E type \in {"text", "odd", "usage"}, usage \in Usages : ChunkArrives(type, usage)
  <2>1. PICK type \in {"text", "odd", "usage"}, usage \in Usages : ChunkArrives(type, usage)
    BY <1>8
  <2>2. /\ step = "chat_stream" /\ step \in ChatSteps /\ call.stream /\ NoteUsage(usage)
        /\ UNCHANGED <<step, call, shown, billed, completion, arrived, builders, cursor, chatRan>>
        /\ chunks' = chunks + 1 /\ chunks < MaxChunks
        /\ UNCHANGED <<status, out>> \/ Write(200, Written(type, <<>>, 0))
    BY <1>0, <2>1 DEF ChunkArrives, ChatSteps, Ownership, clientVars
  <2>3. finalUsage' \in Usages \cup {0} /\ latest' \in Usages \cup {0} /\ finalUsage' = latest'
    BY <1>0, <2>2, ChatAtWork DEF NoteUsage, ChatTypeOK
  <2>4. lastChunk' \in BOOLEAN
    BY <1>0, <2>1 DEF ChunkArrives, ChatTypeOK
  <2>5. chunks' \in 0..MaxChunks
    BY <1>0, <2>2, CompletionsAssumption DEF ChatTypeOK
  <2>6. ChatTypeOK' /\ Arriving'
    BY <1>0, <2>2, <2>3, <2>4, <2>5 DEF ChatTypeOK, Arriving
  <2>7. /\ out' \in Seq(Range(out')) /\ status' \in {0, 200}
        /\ \A k \in DOMAIN out' :
             (k \in DOMAIN out /\ out'[k] = out[k]) \/ out'[k].type = type
    BY <1>0, <1>b, <2>2, OutGrows DEF Written, Queued
  <2>8. /\ billed' \in [events : Nat, tokens : Nat]
        /\ FinalIsTotal' /\ UsedIsBilled' /\ Queued'
    BY <1>0, <1>q, <2>2, <2>3, <2>7, ChatGoesOn, ChatAtWork DEF ChatBill
  <2>9. QED
    BY <2>2, <2>6, <2>7, <2>8 DEF ChatAnswers, Statuses
<1>9. CASE EndStream
  <2>1. /\ step = "chat_stream" /\ step \in ChatSteps /\ step' = "chat_execute" /\ call.stream
        /\ UNCHANGED <<call, status, out, shown, chatVars>> /\ RecordUsage(finalUsage)
    BY <1>0, <1>9 DEF EndStream, ChatSteps, Ownership, clientVars
  <2>2. ChatTypeOK' /\ Arriving' /\ latest' = latest /\ finalUsage' = finalUsage
    BY <1>0, <2>1, ChatKept DEF Arriving, chatVars
  <2>3. /\ billed' \in [events : Nat, tokens : Nat]
        /\ call.key => /\ billed'.events = 1
                       /\ call.model # "websearch" => billed'.tokens = latest
    BY <1>0, <2>1, ChatAtWork, ReportedTokens, RecordBills DEF ChatBill
  <2>4. FinalIsTotal' /\ Queued'
    BY <1>q, <2>1, <2>2, ChatAtWork DEF FinalIsTotal, Queued
  <2>5. UsedIsBilled'
    BY <1>q, <2>1, <2>2, <2>3, ChatAtWork DEF UsedIsBilled, ChatBill
  <2>6. QED
    BY <1>b, <2>1, <2>2, <2>3, <2>4, <2>5 DEF ChatAnswers, ChatSteps
<1>10. CASE \E key \in DOMAIN builders : RunBuilder(key)
  <2>1. PICK key \in DOMAIN builders : RunBuilder(key)
    BY <1>10
  <2>2. /\ step = "chat_execute" /\ step \in ChatSteps /\ call.stream
        /\ UNCHANGED <<step, call, shown, billed, completion, arrived, chunks, builders, finalUsage,
                       lastChunk, cursor, latest>>
        /\ Write(200, Patch(key)) /\ Patch(key).type = "patch"
    BY <1>0, <2>1 DEF RunBuilder, ChatSteps, Ownership, Patch, Written
  <2>3. chatRan' \in Seq([id : Nat, args : Seq(Nat \X Nat)])
    BY <1>0, <2>1 DEF RunBuilder, ChatTypeOK
  <2>4. ChatTypeOK' /\ Arriving'
    BY <1>0, <2>2, <2>3 DEF ChatTypeOK, Arriving
  <2>5. /\ out' \in Seq(Range(out')) /\ status' \in {200}
        /\ \A k \in DOMAIN out' :
             (k \in DOMAIN out /\ out'[k] = out[k]) \/ out'[k].type = "patch"
    BY <1>0, <1>b, <2>2, OutGrows
  <2>6. /\ billed' \in [events : Nat, tokens : Nat]
        /\ FinalIsTotal' /\ UsedIsBilled' /\ Queued'
    BY <1>0, <1>q, <2>2, <2>5, ChatGoesOn, ChatAtWork DEF ChatBill
  <2>7. QED
    BY <2>2, <2>4, <2>5, <2>6 DEF ChatAnswers, Statuses
<1>11. CASE FinishChat
  <2>1. /\ step = "chat_execute" /\ step \in ChatSteps /\ step' = "done" /\ call.stream
        /\ UNCHANGED <<call, billed, chatVars>> /\ ShowChatUsage(finalUsage)
        /\ Write(200, Written("done", <<>>, 0)) \/ (status' = 200 /\ UNCHANGED out)
    BY <1>0, <1>11 DEF FinishChat, ChatSteps, Ownership
  <2>2. ChatTypeOK' /\ Arriving' /\ latest' = latest /\ finalUsage' = finalUsage
    BY <1>0, <2>1, ChatKept DEF Arriving, chatVars
  <2>3. /\ out' \in Seq(Range(out')) /\ status' \in {200}
        /\ \A k \in DOMAIN out' :
             (k \in DOMAIN out /\ out'[k] = out[k]) \/ out'[k].type = "done"
    BY <1>0, <1>b, <2>1, OutGrows DEF Written, Queued
  <2>4. shown' = NotShown \/ shown' = latest
    BY <2>1, ChatAtWork DEF ShowChatUsage, ShowUsage
  <2>5. FinalIsTotal' /\ Queued'
    BY <1>q, <2>1, <2>2, <2>3, <2>4, ChatAtWork DEF FinalIsTotal, Queued, Used, Final
  <2>6. UsedIsBilled'
    BY <1>q, <2>1, <2>2, <2>3, <2>4, ChatAtWork DEF UsedIsBilled, ChatBill, chatVars
  <2>7. QED
    BY <1>0, <2>1, <2>2, <2>3, <2>5, <2>6, ChatAtWork DEF ChatAnswers, Statuses
<1>12. QED
  BY <1>0, <1>1, <1>2, <1>3, <1>4, <1>5, <1>6, <1>7, <1>8, <1>9, <1>10, <1>11 DEF ChatNext

----------------------------------------------------------------------------
(* The loop of the Responses runner *)

LEMMA ItemsReceived ==
  ASSUME NEW r \in Replies, hop \in Nat
  PROVE  /\ Received(r).items \in Seq(ItemType) /\ Received(r).usage = r.usage
         /\ Received(r) \in [items : Seq(ItemType), usage : Nat, ending : {"completed", "incomplete"}]
         /\ r.usage \in Nat
<1>1. r.kinds \in Seq(ItemKinds) /\ r.usage \in Usages /\ r.ending \in {"completed", "incomplete"}
  BY RepliesAssumption
<1>2. \A i \in DOMAIN r.kinds : Item(hop, i, r.kinds[i]) \in ItemType
  BY <1>1 DEF Item, ItemType
<1>3. Received(r).items \in Seq(ItemType)
  BY <1>1, <1>2 DEF Received
<1>4. QED
  BY <1>1, <1>3, UsagesAssumption DEF Received

LEMMA ReplayedType ==
  ASSUME ResponsesTypeOK
  PROVE  Replayed \in Seq(ItemType)
<1>1. \A item \in ItemType : ToolOutput(item) \in ItemType
  BY DEF ToolOutput, ItemType
<1>2. [i \in DOMAIN fresh |-> ToolOutput(fresh[i])] \in Seq(ItemType)
  <2>1. fresh \in Seq(ItemType)
    BY DEF ResponsesTypeOK
  <2>2. DOMAIN fresh = 1..Len(fresh) /\ Len(fresh) \in Nat
        /\ \A i \in DOMAIN fresh : ToolOutput(fresh[i]) \in ItemType
    BY <1>1, <2>1
  <2>3. QED
    BY <2>2
<1>3. reply.items \in Seq(ItemType) /\ input \in Seq(ItemType)
  BY DEF ResponsesTypeOK
<1>4. QED
  BY <1>2, <1>3 DEF Replayed

EventTypes == {"other", "call_added", "code_delta", "code_done", "in_progress", "interpreting",
               "call_completed", "call_done", "completed", "incomplete"}

LEMMA EventOfType ==
  ASSUME NEW type \in EventTypes, NEW item \in ItemType
  PROVE  Event(type, item) \in EventType /\ Event(type, item).type = type
BY DEF Event, Written, EventType, EventTypes

\* One announcement after the other, none of them final.
LEMMA AnnouncementsType ==
  ASSUME ResponsesTypeOK
  PROVE  /\ Announcements \in Seq(EventType)
         /\ \A k \in DOMAIN Announcements : ~ Final(Announcements[k])
<1> DEFINE e(k) == Announcement(fresh[(k + 3) \div 4])[((k - 1) % 4) + 1]
<1>1. fresh \in Seq(ItemType) /\ Len(fresh) \in Nat
  BY DEF ResponsesTypeOK
<1>2. ASSUME NEW k \in 1..4 * Len(fresh)
      PROVE  e(k) \in EventType /\ ~ Final(e(k))
  <2>1. (k + 3) \div 4 \in 1..Len(fresh) /\ ((k - 1) % 4) + 1 \in 1..4
    BY <1>1
  <2>2. PICK item \in ItemType, j \in 1..4 : e(k) = Announcement(item)[j]
    BY <1>1, <2>1
  <2>3. PICK type \in {"in_progress", "interpreting", "call_completed", "call_done"} :
          Announcement(item)[j] = Event(type, item)
    BY DEF Announcement
  <2>4. QED
    BY <2>2, <2>3, EventOfType DEF EventTypes, Final
<1>3. QED
  BY <1>1, <1>2 DEF Announcements

LEMMA LoopFrame ==
  ASSUME IInv, Responses, call.kind = "responses", call' = call,
         step' \in LoopSteps \cup {"failed", "done"},
         step' \in {"stream", "finish", "panicked"} => call.stream,
         queue' # <<>> => step' \in {"stream", "send", "finish"} /\ call.stream
  PROVE  Ownership' /\ PlanReady' /\ ChatTypeOK' /\ Arriving' /\ ChatInit' /\ ChatInit
<1>1. ChatInit /\ ChatInit' /\ ChatTypeOK' /\ UNCHANGED chatVars /\ UNCHANGED planVars
  BY ChatKept DEF IInv, Ownership, Responses
<1>2. Arriving'
  BY <1>1 DEF Arriving, ChatInit
<1>3. PlanReady'
  BY <1>1 DEF IInv, PlanReady, planVars, LoopSteps
<1>4. Ownership'
  BY <1>1 DEF IInv, Ownership, LoopSteps, PlanSteps, ChatSteps
<1>5. QED
  BY <1>1, <1>2, <1>3, <1>4

Ran == \/ executed # <<>>
       \/ step = "process" /\ (reply.items # <<>> \/ ~call.stream)
       \/ step = "stream" /\ completed

SaidFinal == (\E k \in DOMAIN out : Final(out[k])) \/ (\E k \in DOMAIN queue : Final(queue[k]))

\* What UsedIsBilled says of the loop.
LoopBill ==
  /\ Ran => billed.events >= 1
  /\ \A k \in DOMAIN out : out[k].type \in {"answer", "done"} => billed.events >= 1
  /\ call.model # "websearch" => billed.tokens = total

LEMMA LoopAtWork ==
  ASSUME IInv, step \in LoopSteps
  PROVE  /\ call.kind = "responses" /\ call \in Calls /\ ResponsesTypeOK
         /\ billed \in [events : Nat, tokens : Nat] /\ shown = NotShown /\ Queued
         /\ status \in {0, 200} /\ chatRan = <<>> /\ Used = total
         /\ call.key => LoopBill
         /\ \A k \in DOMAIN out : Final(out[k]) => out[k].usage = total
         /\ \A k \in DOMAIN queue : Final(queue[k]) => queue[k].usage = total
         /\ SaidFinal => step = "finish" \/ (step = "stream" /\ ~MoreEvents /\ ~hadTool /\ public = <<>>)
         /\ step \in {"await", "process"} => queue = <<>>
<1>1. call.kind = "responses" /\ call \in Calls /\ ChatInit /\ status \in {0, 200}
      /\ (step \in {"await", "process"} => queue = <<>>)
  BY DEF IInv, Ownership, Beginning, LoopSteps
<1>2. chatRan = <<>> /\ Used = total
  BY <1>1 DEF ChatInit, Used
<1>3. call.key => LoopBill
  BY <1>1 DEF IInv, UsedIsBilled, LoopBill, Ran
<1>4. /\ shown = NotShown
      /\ \A k \in DOMAIN out : Final(out[k]) => out[k].usage = total
      /\ \A k \in DOMAIN queue : Final(queue[k]) => queue[k].usage = total
      /\ SaidFinal => step = "finish" \/ (step = "stream" /\ ~MoreEvents /\ ~hadTool /\ public = <<>>)
  BY <1>2 DEF IInv, FinalIsTotal, SaidFinal, LoopSteps
<1>5. Queued /\ ResponsesTypeOK /\ billed \in [events : Nat, tokens : Nat]
  BY DEF IInv
<1>6. QED
  BY <1>1, <1>2, <1>3, <1>4, <1>5

\* A step that says nothing final and counts nothing.
LEMMA LoopGoesOn ==
  ASSUME IInv, step \in LoopSteps, UNCHANGED <<call, billed, shown, total, chatRan>>,
         step' \in LoopSteps \cup {"failed", "done"}, queue' = <<>>, Ran' => Ran,
         SaidFinal => step' \in {"finish", "failed", "done"},
         out' \in Seq(Range(out')),
         \A k \in DOMAIN out' : \/ k \in DOMAIN out /\ out'[k] = out[k]
                               \/ out'[k].type \in {"error", "forwarded"}
  PROVE  FinalIsTotal' /\ UsedIsBilled' /\ Queued'
<1>1. /\ call.kind = "responses" /\ shown' = NotShown /\ call'.kind = "responses"
      /\ \A k \in DOMAIN out' : Final(out'[k]) => out'[k].usage = total' /\ SaidFinal
  BY LoopAtWork DEF Final, SaidFinal
<1>2. FinalIsTotal'
  BY <1>1 DEF FinalIsTotal, Used, LoopSteps
<1>3. call'.key => LoopBill'
  BY LoopAtWork DEF LoopBill
<1>4. UsedIsBilled'
  BY <1>1, <1>3, LoopAtWork DEF UsedIsBilled, LoopBill, Ran
<1>5. QED
  BY <1>2, <1>4, EmptySeq DEF Queued

\* The parts of the invariant that a step of the loop may disturb.
LoopAnswers ==
  /\ billed \in [events : Nat, tokens : Nat] /\ ResponsesTypeOK
  /\ StreamPlace /\ Beginning /\ NothingCounted
  /\ FinalIsTotal /\ UsedIsBilled /\ Queued

LEMMA StepsOfHop ==
  ASSUME IInv, UNCHANGED <<planVars, chatVars>>, InvokeHop \/ TooManyHops \/ HopFails
  PROVE  LoopAnswers' /\ step \in LoopSteps /\ step' \in LoopSteps \cup {"failed", "done"}
         /\ call' = call /\ step' \notin {"stream", "finish", "panicked"} /\ queue' = <<>>
<1>0. chatRan' = chatRan /\ ResponsesTypeOK /\ Beginning /\ NothingCounted
  BY DEF IInv, chatVars
<1>1. CASE InvokeHop
  <2>1. /\ step = "send" /\ step \in LoopSteps /\ step' = "await" /\ queue = <<>> /\ queue' = <<>>
        /\ hop' = hop + 1 /\ hop < MaxHops /\ UNCHANGED <<call, status, out, shown, billed>>
        /\ UNCHANGED <<reply, at, part, hadTool, known, completed, fresh>>
        /\ UNCHANGED <<input, public, total, sequence, executed, reported>>
    BY <1>1 DEF InvokeHop, clientVars, hopVars, LoopSteps
  <2>2. ResponsesTypeOK'
    BY <1>0, <2>1, RepliesAssumption DEF ResponsesTypeOK
  <2>3. StreamPlace' /\ Beginning' /\ NothingCounted'
    BY <1>0, <2>1 DEF StreamPlace, Beginning, NothingCounted, LoopSteps, Begun
  <2>4. FinalIsTotal' /\ UsedIsBilled' /\ Queued'
    BY <1>0, <2>1, LoopGoesOn, LoopAtWork DEF LoopSteps, Ran, Queued
  <2>5. QED
    BY <2>1, <2>2, <2>3, <2>4, LoopAtWork DEF LoopAnswers, LoopSteps
<1>2. CASE TooManyHops
  <2>1. /\ step = "send" /\ step \in LoopSteps /\ step' = "failed" /\ queue' = <<>>
        /\ UNCHANGED <<call, status, out, shown, billed, responsesVars>>
    BY <1>2 DEF TooManyHops, ReturnError, clientVars, LoopSteps, responsesVars
  <2>2. UNCHANGED <<total, executed>> /\ ResponsesTypeOK'
    BY <1>0, <2>1, LoopKept DEF responsesVars, loopVars
  <2>3. StreamPlace' /\ Beginning' /\ NothingCounted'
    BY <1>0, <2>1 DEF StreamPlace, Beginning, NothingCounted, LoopSteps
  <2>4. FinalIsTotal' /\ UsedIsBilled' /\ Queued'
    BY <1>0, <2>1, <2>2, LoopGoesOn, LoopAtWork DEF Ran, Queued
  <2>5. QED
    BY <2>1, <2>2, <2>3, <2>4, LoopAtWork DEF LoopAnswers
<1>3. CASE HopFails
  <2>1. /\ step = "await" /\ step \in LoopSteps /\ step' \in {"failed", "done"}
        /\ UNCHANGED <<call, shown, billed, responsesVars>>
        /\ \/ step' = "failed" /\ UNCHANGED <<status, out>>
           \/ step' = "done" /\ Write(502, Written("error", <<>>, 0))
    BY <1>3 DEF HopFails, ReturnError, ApiError, clientVars, LoopSteps
  <2>2. UNCHANGED <<total, executed, queue>> /\ ResponsesTypeOK' /\ queue' = <<>>
    BY <1>0, <2>1, LoopKept, LoopAtWork DEF responsesVars, loopVars
  <2>3. /\ out' \in Seq(Range(out')) /\ status' \in {0, 200, 502}
        /\ (step' = "failed" => status' = status) /\ (step' = "done" => status' # 0)
        /\ \A k \in DOMAIN out' : \/ k \in DOMAIN out /\ out'[k] = out[k]
                                \/ out'[k].type \in {"error", "forwarded"}
    BY <2>1, OutGrows, LoopAtWork DEF Queued, Written
  <2>4. StreamPlace' /\ Beginning' /\ NothingCounted'
    BY <1>0, <2>1, <2>3 DEF StreamPlace, Beginning, NothingCounted, LoopSteps
  <2>5. FinalIsTotal' /\ UsedIsBilled' /\ Queued'
    BY <1>0, <2>1, <2>2, <2>3, LoopGoesOn, LoopAtWork DEF Ran
  <2>6. QED
    BY <2>1, <2>2, <2>4, <2>5, LoopAtWork DEF LoopAnswers
<1>4. QED
  BY <1>1, <1>2, <1>3

LEMMA StepsOfProcess ==
  ASSUME IInv, UNCHANGED <<planVars, chatVars>>, KeepItem \/ ExecuteItem \/ ExecuteItemFails
  PROVE  LoopAnswers' /\ step \in LoopSteps /\ step' \in LoopSteps \cup {"failed", "done"}
         /\ call' = call /\ step' \notin {"stream", "finish", "panicked"} /\ queue' = <<>>
<1>0. chatRan' = chatRan /\ ResponsesTypeOK /\ Beginning /\ NothingCounted
  BY DEF IInv, chatVars
<1>1. CASE KeepItem \/ ExecuteItem
  <2>1. /\ step = "process" /\ step \in LoopSteps /\ at \in DOMAIN reply.items /\ at' = at + 1
        /\ UNCHANGED <<step, call, status, out, shown, billed>>
        /\ UNCHANGED <<hop, input, total, sequence, reported, queue, reply, part, hadTool, known, completed>>
        /\ public' = Append(public, reply.items[at])
        /\ fresh' = fresh \/ fresh' = Append(fresh, reply.items[at])
        /\ executed' = executed \/ executed' = Append(executed, reply.items[at])
    BY <1>1 DEF KeepItem, ExecuteItem, sharedVars, clientVars, LoopSteps
  <2>2. reply.items \in Seq(ItemType) /\ reply.items[at] \in ItemType /\ reply.items # <<>>
    BY <1>0, <2>1 DEF ResponsesTypeOK
  <2>3. public' \in Seq(ItemType) /\ fresh' \in Seq(ItemType) /\ executed' \in Seq(ItemType) /\ public' # <<>>
    <3>1. public \in Seq(ItemType) /\ fresh \in Seq(ItemType) /\ executed \in Seq(ItemType)
      BY <1>0 DEF ResponsesTypeOK
    <3>2. \A s \in Seq(ItemType) : Append(s, reply.items[at]) \in Seq(ItemType)
                                  /\ Append(s, reply.items[at]) # <<>>
      BY <2>2, AppendProperties
    <3>3. QED
      BY <2>1, <3>1, <3>2
  <2>4. ResponsesTypeOK' /\ queue' = <<>>
    <3>1. at' \in Nat \ {0}
      BY <1>0, <2>1 DEF ResponsesTypeOK
    <3>2. QED
      BY <1>0, <2>1, <2>3, <3>1, LoopAtWork DEF ResponsesTypeOK
  <2>5. StreamPlace' /\ Beginning' /\ NothingCounted'
    BY <1>0, <2>1, <2>2, <2>3 DEF StreamPlace, Beginning, NothingCounted, LoopSteps, Begun
  <2>6. FinalIsTotal' /\ UsedIsBilled' /\ Queued'
    BY <1>0, <2>1, <2>2, <2>4, LoopGoesOn, LoopAtWork DEF Ran, Queued
  <2>7. QED
    BY <2>1, <2>4, <2>5, <2>6, LoopAtWork DEF LoopAnswers
<1>2. CASE ExecuteItemFails
  <2>1. /\ step = "process" /\ step \in LoopSteps /\ step' \in {"failed", "done"}
        /\ UNCHANGED <<call, shown, billed, responsesVars>>
        /\ \/ step' = "failed" /\ UNCHANGED <<status, out>>
           \/ step' = "done" /\ Write(502, Written("error", <<>>, 0))
    BY <1>2 DEF ExecuteItemFails, ReturnError, ApiError, clientVars, LoopSteps
  <2>2. UNCHANGED <<total, executed, queue>> /\ ResponsesTypeOK' /\ queue' = <<>>
    BY <1>0, <2>1, LoopKept, LoopAtWork DEF responsesVars, loopVars
  <2>3. /\ out' \in Seq(Range(out')) /\ status' \in {0, 200, 502}
        /\ (step' = "failed" => status' = status) /\ (step' = "done" => status' # 0)
        /\ \A k \in DOMAIN out' : \/ k \in DOMAIN out /\ out'[k] = out[k]
                                \/ out'[k].type \in {"error", "forwarded"}
    BY <2>1, OutGrows, LoopAtWork DEF Queued, Written
  <2>4. StreamPlace' /\ Beginning' /\ NothingCounted'
    BY <1>0, <2>1, <2>3 DEF StreamPlace, Beginning, NothingCounted, LoopSteps
  <2>5. FinalIsTotal' /\ UsedIsBilled' /\ Queued'
    BY <1>0, <2>1, <2>2, <2>3, LoopGoesOn, LoopAtWork DEF Ran
  <2>6. QED
    BY <2>1, <2>2, <2>4, <2>5, LoopAtWork DEF LoopAnswers
<1>3. QED
  BY <1>1, <1>2

LEMMA ReceiveAnswerStep ==
  ASSUME IInv, UNCHANGED <<planVars, chatVars>>, NEW r \in Replies, ReceiveAnswer(r)
  PROVE  LoopAnswers' /\ step \in LoopSteps /\ step' \in LoopSteps \cup {"failed", "done"}
         /\ call' = call /\ step' \notin {"stream", "finish", "panicked"} /\ queue' = <<>>
<1> DEFINE items == Received(r).items
<1>0. chatRan' = chatRan /\ latest' = latest /\ ResponsesTypeOK /\ Beginning /\ NothingCounted
  BY DEF IInv, chatVars
<1>1. /\ step = "await" /\ step \in LoopSteps /\ ~ call.stream /\ RecordUsage(r.usage)
      /\ total' = total + r.usage /\ reported' = reported + r.usage
      /\ UNCHANGED <<call, hop, input, public, queue, sequence, executed>>
  BY DEF ReceiveAnswer, AddUsage, LoopSteps
<1>2. hop \in Nat /\ r.usage \in Nat /\ items \in Seq(ItemType) /\ queue' = <<>> /\ total \in Nat
  BY <1>0, <1>1, ItemsReceived, LoopAtWork, RepliesAssumption DEF ResponsesTypeOK
<1> HIDE DEF items
<1>t. total' \in Nat /\ reported' \in Nat
  <2>1. total \in Nat /\ reported \in Nat
    BY <1>0 DEF ResponsesTypeOK
  <2>2. QED
    BY <1>1, <1>2, <2>1
<1>3. /\ billed' \in [events : Nat, tokens : Nat]
      /\ call.key => /\ billed'.events >= 1
                     /\ call.model # "websearch" => billed'.tokens = total'
  BY <1>1, <1>2, LoopAtWork, RecordBills DEF LoopBill
<1>4. (\A k \in DOMAIN out : ~ Final(out[k])) /\ call'.kind = "responses" /\ chatRan' = <<>>
      /\ shown = NotShown
  BY <1>0, <1>1, LoopAtWork DEF SaidFinal
<1>5. CASE step' = "done"
  <2>1. PICK code, w :
          /\ code \in Statuses /\ Write(code, w)
          /\ w.type \in {"error", "forwarded"} \/ (w.type = "answer" /\ w.usage = total')
          /\ shown' = NotShown \/ shown' = total'
          /\ UNCHANGED hopVars
    <3>1. CASE r.status = "error"
      BY <1>4, <3>1 DEF ReceiveAnswer, Written, Statuses
    <3>2. CASE r.status = "garbled"
      BY <1>4, <3>2 DEF ReceiveAnswer, Written, ApiError, Statuses
    <3>3. CASE r.status \notin {"error", "garbled"}
      <4>1. r.status = "ok" /\ public = <<>> /\ ~ HasTool(items)
        BY <1>5, <3>3 DEF ReceiveAnswer, ProcessItems, items
      <4>2. total' = r.usage
        BY <1>0, <1>1, <1>2, <4>1 DEF NothingCounted
      <4>3. /\ ShowUsage(total') /\ Write(200, Written("answer", items, r.usage)) /\ UNCHANGED hopVars
        BY <3>3, <4>1 DEF ReceiveAnswer, items
      <4>4. Written("answer", items, r.usage).type = "answer" /\ Written("answer", items, r.usage).usage = total'
        BY <4>2 DEF Written
      <4>5. QED
        BY <1>4, <4>3, <4>4 DEF ShowUsage, Statuses
    <3>4. QED
      BY <3>1, <3>2, <3>3
  <2>2. /\ out' \in Seq(Range(out')) /\ status' \in Statuses
        /\ \A k \in DOMAIN out' :
             \/ k \in DOMAIN out /\ out'[k] = out[k]
             \/ out'[k].type \in {"error", "forwarded"}
             \/ out'[k].type = "answer" /\ out'[k].usage = total'
    BY <1>1, <2>1, OutGrows, LoopAtWork, SMTT(30) DEF Statuses
  <2>3. ResponsesTypeOK'
    BY <1>0, <1>1, <1>t, <2>1 DEF ResponsesTypeOK, hopVars
  <2>4. StreamPlace' /\ Beginning' /\ NothingCounted'
    BY <1>5, <2>2 DEF StreamPlace, Beginning, NothingCounted, LoopSteps, Statuses
  <2>5. FinalIsTotal' /\ Queued'
    BY <1>2, <1>4, <1>5, <2>1, <2>2, EmptySeq DEF FinalIsTotal, Final, Used, Queued
  <2>6. UsedIsBilled'
    BY <1>1, <1>3, <1>4, <1>5, <2>2 DEF UsedIsBilled
  <2>7. QED
    BY <1>1, <1>2, <1>3, <1>5, <2>3, <2>4, <2>5, <2>6 DEF LoopAnswers
<1>6. CASE step' # "done"
  <2>1. /\ ~ (r.status = "ok" /\ public = <<>> /\ ~ HasTool(items))
        /\ ProcessItems(items) /\ UNCHANGED <<status, out, shown, hadTool, known, completed>>
    BY <1>6 DEF ReceiveAnswer, clientVars, items
  <2>2. /\ step' = "process" /\ at' = 1 /\ part' = 1 /\ fresh' = <<>> /\ reply' = [reply EXCEPT !.items = items]
    BY <2>1 DEF ProcessItems
  <2>3. reply' \in [items : Seq(ItemType), usage : Nat, ending : {"completed", "incomplete"}]
        /\ reply'.items = items
    BY <1>0, <1>2, <2>2 DEF ResponsesTypeOK
  <2>4. ResponsesTypeOK'
    BY <1>0, <1>1, <1>t, <2>1, <2>2, <2>3 DEF ResponsesTypeOK
  <2>5. r.status = "ok"
    BY <2>1, <1>6, RepliesAssumption DEF ReceiveAnswer, items
  <2>6. public = <<>> => items # <<>>
    BY <2>1, <2>5 DEF HasTool
  <2>7. StreamPlace' /\ Beginning' /\ NothingCounted'
    BY <1>0, <1>1, <2>1, <2>2, <2>3, <2>6 DEF StreamPlace, Beginning, NothingCounted, LoopSteps
  <2>8. FinalIsTotal' /\ Queued'
    BY <1>1, <1>2, <1>4, <2>1, <2>2, EmptySeq, LoopAtWork DEF FinalIsTotal, Queued
  <2>9. UsedIsBilled'
    BY <1>1, <1>3, <1>4, <2>1, <2>2, LoopAtWork DEF UsedIsBilled
  <2>10. QED
    BY <1>1, <1>2, <1>3, <2>2, <2>4, <2>7, <2>8, <2>9 DEF LoopAnswers, LoopSteps
<1>7. QED
  BY <1>5, <1>6

LEMMA SettleAnswerStep ==
  ASSUME IInv, UNCHANGED <<planVars, chatVars>>, SettleAnswer
  PROVE  LoopAnswers' /\ step \in LoopSteps /\ step' \in LoopSteps \cup {"failed", "done"}
         /\ call' = call /\ step' \notin {"stream", "finish", "panicked"} /\ queue' = <<>>
<1>0. chatRan' = chatRan /\ latest' = latest /\ ResponsesTypeOK /\ Beginning /\ NothingCounted
  BY DEF IInv, chatVars
<1>1. /\ step = "process" /\ step \in LoopSteps /\ ~ call.stream /\ at > Len(reply.items)
      /\ UNCHANGED <<call, billed, queue, reply, at, part, hadTool, known, completed, fresh>>
      /\ UNCHANGED <<hop, public, total, sequence, executed, reported>>
  BY DEF SettleAnswer, LoopSteps, hopVars
<1>2. /\ queue' = <<>> /\ call'.kind = "responses" /\ chatRan' = <<>> /\ shown = NotShown
      /\ (\A k \in DOMAIN out : ~ Final(out[k]))
      /\ call.key => /\ billed.events >= 1
                     /\ call.model # "websearch" => billed.tokens = total
  BY <1>0, <1>1, LoopAtWork DEF SaidFinal, LoopBill, Ran
<1>3. CASE step' = "done"
  <2>1. /\ Write(200, Written("answer", public, total)) /\ input' = input
        /\ shown' = NotShown \/ shown' = total
    BY <1>2, <1>3 DEF SettleAnswer, ShowUsage
  <2>2. /\ out' \in Seq(Range(out')) /\ status' \in Statuses
        /\ \A k \in DOMAIN out' :
             \/ k \in DOMAIN out /\ out'[k] = out[k]
             \/ out'[k].type = "answer" /\ out'[k].usage = total
    BY <1>1, <2>1, OutGrows, LoopAtWork DEF Statuses, Written
  <2>3. ResponsesTypeOK'
    BY <1>0, <1>1, <2>1 DEF ResponsesTypeOK
  <2>4. StreamPlace' /\ Beginning' /\ NothingCounted'
    BY <1>3, <2>2 DEF StreamPlace, Beginning, NothingCounted, LoopSteps, Statuses
  <2>5. FinalIsTotal' /\ Queued'
    BY <1>1, <1>2, <1>3, <2>1, <2>2, EmptySeq DEF FinalIsTotal, Final, Used, Queued
  <2>6. UsedIsBilled'
    BY <1>1, <1>2, <1>3, <2>2 DEF UsedIsBilled
  <2>7. QED
    BY <1>1, <1>2, <1>3, <2>3, <2>4, <2>5, <2>6, LoopAtWork DEF LoopAnswers
<1>4. CASE step' # "done"
  <2>1. step' = "send" /\ UNCHANGED <<status, out, shown>> /\ input' = Replayed
    BY <1>4 DEF SettleAnswer, clientVars
  <2>2. ResponsesTypeOK'
    BY <1>0, <1>1, <2>1, ReplayedType DEF ResponsesTypeOK
  <2>3. Len(reply.items) \in Nat /\ (reply.items # <<>> => Len(reply.items) > 0)
    BY <1>0, EmptySeq DEF ResponsesTypeOK
  <2>4. StreamPlace' /\ Beginning' /\ NothingCounted'
    BY <1>0, <1>1, <2>1, <2>3 DEF StreamPlace, Beginning, NothingCounted, LoopSteps
  <2>5. FinalIsTotal' /\ UsedIsBilled' /\ Queued'
    <3>1. ~ SaidFinal
      BY <1>1, LoopAtWork DEF SaidFinal
    <3>2. QED
      BY <1>0, <1>1, <1>2, <2>1, <3>1, LoopGoesOn, LoopAtWork DEF Ran, Queued, LoopSteps
  <2>6. QED
    BY <1>1, <1>2, <2>1, <2>2, <2>4, <2>5, LoopAtWork DEF LoopAnswers, LoopSteps
<1>5. QED
  BY <1>3, <1>4

LEMMA ReceiveStreamStep ==
  ASSUME IInv, UNCHANGED <<planVars, chatVars>>, NEW r \in Replies, ReceiveStream(r)
  PROVE  LoopAnswers' /\ step \in LoopSteps /\ step' \in {"stream", "done"} /\ call.stream
         /\ call' = call /\ queue' = <<>>
<1>0. chatRan' = chatRan /\ ResponsesTypeOK /\ Beginning /\ NothingCounted
  BY DEF IInv, chatVars
<1>1. /\ step = "await" /\ step \in LoopSteps /\ call.stream
      /\ UNCHANGED <<call, shown, billed, hop, input, public, total, sequence, executed, reported, queue>>
  BY DEF ReceiveStream, LoopSteps, loopVars
<1>2. queue' = <<>> /\ ~ SaidFinal /\ hop \in Nat
  BY <1>0, <1>1, LoopAtWork, RepliesAssumption DEF ResponsesTypeOK
<1>3. CASE r.status = "error"
  <2>1. /\ step' = "done" /\ UNCHANGED <<reply, at, part, hadTool, known, completed, fresh>>
        /\ Write(500, Written("forwarded", <<>>, 0))
    BY <1>3 DEF ReceiveStream, hopVars
  <2>2. /\ out' \in Seq(Range(out')) /\ status' \in Statuses
        /\ \A k \in DOMAIN out' : \/ k \in DOMAIN out /\ out'[k] = out[k]
                                \/ out'[k].type \in {"error", "forwarded"}
    BY <1>1, <2>1, OutGrows, LoopAtWork DEF Statuses, Written
  <2>3. ResponsesTypeOK'
    BY <1>0, <1>1, <2>1 DEF ResponsesTypeOK
  <2>4. StreamPlace' /\ Beginning' /\ NothingCounted'
    BY <2>1, <2>2 DEF StreamPlace, Beginning, NothingCounted, LoopSteps, Statuses
  <2>5. FinalIsTotal' /\ UsedIsBilled' /\ Queued'
    BY <1>0, <1>1, <1>2, <2>1, <2>2, LoopGoesOn, LoopAtWork DEF Ran
  <2>6. QED
    BY <1>1, <1>2, <2>1, <2>3, <2>4, <2>5, LoopAtWork DEF LoopAnswers
<1>4. CASE r.status # "error"
  <2>1. /\ step' = "stream" /\ reply' = Received(r) /\ at' = 1 /\ part' = 1 /\ fresh' = <<>>
        /\ hadTool' = FALSE /\ known' = {} /\ completed' = FALSE /\ UNCHANGED <<status, out>>
    BY <1>4 DEF ReceiveStream, clientVars
  <2>2. reply' \in [items : Seq(ItemType), usage : Nat, ending : {"completed", "incomplete"}]
        /\ Len(reply'.items) \in Nat
    BY <1>2, <2>1, ItemsReceived
  <2>8. /\ step' = "stream" /\ at' = 1 /\ part' = 1 /\ fresh' = <<>>
        /\ hadTool' = FALSE /\ known' = {} /\ completed' = FALSE
    BY <2>1
  <2>3. ResponsesTypeOK'
    <3>1. /\ at' \in Nat \ {0} /\ part' \in 1..4
          /\ known' \subseteq ItemType /\ fresh' \in Seq(ItemType)
      BY <2>8, EmptySeq
    <3>2. hadTool' \in BOOLEAN /\ completed' \in BOOLEAN
      BY <2>8, Zenon
    <3>3. /\ hop' \in 0..MaxHops /\ input' \in Seq(ItemType) /\ public' \in Seq(ItemType)
          /\ total' \in Nat /\ sequence' \in Nat /\ executed' \in Seq(ItemType) /\ reported' \in Nat
      BY <1>0, <1>1 DEF ResponsesTypeOK
    <3>4. QED
      BY <2>2, <3>1, <3>2, <3>3 DEF ResponsesTypeOK
  <2>4. StreamPlace'
    <3>1. \A item : Len(ItemEvents(item)) \in {1, 4}
      BY DEF ItemEvents
    <3>2. part' \in 1..(IF InItems' THEN Len(ItemEvents(reply'.items[at'])) ELSE 1)
      BY <2>8, <3>1
    <3>3. QED
      BY <2>2, <2>8, <3>2 DEF StreamPlace
  <2>5. Beginning' /\ NothingCounted'
    BY <1>0, <1>1, <2>1, <2>2 DEF Beginning, NothingCounted, LoopSteps, Begun, MoreEvents
  <2>6. FinalIsTotal' /\ UsedIsBilled' /\ Queued'
    BY <1>0, <1>1, <1>2, <2>1, LoopGoesOn, LoopAtWork DEF Ran, Queued, LoopSteps
  <2>7. QED
    BY <1>1, <1>2, <2>1, <2>3, <2>4, <2>5, <2>6, LoopAtWork DEF LoopAnswers, LoopSteps
<1>5. QED
  BY <1>3, <1>4

LEMMA StreamBreaksStep ==
  ASSUME IInv, UNCHANGED <<planVars, chatVars>>, StreamBreaks
  PROVE  LoopAnswers' /\ step \in LoopSteps /\ step' = "failed" /\ call' = call /\ queue' = <<>>
<1>0. chatRan' = chatRan /\ ResponsesTypeOK /\ Beginning /\ Ownership
  BY DEF IInv, chatVars
<1>1. /\ step \in LoopSteps /\ step' = "failed" /\ queue' = <<>>
      /\ UNCHANGED <<call, status, out, shown, billed>>
      /\ UNCHANGED <<reply, at, part, hadTool, known, completed, fresh>>
      /\ UNCHANGED <<hop, input, public, total, sequence, executed, reported>>
  BY <1>0 DEF StreamBreaks, ReturnError, clientVars, hopVars, loopVars, LoopSteps, Ownership
<1>2. ResponsesTypeOK'
  BY <1>0, <1>1 DEF ResponsesTypeOK
<1>3. StreamPlace' /\ Beginning' /\ NothingCounted'
  BY <1>0, <1>1, LoopAtWork DEF StreamPlace, Beginning, NothingCounted, LoopSteps
<1>4. FinalIsTotal' /\ UsedIsBilled' /\ Queued'
  BY <1>0, <1>1, LoopGoesOn, LoopAtWork DEF Ran, Queued
<1>5. QED
  BY <1>1, <1>2, <1>3, <1>4, LoopAtWork DEF LoopAnswers

LEMMA EndHopStep ==
  ASSUME IInv, UNCHANGED <<planVars, chatVars>>, EndHop
  PROVE  LoopAnswers' /\ step \in LoopSteps /\ step' = "process" /\ call' = call /\ queue' = <<>>
<1> DEFINE items == IF completed THEN reply.items ELSE <<>>
<1>0. chatRan' = chatRan /\ ResponsesTypeOK /\ Beginning /\ NothingCounted /\ StreamPlace /\ Ownership
  BY DEF IInv, chatVars
<1>1. /\ step = "stream" /\ step \in LoopSteps /\ step' = "process" /\ queue = <<>> /\ queue' = <<>>
      /\ ~ MoreEvents /\ hadTool /\ at' = 1 /\ part' = 1 /\ fresh' = <<>>
      /\ reply' = [reply EXCEPT !.items = items] /\ call.stream
      /\ UNCHANGED <<call, status, out, shown, billed, hadTool, known, completed>>
      /\ UNCHANGED <<hop, input, public, total, sequence, executed, reported>>
  BY <1>0 DEF EndHop, ProcessItems, clientVars, loopVars, LoopSteps, Ownership
<1>2. reply.items \in Seq(ItemType) /\ items \in Seq(ItemType) /\ reply.items # <<>>
  BY <1>0, <1>1, EmptySeq DEF ResponsesTypeOK, StreamPlace
<1>3. reply' \in [items : Seq(ItemType), usage : Nat, ending : {"completed", "incomplete"}]
      /\ reply'.items = items
  BY <1>0, <1>1, <1>2 DEF ResponsesTypeOK
<1>4. status # 0
  <2>1. Len(reply.items) \in Nat /\ Len(reply.items) > 0
    BY <1>2, EmptySeq
  <2>2. at > 1
    BY <1>0, <1>1, <2>1 DEF MoreEvents, ResponsesTypeOK
  <2>3. QED
    BY <1>0, <1>1, <1>2, <2>2 DEF Beginning, Begun
<1>5. ResponsesTypeOK'
  BY <1>0, <1>1, <1>3, EmptySeq DEF ResponsesTypeOK
<1>6. StreamPlace' /\ Beginning' /\ NothingCounted'
  BY <1>0, <1>1, <1>2, <1>3, <1>4 DEF StreamPlace, Beginning, NothingCounted, LoopSteps, Begun
<1>7. FinalIsTotal' /\ UsedIsBilled' /\ Queued'
  <2>1. ~ SaidFinal
    BY <1>1, LoopAtWork DEF SaidFinal
  <2>2. Ran' => Ran
    BY <1>1, <1>3 DEF Ran
  <2>3. QED
    BY <1>0, <1>1, <2>1, <2>2, LoopGoesOn, LoopAtWork DEF Queued, LoopSteps
<1>8. QED
  BY <1>1, <1>5, <1>6, <1>7, LoopAtWork DEF LoopAnswers

LEMMA WriteEventStep ==
  ASSUME IInv, UNCHANGED <<planVars, chatVars>>, WriteEvent
  PROVE  LoopAnswers' /\ step \in {"stream", "send", "finish"} /\ step' = step
         /\ call' = call /\ call.stream
<1>0. /\ chatRan' = chatRan /\ ResponsesTypeOK /\ Beginning /\ Ownership /\ StreamPlace
      /\ NothingCounted /\ Queued
  BY DEF IInv, chatVars
<1>1. /\ queue # <<>> /\ queue' = Tail(queue) /\ sequence' = sequence + 1
      /\ UNCHANGED <<step, call, shown, billed>>
      /\ UNCHANGED <<reply, at, part, hadTool, known, completed, fresh>>
      /\ UNCHANGED <<hop, input, public, total, executed, reported>>
  BY DEF WriteEvent, hopVars
<1>2. step \in {"stream", "send", "finish"} /\ call.stream /\ step \in LoopSteps
  BY <1>0, <1>1 DEF Ownership, LoopSteps
<1>3. /\ Head(queue) \in EventType /\ queue' \in Seq(EventType)
      /\ Head(queue) = queue[1] /\ 1 \in DOMAIN queue
      /\ \A k \in DOMAIN queue' : k + 1 \in DOMAIN queue /\ queue'[k] = queue[k + 1]
  BY <1>0, <1>1 DEF Queued
<1> DEFINE event == [Head(queue) EXCEPT !.n = sequence]
<1>4. event.type = queue[1].type /\ event.usage = queue[1].usage /\ event.type \notin {"answer", "done"}
  BY <1>3 DEF EventType
<1>5. Write(200, event)
  BY DEF WriteEvent
<1> HIDE DEF event
<1>6. /\ out' \in Seq(Range(out')) /\ status' = (IF status = 0 THEN 200 ELSE status)
      /\ \A k \in DOMAIN out' : (k \in DOMAIN out /\ out'[k] = out[k]) \/ out'[k] = event
  BY <1>0, <1>5, OutGrows
<1>7. ResponsesTypeOK'
  <2>1. sequence' \in Nat
    BY <1>0, <1>1 DEF ResponsesTypeOK
  <2>2. QED
    BY <1>0, <1>1, <2>1 DEF ResponsesTypeOK
<1>8. status' = 200
  BY <1>2, <1>6, LoopAtWork
<1>9. StreamPlace' /\ NothingCounted'
  BY <1>0, <1>1 DEF StreamPlace, NothingCounted, MoreEvents, InItems
<1>10. Beginning'
  BY <1>1, <1>2, <1>8 DEF Beginning, Begun, LoopSteps
<1>11. FinalIsTotal'
  <2>1. /\ \A k \in DOMAIN out' : Final(out'[k]) => out'[k].usage = total /\ SaidFinal
        /\ \A k \in DOMAIN queue' : Final(queue'[k]) => queue'[k].usage = total /\ SaidFinal
    BY <1>2, <1>3, <1>4, <1>6, LoopAtWork DEF Final, SaidFinal
  <2>2. SaidFinal => step = "finish" \/ (step = "stream" /\ ~MoreEvents /\ ~hadTool /\ public = <<>>)
    BY <1>2, LoopAtWork
  <2>3. Used' = total' /\ total' = total /\ shown' = NotShown /\ call'.kind = "responses" /\ (MoreEvents' <=> MoreEvents)
    BY <1>1, <1>2, LoopAtWork DEF Used, MoreEvents
  <2>4. QED
    BY <1>1, <1>2, <2>1, <2>2, <2>3 DEF FinalIsTotal
<1>12. UsedIsBilled'
  <2>1. call'.key => LoopBill'
    BY <1>1, <1>2, <1>4, <1>6, LoopAtWork DEF LoopBill, Ran
  <2>2. QED
    BY <1>0, <1>1, <1>2, <2>1, LoopAtWork DEF UsedIsBilled, LoopBill, Ran
<1>13. Queued'
  BY <1>3, <1>6 DEF Queued
<1>14. QED
  BY <1>1, <1>2, <1>7, <1>9, <1>10, <1>11, <1>12, <1>13, LoopAtWork DEF LoopAnswers

LEMMA FinishStreamStep ==
  ASSUME IInv, UNCHANGED <<planVars, chatVars>>, FinishStream
  PROVE  LoopAnswers' /\ step \in LoopSteps /\ step' = "done" /\ call' = call /\ queue' = <<>>
<1>0. chatRan' = chatRan /\ Beginning
  BY DEF IInv, chatVars
<1>1. /\ step = "finish" /\ step \in LoopSteps /\ step' = "done" /\ queue = <<>>
      /\ UNCHANGED <<call, status, out, billed, responsesVars>>
      /\ shown' = NotShown \/ shown' = total
  BY LoopAtWork DEF FinishStream, ShowUsage, clientVars, LoopSteps
<1>2. ResponsesTypeOK' /\ UNCHANGED <<total, executed, queue>>
  BY <1>1, LoopKept, LoopAtWork DEF responsesVars, loopVars
<1>3. StreamPlace' /\ Beginning' /\ NothingCounted'
  BY <1>0, <1>1 DEF StreamPlace, Beginning, NothingCounted, LoopSteps, Begun
<1>4. FinalIsTotal'
  BY <1>1, <1>2, LoopAtWork DEF FinalIsTotal, Used
<1>5. UsedIsBilled'
  BY <1>0, <1>1, <1>2, LoopAtWork DEF UsedIsBilled, LoopBill, Ran
<1>6. Queued'
  BY <1>1, <1>2, LoopAtWork DEF Queued
<1>7. QED
  BY <1>1, <1>2, <1>3, <1>4, <1>5, <1>6, LoopAtWork DEF LoopAnswers

LEMMA EndAnswerStep ==
  ASSUME IInv, UNCHANGED <<planVars, chatVars>>, EndAnswer
  PROVE  LoopAnswers' /\ step \in LoopSteps /\ step' \in {"finish", "panicked"}
         /\ call' = call /\ call.stream /\ (step' = "panicked" => queue' = <<>>)
<1>0. chatRan' = chatRan /\ ResponsesTypeOK /\ Beginning /\ NothingCounted /\ Ownership
  BY DEF IInv, chatVars
<1>1. /\ step = "stream" /\ step \in LoopSteps /\ call.stream /\ queue = <<>> /\ ~ MoreEvents /\ ~ hadTool
      /\ UNCHANGED <<call, status, out, shown, billed>>
      /\ UNCHANGED <<reply, at, part, hadTool, known, completed, fresh>>
      /\ UNCHANGED <<hop, input, total, sequence, executed, reported>>
  BY <1>0 DEF EndAnswer, clientVars, hopVars, LoopSteps, Ownership
<1>2. CASE public # <<>> /\ completed
  <2>1. /\ step' = "finish" /\ public' = FinalOutput
        /\ queue' = <<Written("completed", public', total)>>
    BY <1>2 DEF EndAnswer
  <2>2. public' \in Seq(ItemType) /\ total \in Nat
    BY <1>0, <2>1 DEF ResponsesTypeOK, FinalOutput
  <2>3. Written("completed", public', total) \in EventType
        /\ Written("completed", public', total).usage = total
    BY <2>2 DEF Written, EventType
  <2>4. ResponsesTypeOK'
    BY <1>0, <1>1, <2>2 DEF ResponsesTypeOK
  <2>5. queue' \in Seq(EventType) /\ queue' # <<>> /\ \A k \in DOMAIN queue' : queue'[k].usage = total
    BY <2>1, <2>3
  <2>6. StreamPlace' /\ Beginning' /\ NothingCounted'
    BY <1>0, <1>1, <2>1, <2>5 DEF StreamPlace, Beginning, NothingCounted, LoopSteps, Begun
  <2>7. FinalIsTotal'
    BY <1>1, <2>1, <2>5, LoopAtWork DEF FinalIsTotal, Used
  <2>8. UsedIsBilled'
    BY <1>0, <1>1, <2>1, LoopAtWork DEF UsedIsBilled, LoopBill, Ran
  <2>9. QED
    BY <1>1, <2>1, <2>4, <2>5, <2>6, <2>7, <2>8, LoopAtWork DEF LoopAnswers, Queued
<1>3. CASE ~ (public # <<>> /\ completed)
  <2>1. /\ UNCHANGED <<public, queue>> /\ step' \in {"finish", "panicked"}
        /\ step' = "finish" <=> public = <<>>
    BY <1>3 DEF EndAnswer
  <2>2. ResponsesTypeOK'
    BY <1>0, <1>1, <2>1 DEF ResponsesTypeOK
  <2>3. StreamPlace' /\ Beginning' /\ NothingCounted'
    BY <1>0, <1>1, <2>1 DEF StreamPlace, Beginning, NothingCounted, LoopSteps, Begun
  <2>4. FinalIsTotal' /\ UsedIsBilled' /\ Queued'
    BY <1>0, <1>1, <2>1, LoopGoesOn, LoopAtWork DEF Ran, Queued, LoopSteps
  <2>5. QED
    BY <1>1, <2>1, <2>2, <2>3, <2>4, LoopAtWork DEF LoopAnswers
<1>4. QED
  BY <1>2, <1>3

LEMMA SettleStreamStep ==
  ASSUME IInv, UNCHANGED <<planVars, chatVars>>, SettleStream
  PROVE  LoopAnswers' /\ step \in LoopSteps /\ step' \in {"finish", "send"}
         /\ call' = call /\ call.stream
<1>0. chatRan' = chatRan /\ ResponsesTypeOK /\ Beginning /\ NothingCounted
  BY DEF IInv, chatVars
<1>1. /\ step = "process" /\ step \in LoopSteps /\ call.stream /\ at > Len(reply.items)
      /\ input' = Replayed /\ step' = IF HasUser(reply.items) THEN "finish" ELSE "send"
      /\ queue' = Announcements \o IF HasUser(reply.items) THEN <<Written("completed", public, total)>> ELSE <<>>
      /\ UNCHANGED <<call, status, out, shown, billed>>
      /\ UNCHANGED <<reply, at, part, hadTool, known, completed, fresh>>
      /\ UNCHANGED <<hop, public, total, sequence, executed, reported>>
  BY DEF SettleStream, clientVars, hopVars, LoopSteps
<1>2. ResponsesTypeOK'
  BY <1>0, <1>1, ReplayedType DEF ResponsesTypeOK
<1> DEFINE last == IF HasUser(reply.items) THEN <<Written("completed", public, total)>> ELSE <<>>
<1>3. Written("completed", public, total) \in EventType
      /\ Written("completed", public, total).usage = total
  BY <1>0 DEF Written, EventType, ResponsesTypeOK
<1>4. last \in Seq(EventType) /\ (\A k \in DOMAIN last : last[k].usage = total)
      /\ (HasUser(reply.items) <=> last # <<>>)
  BY <1>3
<1>5. queue' = Announcements \o last
  BY <1>1
<1> HIDE DEF last
<1>6. /\ queue' \in Seq(EventType) /\ (step' = "finish" => queue' # <<>>)
      /\ \A k \in DOMAIN queue' : Final(queue'[k]) => queue'[k].usage = total /\ step' = "finish"
  <2>1. Announcements \in Seq(EventType) /\ \A k \in DOMAIN Announcements : ~ Final(Announcements[k])
    BY <1>0, AnnouncementsType
  <2>2. step' = "finish" <=> last # <<>>
    BY <1>1, <1>4
  <2> DEFINE a == Announcements
  <2> HIDE DEF a
  <2>3. a \in Seq(EventType) /\ (\A k \in DOMAIN a : ~ Final(a[k])) /\ queue' = a \o last
    BY <1>5, <2>1 DEF a
  <2>4. /\ queue' \in Seq(EventType) /\ Len(queue') = Len(a) + Len(last)
        /\ Len(a) \in Nat /\ Len(last) \in Nat
        /\ DOMAIN queue' = 1..Len(a) + Len(last) /\ DOMAIN a = 1..Len(a) /\ DOMAIN last = 1..Len(last)
    BY <1>4, <2>3
  <2>5. ASSUME NEW k \in DOMAIN queue', Final(queue'[k])
        PROVE  queue'[k].usage = total /\ step' = "finish"
    <3>1. CASE k <= Len(a)
      <4>1. k \in DOMAIN a /\ queue'[k] = a[k]
        BY <1>4, <2>3, <2>4, <3>1
      <4>2. QED
        BY <2>3, <2>5, <4>1
    <3>2. CASE ~ (k <= Len(a))
      <4>1. k - Len(a) \in DOMAIN last /\ queue'[k] = last[k - Len(a)]
        BY <1>4, <2>3, <2>4, <3>2
      <4>2. QED
        BY <1>4, <2>2, <4>1
    <3>3. QED
      BY <3>1, <3>2
  <2>6. step' = "finish" => queue' # <<>>
    <3>1. last # <<>> => Len(last) > 0
      BY <1>4, EmptySeq
    <3>2. QED
      BY <2>2, <2>4, <3>1
  <2>7. QED
    BY <2>4, <2>5, <2>6
<1>8. public = <<>> => total = 0
  <2>1. Len(reply.items) \in Nat /\ (reply.items # <<>> => Len(reply.items) > 0)
    BY <1>0, EmptySeq DEF ResponsesTypeOK
  <2>2. QED
    BY <1>0, <1>1, <2>1 DEF NothingCounted
<1>9. StreamPlace' /\ Beginning' /\ NothingCounted'
  BY <1>0, <1>1, <1>6, <1>8, LoopAtWork DEF StreamPlace, Beginning, NothingCounted, LoopSteps, Begun
<1>10. FinalIsTotal'
  BY <1>1, <1>6, LoopAtWork DEF FinalIsTotal, Used, SaidFinal
<1>11. UsedIsBilled'
  BY <1>0, <1>1, LoopAtWork DEF UsedIsBilled, LoopBill, Ran
<1>12. QED
  BY <1>1, <1>2, <1>6, <1>9, <1>10, <1>11, LoopAtWork DEF LoopAnswers, Queued

\* The events of a hop, one after the other.
LEMMA NextEventIs ==
  ASSUME ResponsesTypeOK, StreamPlace, step = "stream", MoreEvents
  PROVE  /\ NextEvent.item \in ItemType
         /\ InItems =>
              /\ reply.items # <<>>
              /\ \/ Len(ItemEvents(reply.items[at])) = 1 /\ part = 1 /\ NextEvent.type = "other"
                 \/ Len(ItemEvents(reply.items[at])) = 4 /\ part = 1 /\ NextEvent.type = "added"
                 \/ Len(ItemEvents(reply.items[at])) = 4 /\ part = 2 /\ NextEvent.type = "delta"
                 \/ Len(ItemEvents(reply.items[at])) = 4 /\ part = 3 /\ NextEvent.type = "arguments"
                 \/ Len(ItemEvents(reply.items[at])) = 4 /\ part = 4 /\ NextEvent.type = "done"
         /\ ~ InItems =>
              /\ at = Len(reply.items) + 1 /\ part = 1 /\ NextEvent.type = reply.ending
              /\ NextEvent.type \in {"completed", "incomplete"}
<1>1. /\ reply.items \in Seq(ItemType) /\ Len(reply.items) \in Nat /\ at \in Nat \ {0}
      /\ reply.ending \in {"completed", "incomplete"} /\ hop \in Nat
  BY RepliesAssumption DEF ResponsesTypeOK
<1>2. CASE InItems
  <2>1. at \in 1..Len(reply.items) /\ reply.items[at] \in ItemType
    BY <1>1, <1>2 DEF InItems
  <2>2. NextEvent = [type |-> ItemEvents(reply.items[at])[part], item |-> reply.items[at]]
    BY <1>2 DEF NextEvent
  <2>3. part \in 1..Len(ItemEvents(reply.items[at]))
    BY <1>2 DEF StreamPlace
  <2>4. CASE IsTool(reply.items[at])
    <3>1. ItemEvents(reply.items[at]) = <<"added", "delta", "arguments", "done">>
      BY <2>4 DEF ItemEvents
    <3>2. part \in {1, 2, 3, 4}
      BY <2>3, <3>1
    <3>3. QED
      BY <1>2, <2>1, <2>2, <3>1, <3>2
  <2>5. CASE ~ IsTool(reply.items[at])
    <3>1. ItemEvents(reply.items[at]) = <<"other">>
      BY <2>5 DEF ItemEvents
    <3>2. QED
      BY <1>2, <2>1, <2>2, <2>3, <3>1
  <2>6. QED
    BY <2>4, <2>5
<1>3. CASE ~ InItems
  <2>1. at = Len(reply.items) + 1 /\ part = 1
    BY <1>1, <1>3 DEF InItems, MoreEvents, StreamPlace
  <2>2. NextEvent = [type |-> reply.ending, item |-> Item(hop, 0, "none")]
    BY <1>3 DEF NextEvent
  <2>3. Item(hop, 0, "none") \in ItemType
    BY <1>1 DEF Item, ItemType
  <2>4. QED
    BY <1>1, <1>3, <2>1, <2>2, <2>3
<1>4. QED
  BY <1>2, <1>3

\* What an event becomes, and which of them say something final.
LEMMA TranslatedIs ==
  ASSUME ResponsesTypeOK, NEW event, event.item \in ItemType,
         event.type \in {"added", "delta", "arguments", "done", "other", "completed", "incomplete"}
  PROVE  /\ Translated(event) \in Seq(EventType)
         /\ event.type \in {"arguments", "other", "incomplete"} => Translated(event) # <<>>
         /\ event.type = "completed" /\ ~ hadTool /\ public = <<>> => Translated(event) # <<>>
         /\ \A k \in DOMAIN Translated(event) : Final(Translated(event)[k]) =>
              /\ event.type = "completed" /\ ~ hadTool /\ public = <<>>
              /\ Translated(event)[k].usage = reply.usage
              /\ Translated(event)[k].items = reply.items
<1>0. ASSUME NEW type \in EventTypes \ {"completed"}
      PROVE  Event(type, event.item) \in EventType /\ ~ Final(Event(type, event.item))
  BY EventOfType DEF EventTypes, Final
<1> DEFINE Quiet(s) == s \in Seq(EventType) /\ \A k \in DOMAIN s : ~ Final(s[k])
<1>s. ASSUME NEW e \in EventType, ~ Final(e), NEW f \in EventType, ~ Final(f)
      PROVE  Quiet(<<>>) /\ Quiet(<<e>>) /\ Quiet(<<e, f>>) /\ <<e>> # <<>> /\ <<e, f>> # <<>>
  BY <1>s
<1> HIDE DEF Quiet
<1>t. ASSUME NEW type \in EventTypes \ {"completed"}
      PROVE  Quiet(<<>>) /\ Quiet(<<Event(type, event.item)>>) /\ <<Event(type, event.item)>> # <<>>
  BY <1>0, <1>s
<1>1. CASE event.type = "added"
  <2>1. Translated(event) = <<>> \/ Translated(event) = <<Event("call_added", event.item)>>
    BY <1>1 DEF Translated
  <2>2. Quiet(Translated(event))
    BY <1>t, <2>1 DEF EventTypes
  <2>3. QED
    BY <1>1, <2>2 DEF Quiet
<1>2. CASE event.type \in {"delta", "other", "incomplete"}
  <2>1. /\ \/ Translated(event) = <<>> \/ Translated(event) = <<Event("other", event.item)>>
           \/ Translated(event) = <<Event("incomplete", event.item)>>
        /\ event.type \in {"other", "incomplete"} => Translated(event) = <<Event(event.type, event.item)>>
    BY <1>2 DEF Translated
  <2>2. Quiet(Translated(event))
    <3>1. /\ Quiet(<<>>) /\ Quiet(<<Event("other", event.item)>>)
          /\ Quiet(<<Event("incomplete", event.item)>>)
      BY <1>t DEF EventTypes
    <3>2. QED
      BY <2>1, <3>1
  <2>3. event.type \in {"other", "incomplete"} => Translated(event) # <<>>
    BY <1>t, <2>1 DEF EventTypes
  <2>4. QED
    BY <1>2, <2>2, <2>3 DEF Quiet
<1>3. CASE event.type = "arguments"
  <2>1. \/ Translated(event) = <<Event("other", event.item)>>
        \/ Translated(event) = <<Event("code_delta", event.item), Event("code_done", event.item)>>
    BY <1>3 DEF Translated
  <2>2. Quiet(Translated(event)) /\ Translated(event) # <<>>
    <3>1. /\ Event("other", event.item) \in EventType /\ ~ Final(Event("other", event.item))
          /\ Event("code_delta", event.item) \in EventType /\ ~ Final(Event("code_delta", event.item))
          /\ Event("code_done", event.item) \in EventType /\ ~ Final(Event("code_done", event.item))
      BY <1>0 DEF EventTypes
    <3>2. QED
      BY <1>s, <2>1, <3>1
  <2>3. QED
    BY <1>3, <2>2 DEF Quiet
<1>4. CASE event.type = "done"
  <2>1. Translated(event) = <<>>
    BY <1>4 DEF Translated
  <2>2. QED
    BY <1>4, <2>1
<1>5. CASE event.type = "completed"
  <2>1. Translated(event) = IF hadTool \/ public # <<>> THEN <<>>
                            ELSE <<Written("completed", reply.items, reply.usage)>>
    BY <1>5 DEF Translated
  <2>2. Written("completed", reply.items, reply.usage) \in EventType
        /\ Written("completed", reply.items, reply.usage).usage = reply.usage
        /\ Written("completed", reply.items, reply.usage).items = reply.items
    BY DEF ResponsesTypeOK, Written, EventType
  <2>3. QED
    BY <1>5, <2>1, <2>2
<1>6. QED
  BY <1>1, <1>2, <1>3, <1>4, <1>5

LEMMA ReadEventStep ==
  ASSUME IInv, UNCHANGED <<planVars, chatVars>>, ReadEvent
  PROVE  LoopAnswers' /\ step \in LoopSteps /\ step' = "stream" /\ call' = call /\ call.stream
<1> DEFINE event == NextEvent
           length == Len(ItemEvents(reply.items[at]))
<1>0. /\ chatRan' = chatRan /\ ResponsesTypeOK /\ Beginning /\ NothingCounted /\ StreamPlace
      /\ Ownership
  BY DEF IInv, chatVars
<1>1. /\ step = "stream" /\ step \in LoopSteps /\ call.stream /\ queue = <<>> /\ MoreEvents
      /\ UNCHANGED <<step, call, status, out, shown, hop, input, public, sequence, executed>>
      /\ UNCHANGED <<reply, fresh>>
      /\ queue' = Translated(event)
  BY <1>0 DEF ReadEvent, clientVars, LoopSteps, Ownership
<1>2. /\ hadTool' = (hadTool \/ event.type \in {"added", "done"} \/ event.item \in known)
      /\ known' = IF event.type = "added" /\ event.item.kind = "tool" THEN known \cup {event.item} ELSE known
      /\ completed' = (completed \/ event.type = "completed")
      /\ IF InItems /\ part < length THEN part' = part + 1 /\ at' = at ELSE part' = 1 /\ at' = at + 1
      /\ reported' = IF InItems THEN reported ELSE reported + reply.usage
      /\ IF event.type = "completed"
         THEN total' = total + reply.usage /\ RecordUsage(reply.usage)
         ELSE UNCHANGED <<total, billed>>
  BY DEF ReadEvent, AddUsage
<1>3. /\ event.item \in ItemType
      /\ InItems => /\ reply.items # <<>>
                    /\ \/ length = 1 /\ part = 1 /\ event.type = "other"
                       \/ length = 4 /\ part = 1 /\ event.type = "added"
                       \/ length = 4 /\ part = 2 /\ event.type = "delta"
                       \/ length = 4 /\ part = 3 /\ event.type = "arguments"
                       \/ length = 4 /\ part = 4 /\ event.type = "done"
      /\ ~ InItems => /\ at = Len(reply.items) + 1 /\ part = 1
                      /\ event.type \in {"completed", "incomplete"}
  BY <1>0, <1>1, NextEventIs
<1>4. /\ queue' \in Seq(EventType)
      /\ event.type \in {"arguments", "other", "incomplete"} => queue' # <<>>
      /\ event.type = "completed" /\ ~ hadTool /\ public = <<>> => queue' # <<>>
      /\ \A k \in DOMAIN queue' : Final(queue'[k]) =>
           /\ event.type = "completed" /\ ~ hadTool /\ public = <<>>
           /\ queue'[k].usage = reply.usage
  BY <1>0, <1>1, <1>3, TranslatedIs
<1> HIDE DEF event, length
<1>5. /\ Len(reply.items) \in Nat /\ at \in Nat \ {0} /\ reply.usage \in Nat /\ total \in Nat /\ reported \in Nat
      /\ hadTool \in BOOLEAN /\ completed \in BOOLEAN /\ known \subseteq ItemType
      /\ (reply.items # <<>> => Len(reply.items) > 0) /\ (reply.items = <<>> => Len(reply.items) = 0)
  BY <1>0, EmptySeq DEF ResponsesTypeOK
<1>6. ~ completed /\ (known # {} => hadTool) /\ (hadTool => reply.items # <<>>)
  BY <1>0, <1>1 DEF StreamPlace
<1>7. /\ InItems <=> at <= Len(reply.items)
      /\ InItems' <=> at' <= Len(reply.items)
      /\ MoreEvents' <=> at' <= Len(reply.items) + 1
  BY <1>1 DEF InItems, MoreEvents
<1>8. /\ at' \in Nat \ {0} /\ at' <= Len(reply.items) + 2 /\ part' \in 1..4
      /\ event.type = "completed" => at' = Len(reply.items) + 2 /\ ~ InItems
  BY <1>2, <1>3, <1>5, <1>7
<1>9. ResponsesTypeOK'
  <2>1. total' \in Nat /\ reported' \in Nat
    BY <1>2, <1>5
  <2>2. hadTool' \in BOOLEAN /\ completed' \in BOOLEAN
    BY <1>2
  <2>3. known' \subseteq ItemType
    BY <1>2, <1>3, <1>5
  <2>4. QED
    BY <1>0, <1>1, <1>8, <2>1, <2>2, <2>3 DEF ResponsesTypeOK
<1>10. StreamPlace'
  <2>1. part' \in 1..(IF InItems' THEN Len(ItemEvents(reply.items[at'])) ELSE 1)
    <3>1. CASE InItems /\ part < length
      BY <1>2, <1>3, <1>7, <3>1 DEF length
    <3>2. CASE ~ (InItems /\ part < length)
      <4>1. \A item : Len(ItemEvents(item)) \in {1, 4}
        BY DEF ItemEvents
      <4>2. QED
        BY <1>2, <3>2, <4>1
    <3>3. QED
      BY <3>1, <3>2
  <2>2. known' # {} => hadTool'
    BY <1>2, <1>6
  <2>3. hadTool' => reply'.items # <<>>
    BY <1>1, <1>2, <1>3, <1>6
  <2>4. completed' => ~ MoreEvents'
    BY <1>2, <1>5, <1>6, <1>7, <1>8
  <2>5. at' \in 1..Len(reply'.items) + 2
    BY <1>1, <1>5, <1>8
  <2>6. part' \in 1..(IF InItems' THEN Len(ItemEvents(reply'.items[at'])) ELSE 1)
    BY <1>1, <2>1
  <2>7. QED
    BY <2>2, <2>3, <2>4, <2>5, <2>6 DEF StreamPlace
<1>11. Beginning'
  <2>1. status \in {0, 200}
    BY <1>1, LoopAtWork
  <2>2. public # <<>> => status # 0
    BY <1>0, <1>1 DEF Beginning, Begun
  <2>3. part' = 4 \/ (at' > 1 /\ reply.items # <<>>) => Begun'
    <3>1. (part = 4 \/ (at > 1 /\ reply.items # <<>>)) => status # 0
      BY <1>0, <1>1 DEF Beginning, Begun
    <3>2. CASE InItems
      BY <1>1, <1>2, <1>3, <1>4, <1>5, <3>1, <3>2 DEF Begun
    <3>3. CASE ~ InItems
      BY <1>1, <1>2, <1>3, <1>5, <3>1, <3>3 DEF Begun
    <3>4. QED
      BY <3>2, <3>3
  <2>4. ~ MoreEvents' /\ public = <<>> /\ ~ hadTool' => Begun'
    BY <1>2, <1>3, <1>4, <1>5, <1>7 DEF Begun
  <2>5. QED
    BY <1>1, <2>1, <2>2, <2>3, <2>4 DEF Beginning, Begun, LoopSteps
<1>12. NothingCounted'
  <2>1. public = <<>> => total = 0
    BY <1>0, <1>1 DEF NothingCounted
  <2>2. event.type = "completed" => completed' /\ ~ MoreEvents'
    <3>1. event.type = "completed" => completed'
      BY <1>2
    <3>2. event.type = "completed" => ~ MoreEvents'
      BY <1>5, <1>7, <1>8
    <3>3. QED
      BY <3>1, <3>2
  <2>3. event.type # "completed" => total' = total
    BY <1>2
  <2>4. QED
    BY <1>1, <2>1, <2>2, <2>3 DEF NothingCounted
<1>13. FinalIsTotal'
  <2>1. \A k \in DOMAIN out : ~ Final(out[k])
    BY <1>1, LoopAtWork DEF SaidFinal
  <2>2. public = <<>> => total = 0
    BY <1>0, <1>1 DEF NothingCounted
  <2>3. \A k \in DOMAIN queue' : Final(queue'[k]) =>
          queue'[k].usage = total' /\ public = <<>> /\ ~ hadTool' /\ ~ MoreEvents'
    <3>1. event.type = "completed" /\ ~ hadTool => ~ hadTool' /\ ~ MoreEvents'
      BY <1>2, <1>5, <1>6, <1>7, <1>8
    <3>2. event.type = "completed" /\ public = <<>> => total' = reply.usage
      BY <1>2, <1>5, <2>2
    <3>3. QED
      BY <1>4, <3>1, <3>2
  <2>4. shown' = NotShown /\ call'.kind = "responses" /\ Used' = total'
    BY <1>1, LoopAtWork DEF Used
  <2>5. QED
    BY <1>1, <2>1, <2>3, <2>4 DEF FinalIsTotal
<1>14. billed' \in [events : Nat, tokens : Nat] /\ UsedIsBilled'
  <2>1. CASE event.type = "completed"
    <3>1. /\ billed' \in [events : Nat, tokens : Nat]
          /\ call.key => /\ billed'.events >= 1
                         /\ call.model # "websearch" => billed'.tokens = total'
      BY <1>1, <1>2, <1>5, <2>1, LoopAtWork, RecordBills DEF LoopBill
    <3>2. QED
      BY <1>0, <1>1, <3>1, LoopAtWork DEF UsedIsBilled
  <2>2. CASE event.type # "completed"
    <3>1. total' = total /\ billed' = billed /\ completed' = completed
      BY <1>2, <1>5, <2>2
    <3>2. QED
      BY <1>0, <1>1, <3>1, LoopAtWork DEF UsedIsBilled, LoopBill, Ran
  <2>3. QED
    BY <2>1, <2>2
<1>15. QED
  BY <1>1, <1>4, <1>9, <1>10, <1>11, <1>12, <1>13, <1>14, LoopAtWork DEF LoopAnswers, Queued

\* The invariant is kept by the loop: each step leaves the rest alone.
LEMMA LoopKeepsInv ==
  ASSUME IInv, Responses
  PROVE  IInv'
<1> SUFFICES /\ LoopAnswers' /\ call' = call /\ call.kind = "responses"
             /\ step' \in LoopSteps \cup {"failed", "done"}
             /\ step' \in {"stream", "finish", "panicked"} => call.stream
             /\ queue' # <<>> => step' \in {"stream", "send", "finish"} /\ call.stream
  BY LoopFrame DEF LoopAnswers, IInv
<1>0. ResponsesNext /\ UNCHANGED <<planVars, chatVars>>
  BY DEF Responses
<1>1. CASE InvokeHop \/ TooManyHops \/ HopFails
  BY <1>0, <1>1, StepsOfHop, LoopAtWork
<1>2. CASE KeepItem \/ ExecuteItem \/ ExecuteItemFails
  BY <1>0, <1>2, StepsOfProcess, LoopAtWork
<1>3. CASE \E r \in Replies : ReceiveAnswer(r)
  BY <1>0, <1>3, ReceiveAnswerStep, LoopAtWork
<1>4. CASE \E r \in Replies : ReceiveStream(r)
  BY <1>0, <1>4, ReceiveStreamStep, LoopAtWork DEF LoopSteps
<1>5. CASE SettleAnswer
  BY <1>0, <1>5, SettleAnswerStep, LoopAtWork
<1>6. CASE ReadEvent
  BY <1>0, <1>6, ReadEventStep, LoopAtWork DEF LoopSteps
<1>7. CASE WriteEvent
  BY <1>0, <1>7, WriteEventStep, LoopAtWork DEF LoopSteps
<1>8. CASE StreamBreaks
  BY <1>0, <1>8, StreamBreaksStep, LoopAtWork
<1>9. CASE EndAnswer
  BY <1>0, <1>9, EndAnswerStep, LoopAtWork DEF LoopSteps
<1>10. CASE EndHop
  BY <1>0, <1>10, EndHopStep, LoopAtWork DEF LoopSteps
<1>11. CASE SettleStream
  BY <1>0, <1>11, SettleStreamStep, LoopAtWork DEF LoopSteps
<1>12. CASE FinishStream
  BY <1>0, <1>12, FinishStreamStep, LoopAtWork
<1>13. QED
  BY <1>0, <1>1, <1>2, <1>3, <1>4, <1>5, <1>6, <1>7, <1>8, <1>9, <1>10, <1>11, <1>12
  DEF ResponsesNext

----------------------------------------------------------------------------
(* The theorems *)

LEMMA InvInit == Init => IInv
<1> SUFFICES ASSUME Init PROVE IInv
  OBVIOUS
<1>1. /\ SharedInit /\ PlanInit /\ ResponsesInit /\ ChatInit
      /\ step = "arrive" /\ call = NoCall /\ status = 0 /\ out = <<>> /\ shown = NotShown
      /\ billed = [events |-> 0, tokens |-> 0]
  BY DEF Init, SharedInit
<1>2. ResponsesTypeOK
  <2>1. input \in Seq(ItemType)
    BY <1>1 DEF ResponsesInit, Item, ItemType
  <2>2. reply \in [items : Seq(ItemType), usage : Nat, ending : {"completed", "incomplete"}]
    BY <1>1, EmptySeq DEF ResponsesInit, NoReply
  <2>3. hadTool \in BOOLEAN /\ completed \in BOOLEAN
    BY <1>1, Zenon DEF ResponsesInit
  <2>4. QED
    BY <1>1, <2>1, <2>2, <2>3, EmptySeq, RepliesAssumption DEF ResponsesInit, ResponsesTypeOK
<1>3. ChatTypeOK /\ Arriving
  <2>1. lastChunk \in BOOLEAN
    BY <1>1, Zenon DEF ChatInit
  <2>2. QED
    BY <1>1, <2>1, EmptySeq, CompletionsAssumption DEF ChatInit, ChatTypeOK, Arriving
<1>4. Ownership
  BY <1>1 DEF Ownership, PlanSteps, LoopSteps, ChatSteps, NoCall, Calls, ResponsesInit
<1>5. PlanReady
  <2>1. request \in RequestType /\ body = request /\ DOMAIN request = DOMAIN Dropped
    BY <1>1, RequestsAssumption DEF PlanInit, RequestType, Dropped
  <2>2. QED
    BY <1>1, <2>1 DEF PlanInit, PlanReady
<1>6. StreamPlace /\ Beginning /\ NothingCounted
  BY <1>1 DEF StreamPlace, Beginning, NothingCounted, LoopSteps
<1>7. FinalIsTotal /\ UsedIsBilled /\ Queued
  BY <1>1, EmptySeq DEF FinalIsTotal, UsedIsBilled, Queued, ResponsesInit, ChatInit, NoCall
<1>8. QED
  BY <1>1, <1>2, <1>3, <1>4, <1>5, <1>6, <1>7 DEF IInv

LEMMA InvStep == IInv /\ [Next]_vars => IInv'
<1> SUFFICES ASSUME IInv, [Next]_vars PROVE IInv'
  OBVIOUS
<1>1. CASE Plan
  BY <1>1, PlanKeepsInv
<1>2. CASE Responses
  BY <1>2, LoopKeepsInv
<1>3. CASE Chat
  BY <1>3, ChatKeepsInv
<1>4. CASE Report
  BY <1>4, ReportKeepsInv
<1>5. CASE UNCHANGED vars
  <2>1. /\ UNCHANGED <<step, call, status, out, shown, billed>>
        /\ UNCHANGED responsesVars /\ UNCHANGED chatVars
        /\ UNCHANGED <<request, body, target, bearer, wantsUsage>>
        /\ UNCHANGED <<hop, input, reply, at, part, hadTool, known, completed, fresh, public, total, queue,
                       sequence, executed, reported>>
        /\ UNCHANGED <<completion, arrived, finalUsage, chatRan, latest>>
    BY <1>5 DEF vars, sharedVars, clientVars, planVars, responsesVars, hopVars, loopVars, chatVars
  <2>2. ResponsesTypeOK' /\ ChatTypeOK' /\ (ResponsesInit => ResponsesInit') /\ (ChatInit => ChatInit')
    BY <2>1, LoopKept, ChatKept DEF IInv
  <2>3. Ownership' /\ PlanReady' /\ Arriving'
    BY <2>1, <2>2 DEF IInv, Ownership, PlanReady, Arriving
  <2>4. StreamPlace' /\ Beginning' /\ NothingCounted'
    BY <2>1 DEF IInv, StreamPlace, Beginning, NothingCounted, Begun, MoreEvents, InItems
  <2>5. FinalIsTotal' /\ UsedIsBilled' /\ Queued'
    BY <2>1 DEF IInv, FinalIsTotal, UsedIsBilled, Queued, Used, MoreEvents
  <2>6. QED
    BY <2>1, <2>2, <2>3, <2>4, <2>5 DEF IInv
<1>6. QED
  BY <1>1, <1>2, <1>3, <1>4, <1>5 DEF Next, HandlerEnded

\* The handler's invariant: one part of the router has the request, a stream
\* has begun when its events say so, and what is reported is what is billed.
THEOREM InvariantHolds == Spec => []IInv
<1>1. QED
  BY InvInit, InvStep, PTL DEF Spec

\* The tokens in the client's answer, in its usage header and in the billing
\* events are the same, and no code runs for an answer that is not billed.
THEOREM UsageAlwaysAddsUp == Spec => []UsageAddsUp
<1>1. IInv => UsageAddsUp
  <2> SUFFICES ASSUME IInv, call.key PROVE UsageAddsUp
    BY DEF UsageAddsUp
  <2>1. /\ UsedIsBilled /\ FinalIsTotal /\ Queued /\ Ownership /\ call \in Calls
        /\ billed.events \in Nat
    BY DEF IInv, Ownership
  <2>2. call.kind \in {"chat", "responses"}
    BY <2>1 DEF Calls, Ownership, NoCall
  <2>3. Succeeded => billed.events >= 1
    <3>1. out # <<>> => Len(out) \in DOMAIN out /\ Last(out) = out[Len(out)]
      BY <2>1, EmptySeq DEF Queued, Last
    <3>2. QED
      BY <2>1, <3>1 DEF UsedIsBilled, Succeeded
  <2>4. chatRan # <<>> \/ executed # <<>> => billed.events >= 1
    BY <2>1 DEF UsedIsBilled
  <2>5. ASSUME call.model # "websearch", NEW k \in DOMAIN out, Final(out[k])
        PROVE  out[k].usage = billed.tokens
    BY <2>1, <2>2, <2>5 DEF UsedIsBilled, FinalIsTotal, Used, Final
  <2>6. ASSUME call.model # "websearch", shown # NotShown
        PROVE  shown = billed.tokens
    BY <2>1, <2>2, <2>6 DEF UsedIsBilled, FinalIsTotal, Used
  <2>7. call.kind = "chat" => billed.events <= 1
        /\ (call.model # "websearch" /\ billed.events = 1 => billed.tokens = latest)
    BY <2>1 DEF UsedIsBilled
  <2>8. QED
    BY <2>3, <2>4, <2>5, <2>6, <2>7 DEF UsageAddsUp
<1>2. QED
  BY InvariantHolds, <1>1, PTL

----------------------------------------------------------------------------
(* Who is at work: one runner never becomes the other *)

LEMMA LoopStays ==
  ASSUME IInv, Responses
  PROVE  step \in LoopSteps /\ call.kind = "responses" /\ call' = call
<1>1. /\ step \in LoopSteps => call.kind = "responses"
      /\ queue # <<>> => step \in LoopSteps
  BY DEF IInv, Ownership, LoopSteps
<1>2. step \in LoopSteps /\ call' = call
  <2> USE DEF LoopSteps, sharedVars
  <2>1. CASE InvokeHop \/ TooManyHops \/ HopFails \/ KeepItem \/ ExecuteItem \/ ExecuteItemFails
    BY <2>1 DEF InvokeHop, TooManyHops, HopFails, KeepItem, ExecuteItem, ExecuteItemFails
  <2>2. CASE \E r \in Replies : ReceiveAnswer(r) \/ ReceiveStream(r)
    <3>1. PICK r \in Replies : ReceiveAnswer(r) \/ ReceiveStream(r)
      BY <2>2
    <3>2. QED
      BY <3>1 DEF ReceiveAnswer, ReceiveStream
  <2>3. CASE SettleAnswer \/ SettleStream \/ EndAnswer \/ EndHop
    BY <2>3 DEF SettleAnswer, SettleStream, EndAnswer, EndHop
  <2>4. CASE ReadEvent
    BY <2>4 DEF ReadEvent
  <2>5. CASE WriteEvent
    BY <1>1, <2>5 DEF WriteEvent
  <2>6. CASE StreamBreaks \/ FinishStream
    BY <1>1, <2>6 DEF StreamBreaks, FinishStream
  <2>7. QED
    BY <2>1, <2>2, <2>3, <2>4, <2>5, <2>6 DEF Responses, ResponsesNext
<1>3. QED
  BY <1>1, <1>2

LEMMA ChatStays ==
  ASSUME Chat
  PROVE  step \in ChatSteps /\ step' \in ChatSteps \cup {"failed", "done"} /\ call' = call
<1> USE DEF ChatSteps, ReturnError
<1>1. CASE ChatFails \/ PatchCall \/ PatchFails \/ AnswerChat
  BY <1>1 DEF ChatFails, PatchCall, PatchFails, AnswerChat, sharedVars
<1>2. CASE \E r \in Completions : ReceiveCompletion(r) \/ OpenStream(r)
  <2>1. PICK r \in Completions : ReceiveCompletion(r) \/ OpenStream(r)
    BY <1>2
  <2>2. CASE ReceiveCompletion(r)
    BY <2>2 DEF ReceiveCompletion
  <2>3. CASE OpenStream(r)
    BY <2>3 DEF OpenStream
  <2>4. QED
    BY <2>1, <2>2, <2>3
<1>3. CASE \E c \in DOMAIN arrived, usage \in Usages : PieceArrives(c, usage)
  BY <1>3 DEF PieceArrives
<1>4. CASE \E type \in {"text", "odd", "usage"}, usage \in Usages : ChunkArrives(type, usage)
  BY <1>4 DEF ChunkArrives
<1>5. CASE EndStream \/ BreakStream \/ RunBuilderFails \/ FinishChat
  BY <1>5 DEF EndStream, BreakStream, RunBuilderFails, FinishChat
<1>6. CASE \E key \in DOMAIN builders : RunBuilder(key)
  BY <1>6 DEF RunBuilder
<1>7. QED
  BY <1>1, <1>2, <1>3, <1>4, <1>5, <1>6 DEF Chat, ChatNext

----------------------------------------------------------------------------
(* The exchange with the client *)

\* The status line is final, and a handler that panics sends none.
StatusKept == (status # 0 \/ step' = "panicked") => status' = status

\* Who is at work is not at an end, and keeps a status line that is written.
LEMMA StepsOfWork ==
  ASSUME IInv, Plan \/ Responses \/ Chat \/ Report
  PROVE  ~ Ended /\ StatusKept
<1> USE DEF Write, ApiError, Ended, ReturnError, clientVars, StatusKept
<1>1. CASE Plan
  <2>1. PlanNext /\ status = 0
    BY <1>1, PlanEffect DEF IInv, Plan, Ownership
  <2>2. step \in {"arrive", "plan", "options", "prepare", "dispatch", "invoke"}
    BY <2>1
    DEF PlanNext, RouteRealtime, RouteSubdomain, RefuseHost, AnswerPage, RouteAudio, Router,
        ParseFails, ParseBody, JsonAPI, SetPriority, SetUsageOptions, PrepareFails, Prepare,
        DispatchFails, ServeProxy, InvokerFails, StartRunner
  <2>3. step' # "panicked"
    BY <2>1, PlanEffect DEF IInv, PlanGoesOn, PlanAnswers, RunnerStarts, PlanSteps
  <2>4. QED
    BY <2>1, <2>2, <2>3
<1>2. CASE Responses
  <2>1. ResponsesNext /\ (queue # <<>> => step \in {"stream", "send", "finish"})
    BY <1>2 DEF Responses, IInv, Ownership
  <2>2. CASE InvokeHop \/ TooManyHops \/ HopFails
    BY <2>2 DEF InvokeHop, TooManyHops, HopFails
  <2>3. CASE KeepItem \/ ExecuteItem \/ ExecuteItemFails \/ SettleAnswer
    BY <2>3 DEF KeepItem, ExecuteItem, ExecuteItemFails, SettleAnswer, sharedVars
  <2>4. ASSUME NEW r \in Replies, ReceiveAnswer(r)
        PROVE  ~ Ended /\ StatusKept
    BY <2>4 DEF ReceiveAnswer
  <2>5. ASSUME NEW r \in Replies, ReceiveStream(r)
        PROVE  ~ Ended /\ StatusKept
    BY <2>5 DEF ReceiveStream
  <2>6. CASE ReadEvent \/ WriteEvent \/ StreamBreaks
    BY <2>1, <2>6 DEF ReadEvent, WriteEvent, StreamBreaks
  <2>7. CASE EndAnswer \/ EndHop \/ SettleStream \/ FinishStream
    BY <2>7 DEF EndAnswer, EndHop, SettleStream, FinishStream
  <2>8. QED
    BY <2>1, <2>2, <2>3, <2>4, <2>5, <2>6, <2>7 DEF ResponsesNext
<1>3. CASE Chat
  <2>1. ChatNext
    BY <1>3 DEF Chat
  <2>2. CASE ChatFails \/ PatchCall \/ PatchFails \/ AnswerChat
    BY <2>2 DEF ChatFails, PatchCall, PatchFails, AnswerChat, sharedVars
  <2>3. ASSUME NEW r \in Completions, ReceiveCompletion(r)
        PROVE  ~ Ended /\ StatusKept
    BY <2>3 DEF ReceiveCompletion
  <2>4. ASSUME NEW r \in Completions, OpenStream(r)
        PROVE  ~ Ended /\ StatusKept
    BY <2>4 DEF OpenStream
  <2>5. CASE \E c \in DOMAIN arrived, usage \in Usages : PieceArrives(c, usage)
    BY <2>5 DEF PieceArrives
  <2>6. CASE \E type \in {"text", "odd", "usage"}, usage \in Usages : ChunkArrives(type, usage)
    BY <2>6 DEF ChunkArrives
  <2>7. CASE EndStream \/ BreakStream \/ RunBuilderFails
    BY <2>7 DEF EndStream, BreakStream, RunBuilderFails
  <2>8. CASE \E key \in DOMAIN builders : RunBuilder(key)
    BY <2>8 DEF RunBuilder
  <2>9. CASE FinishChat
    <3>1. status \in {0, 200}
      BY <2>9 DEF FinishChat, IInv, Beginning
    <3>2. QED
      BY <2>9, <3>1 DEF FinishChat
  <2>10. QED
    BY <2>1, <2>2, <2>3, <2>4, <2>5, <2>6, <2>7, <2>8, <2>9 DEF ChatNext
<1>4. CASE Report
  BY <1>4 DEF Report, ReportError
<1>5. QED
  BY <1>1, <1>2, <1>3, <1>4

\* The steps of the exchange that ClientExchange promises, without its fairness.
ExchangeSteps == Exchange!Init /\ [][Exchange!Next]_<<Phase, status>>

LEMMA ExchangeStep ==
  ASSUME IInv, IInv', Next
  PROVE  Exchange!Next \/ UNCHANGED <<Phase, status>>
<1>1. CASE HandlerEnded
  <2>1. UNCHANGED <<step, status>>
    BY <1>1 DEF HandlerEnded, vars, sharedVars, clientVars
  <2>2. QED
    BY <2>1 DEF Phase
<1>2. CASE Plan \/ Responses \/ Chat \/ Report
  <2>1. ~ Ended /\ (status # 0 => status' = status) /\ (step' = "panicked" => status' = status)
    BY <1>2, StepsOfWork DEF StatusKept
  <2>2. /\ status \in {0} \cup Exchange!Codes /\ status' \in {0} \cup Exchange!Codes
        /\ status \in {0, 200} /\ (step' # "done" => status' \in {0, 200})
        /\ step' = "done" => status' # 0
    BY <2>1 DEF IInv, Beginning, Exchange!Codes, Ended
  <2>3. step' = "panicked" => status # 0
    <3>1. step' = "panicked" => status' # 0
      BY DEF IInv, Beginning, Begun, Ownership
    <3>2. status' # status => step' # "panicked"
      BY <1>2, <2>1
    <3>3. QED
      BY <3>1, <3>2
  <2>4. step' = "proxied" => status = 0 /\ status' = 0
    BY <2>1 DEF IInv, Ownership, PlanSteps
  <2>5. Phase = IF status = 0 THEN "waiting" ELSE "streaming"
    BY <2>1 DEF Phase, Ended
  <2>6. CASE step' = "done"
    BY <2>1, <2>2, <2>5, <2>6
    DEF Phase, Exchange!Next, Exchange!Reply, Exchange!Close
  <2>7. CASE step' = "proxied"
    BY <2>4, <2>5, <2>7 DEF Phase, Exchange!Next, Exchange!HandOver
  <2>8. CASE step' = "panicked"
    BY <2>1, <2>3, <2>5, <2>8 DEF Phase, Exchange!Next, Exchange!Drop
  <2>9. CASE step' \notin {"done", "proxied", "panicked"}
    BY <2>1, <2>2, <2>5, <2>9 DEF Phase, Exchange!Next, Exchange!Begin
  <2>10. QED
    BY <2>6, <2>7, <2>8, <2>9
<1>3. QED
  BY <1>1, <1>2 DEF Next

\* Every step of the handler is one step of the exchange, or none: one status
\* line that stays, and nothing after the end.
THEOREM StepsOfTheExchange == Spec => ExchangeSteps
<1>1. Init => Exchange!Init
  BY DEF Init, SharedInit, Exchange!Init, Phase
<1>2. IInv /\ IInv' /\ [Next]_vars => [Exchange!Next]_<<Phase, status>>
  <2>1. UNCHANGED vars => UNCHANGED <<Phase, status>>
    BY DEF vars, sharedVars, clientVars, Phase
  <2>2. QED
    BY <2>1, ExchangeStep
<1>3. QED
  BY <1>1, <1>2, InvariantHolds, PTL DEF Spec, ExchangeSteps

----------------------------------------------------------------------------
(* The tools of a body *)

\* A map that keeps two elements apart keeps the number of elements.
LEMMA SameNumber ==
  ASSUME NEW A, NEW B, IsFiniteSet(A), NEW f \in [A -> B],
         \A a, b \in A : f[a] = f[b] => a = b, \A b \in B : \E a \in A : f[a] = b
  PROVE  IsFiniteSet(B) /\ Cardinality(B) = Cardinality(A)
<1>1. f \in Injection(A, B)
  BY DEF Injection, IsInjective
<1>2. f \in Surjection(A, B)
  BY DEF Surjection
<1>3. ExistsBijection(A, B)
  BY <1>1, <1>2 DEF ExistsBijection, Bijection
<1>4. QED
  BY <1>3, FS_Bijection

\* The places of some kinds, counted from the first.
Rank(tools, kinds, i) == Cardinality(PlacesTo(tools, kinds, i))
Number(tools, kinds) == Cardinality(Places(tools, kinds))

LEMMA RankIs ==
  ASSUME NEW S, NEW tools \in Seq(S), NEW kinds
  PROVE  /\ Places(tools, kinds) \subseteq 1..Len(tools)
         /\ IsFiniteSet(Places(tools, kinds)) /\ Number(tools, kinds) \in Nat
         /\ \A i \in Places(tools, kinds) :
              IsFiniteSet(PlacesTo(tools, kinds, i)) /\ Rank(tools, kinds, i) \in 1..Number(tools, kinds)
         /\ \A i, j \in Places(tools, kinds) : i < j => Rank(tools, kinds, i) < Rank(tools, kinds, j)
         /\ \A i, j \in Places(tools, kinds) : Rank(tools, kinds, i) = Rank(tools, kinds, j) => i = j
         /\ \A n \in 1..Number(tools, kinds) : \E i \in Places(tools, kinds) : Rank(tools, kinds, i) = n
<1> DEFINE P == Places(tools, kinds)
           to(i) == PlacesTo(tools, kinds, i)
<1>1. P \subseteq 1..Len(tools) /\ Len(tools) \in Nat
  BY DEF Places
<1>2. IsFiniteSet(P) /\ Number(tools, kinds) \in Nat
  <2>1. IsFiniteSet(1..Len(tools)) /\ P \in SUBSET (1..Len(tools))
    BY <1>1, FS_Interval
  <2>2. IsFiniteSet(P)
    BY <2>1, FS_Subset
  <2>3. QED
    BY <2>2, FS_CardinalityType DEF Number
<1>3. ASSUME NEW i \in P
      PROVE  IsFiniteSet(to(i)) /\ Rank(tools, kinds, i) \in 1..Number(tools, kinds)
  <2>1. i \in to(i) /\ to(i) \in SUBSET P
    BY <1>1, <1>3 DEF PlacesTo
  <2>2. IsFiniteSet(to(i)) /\ Cardinality(to(i)) <= Cardinality(P)
    BY <1>2, <2>1, FS_Subset
  <2>3. Cardinality(to(i)) \in Nat /\ Cardinality(to(i)) # 0
    BY <2>1, <2>2, FS_CardinalityType, FS_EmptySet
  <2>4. QED
    BY <1>2, <2>2, <2>3 DEF Rank, Number
<1>4. ASSUME NEW i \in P, NEW j \in P, i < j
      PROVE  Rank(tools, kinds, i) < Rank(tools, kinds, j)
  <2>1. to(i) \in SUBSET to(j) /\ j \in to(j) /\ j \notin to(i)
    BY <1>1, <1>4 DEF PlacesTo
  <2>2. IsFiniteSet(to(j)) /\ Cardinality(to(j)) \in Int /\ Cardinality(to(i)) \in Int
    BY <1>3 DEF Rank
  <2>3. Cardinality(to(i)) <= Cardinality(to(j)) /\ Cardinality(to(i)) # Cardinality(to(j))
    BY <2>1, <2>2, FS_Subset
  <2>4. QED
    BY <2>2, <2>3 DEF Rank
<1>5. ASSUME NEW i \in P, NEW j \in P, Rank(tools, kinds, i) = Rank(tools, kinds, j)
      PROVE  i = j
  <2>1. i \in Int /\ j \in Int /\ Rank(tools, kinds, i) \in Int
    BY <1>1, <1>3
  <2>2. ~(i < j) /\ ~(j < i)
    BY <1>4, <1>5, <2>1
  <2>3. QED
    BY <2>1, <2>2
<1>6. \A n \in 1..Number(tools, kinds) : \E i \in P : Rank(tools, kinds, i) = n
  <2> DEFINE T == 1..Number(tools, kinds)
             f == [i \in P |-> Rank(tools, kinds, i)]
  <2>1. f \in [P -> T] /\ \A i \in P : f[i] = Rank(tools, kinds, i)
    BY <1>3
  <2>2. IsFiniteSet(T) /\ Cardinality(T) = Cardinality(P)
    BY <1>2, FS_Interval DEF Number
  <2>3. f \in Injection(P, T)
    BY <2>1, <1>5 DEF Injection, IsInjective
  <2> HIDE DEF f, T
  <2>4. f \in Surjection(P, T)
    BY <2>2, <2>3, FS_Injection
  <2>5. \A n \in T : \E i \in P : f[i] = n
    BY <2>4 DEF Surjection
  <2>6. QED
    BY <2>1, <2>5 DEF T
<1>7. QED
  BY <1>1, <1>2, <1>3, <1>4, <1>5, <1>6

\* What is left of a body's tools is these tools, in their order.
LEMMA OnlyIs ==
  ASSUME NEW S, NEW tools \in Seq(S), NEW kinds
  PROVE  /\ Only(tools, kinds) \in Seq(S) /\ DOMAIN Only(tools, kinds) = 1..Number(tools, kinds)
         /\ \A i \in Places(tools, kinds) :
              /\ Rank(tools, kinds, i) \in DOMAIN Only(tools, kinds)
              /\ Only(tools, kinds)[Rank(tools, kinds, i)] = tools[i]
         /\ \A n \in DOMAIN Only(tools, kinds) : \E i \in Places(tools, kinds) :
              n = Rank(tools, kinds, i) /\ Only(tools, kinds)[n] = tools[i]
         /\ \A n \in DOMAIN Only(tools, kinds) : Only(tools, kinds)[n] \in kinds
<1> DEFINE P == Places(tools, kinds)
           N == Number(tools, kinds)
           left == Only(tools, kinds)
<1>1. /\ P \subseteq 1..Len(tools) /\ N \in Nat
      /\ \A i \in P : Rank(tools, kinds, i) \in 1..N
      /\ \A i, j \in P : Rank(tools, kinds, i) = Rank(tools, kinds, j) => i = j
      /\ \A n \in 1..N : \E i \in P : Rank(tools, kinds, i) = n
  BY RankIs
<1>2. left = [n \in 1..N |-> tools[CHOOSE i \in P : Rank(tools, kinds, i) = n]]
  BY DEF Only, Number, Rank
<1>3. \A i \in P : tools[i] \in S /\ tools[i] \in kinds
  BY <1>1 DEF Places
<1> HIDE DEF P, N, left
<1>4. DOMAIN left = 1..N
  BY <1>2
<1>5. ASSUME NEW n \in 1..N
      PROVE  \E i \in P : n = Rank(tools, kinds, i) /\ left[n] = tools[i]
  <2> DEFINE k == CHOOSE i \in P : Rank(tools, kinds, i) = n
  <2>1. k \in P /\ Rank(tools, kinds, k) = n
    BY <1>1
  <2>2. left[n] = tools[k]
    BY <1>2
  <2> HIDE DEF k
  <2>3. QED
    BY <2>1, <2>2
<1>6. \A n \in 1..N : left[n] \in S /\ left[n] \in kinds
  BY <1>3, <1>5
<1>7. left \in Seq(S)
  <2>1. left \in [1..N -> S]
    BY <1>2, <1>6
  <2>2. QED
    BY <1>1, <2>1
<1>8. \A i \in P : Rank(tools, kinds, i) \in 1..N /\ left[Rank(tools, kinds, i)] = tools[i]
  BY <1>1, <1>5
<1>9. QED
  BY <1>4, <1>5, <1>6, <1>7, <1>8 DEF P, N, left

\* Two sequences of the same tools in the same order are one.
LEMMA OnlySame ==
  ASSUME NEW S, NEW tools \in Seq(S), NEW T, NEW others \in Seq(T), NEW kinds,
         NEW f \in [Places(tools, kinds) -> Places(others, kinds)],
         \A i, j \in Places(tools, kinds) : i < j => f[i] < f[j],
         \A m \in Places(others, kinds) : \E i \in Places(tools, kinds) : f[i] = m,
         \A i \in Places(tools, kinds) : others[f[i]] = tools[i]
  PROVE  Only(others, kinds) = Only(tools, kinds)
<1> DEFINE P == Places(tools, kinds)
           Q == Places(others, kinds)
<1>1. P \subseteq 1..Len(tools) /\ IsFiniteSet(P)
  BY RankIs
<1>2. Q \subseteq 1..Len(others) /\ IsFiniteSet(Q)
  BY RankIs
<1>3. ASSUME NEW i \in P, NEW j \in P PROVE (f[i] <= f[j]) <=> (i <= j)
  <2>1. i \in Int /\ j \in Int /\ f[i] \in Int /\ f[j] \in Int
    <3>1. f[i] \in Q /\ f[j] \in Q
      OBVIOUS
    <3>2. QED
      BY <1>1, <1>2, <3>1
  <2>2. (i < j => f[i] < f[j]) /\ (j < i => f[j] < f[i])
    OBVIOUS
  <2>3. QED
    BY <2>1, <2>2
<1>4. \A i, j \in P : f[i] = f[j] => i = j
  <2>1. SUFFICES ASSUME NEW i \in P, NEW j \in P, f[i] = f[j] PROVE i = j
    OBVIOUS
  <2>2. i \in Int /\ j \in Int /\ f[i] \in Int /\ f[j] \in Int
    <3>1. f[i] \in Q /\ f[j] \in Q
      OBVIOUS
    <3>2. QED
      BY <1>1, <1>2, <3>1
  <2>3. i <= j /\ j <= i
    BY <1>3, <2>1, <2>2
  <2>4. QED
    BY <2>2, <2>3
<1>5. ASSUME NEW i \in P PROVE Rank(others, kinds, f[i]) = Rank(tools, kinds, i)
  <2> DEFINE A == PlacesTo(tools, kinds, i)
             B == PlacesTo(others, kinds, f[i])
             g == [j \in A |-> f[j]]
  <2>1. A = {j \in P : j <= i} /\ B = {m \in Q : m <= f[i]}
    BY DEF PlacesTo
  <2>2. \A j \in A : f[j] \in B
    BY <1>3, <2>1
  <2>3. g \in [A -> B] /\ \A j \in A : g[j] = f[j]
    BY <2>2
  <2>4. \A a, b \in A : g[a] = g[b] => a = b
    BY <1>4, <2>1, <2>3
  <2>5. \A m \in B : \E a \in A : g[a] = m
    <3>1. SUFFICES ASSUME NEW m \in B PROVE \E a \in A : g[a] = m
      OBVIOUS
    <3>2. PICK a \in P : f[a] = m
      BY <2>1, <3>1
    <3>3. a \in A
      BY <1>3, <2>1, <3>1, <3>2
    <3>4. QED
      BY <2>3, <3>2, <3>3
  <2>6. IsFiniteSet(A)
    BY <1>5, RankIs
  <2> HIDE DEF A, B, g
  <2>7. Cardinality(B) = Cardinality(A)
    BY <2>3, <2>4, <2>5, <2>6, SameNumber
  <2>8. QED
    BY <2>7 DEF Rank, A, B
<1>6. Number(others, kinds) = Number(tools, kinds)
  <2> HIDE DEF P, Q
  <2>1. f \in [P -> Q] /\ \A m \in Q : \E i \in P : f[i] = m
    BY DEF P, Q
  <2>2. Cardinality(Q) = Cardinality(P)
    BY <1>1, <1>4, <2>1, SameNumber
  <2>3. QED
    BY <2>2 DEF Number, P, Q
<1> DEFINE N == Number(tools, kinds)
           left == Only(tools, kinds)
           right == Only(others, kinds)
<1>7. /\ DOMAIN left = 1..N /\ left \in Seq(S)
      /\ \A n \in DOMAIN left : \E i \in P : n = Rank(tools, kinds, i) /\ left[n] = tools[i]
  BY OnlyIs
<1>8. /\ DOMAIN right = 1..N /\ right \in Seq(T)
      /\ \A m \in Q : right[Rank(others, kinds, m)] = others[m]
  BY <1>6, OnlyIs
<1>9. \A n \in 1..N : left[n] = right[n]
  <2>1. SUFFICES ASSUME NEW n \in 1..N PROVE left[n] = right[n]
    OBVIOUS
  <2>2. PICK i \in P : n = Rank(tools, kinds, i) /\ left[n] = tools[i]
    BY <1>7
  <2>3. f[i] \in Q /\ Rank(others, kinds, f[i]) = n /\ others[f[i]] = tools[i]
    BY <1>5, <2>2
  <2>4. right[Rank(others, kinds, f[i])] = others[f[i]]
    BY <1>8, <2>3
  <2>5. QED
    BY <2>2, <2>3, <2>4
<1> HIDE DEF left, right, N
<1>10. left = [n \in 1..N |-> left[n]] /\ right = [n \in 1..N |-> right[n]]
  BY <1>7, <1>8
<1>11. left = right
  BY <1>9, <1>10
<1>12. QED
  BY <1>11 DEF left, right

\* What is taken of what is left is what is taken of the whole.
LEMMA OnlyTwice ==
  ASSUME NEW S, NEW tools \in Seq(S), NEW kinds, NEW wider, kinds \subseteq wider
  PROVE  Only(Only(tools, wider), kinds) = Only(tools, kinds)
<1> DEFINE P == Places(tools, kinds)
           W == Places(tools, wider)
           left == Only(tools, wider)
           Q == Places(left, kinds)
           f == [i \in P |-> Rank(tools, wider, i)]
<1>1. /\ left \in Seq(S)
      /\ \A i \in W : Rank(tools, wider, i) \in DOMAIN left /\ left[Rank(tools, wider, i)] = tools[i]
      /\ \A n \in DOMAIN left : \E i \in W : n = Rank(tools, wider, i) /\ left[n] = tools[i]
  BY OnlyIs
<1>2. \A i, j \in W : i < j => Rank(tools, wider, i) < Rank(tools, wider, j)
  BY RankIs
<1>3. P \subseteq W /\ \A i \in W : tools[i] \in kinds => i \in P
  BY DEF Places
<1> HIDE DEF W
<1>4. \A i \in P : tools[i] \in kinds
  BY DEF Places
<1>5. Q = {n \in DOMAIN left : left[n] \in kinds}
  BY DEF Places
<1> HIDE DEF P, Q, left
<1>6. \A i \in P : f[i] = Rank(tools, wider, i)
  OBVIOUS
<1>7. \A i \in P : f[i] \in Q /\ left[f[i]] = tools[i]
  BY <1>1, <1>3, <1>4, <1>5
<1>8. f \in [P -> Q]
  BY <1>7
<1>9. \A i, j \in P : i < j => f[i] < f[j]
  BY <1>2, <1>3
<1>10. \A m \in Q : \E i \in P : f[i] = m
  BY <1>1, <1>3, <1>5
<1> HIDE DEF f
<1>11. f \in [Places(tools, kinds) -> Places(left, kinds)]
  BY <1>8 DEF P, Q
<1>12. Only(left, kinds) = Only(tools, kinds)
  BY <1>1, <1>7, <1>9, <1>10, <1>11, OnlySame DEF P, Q
<1>13. QED
  BY <1>12 DEF left

\* A tool of another kind, at the end, makes no difference.
LEMMA OnlyAppend ==
  ASSUME NEW S, NEW tools \in Seq(S), NEW tool \in S, NEW kinds, tool \notin kinds
  PROVE  Only(Append(tools, tool), kinds) = Only(tools, kinds)
<1> DEFINE more == Append(tools, tool)
<1>1. more \in Seq(S) /\ Len(tools) \in Nat /\ DOMAIN tools = 1..Len(tools)
      /\ DOMAIN more = 1..Len(tools) + 1
      /\ (\A i \in 1..Len(tools) : more[i] = tools[i]) /\ more[Len(tools) + 1] = tool
  BY AppendProperties
<1> HIDE DEF more
<1>2. Places(more, kinds) = Places(tools, kinds)
  BY <1>1 DEF Places
<1> DEFINE f == [i \in Places(tools, kinds) |-> i]
<1>3. \A i \in Places(tools, kinds) : i \in 1..Len(tools) /\ more[i] = tools[i]
  BY <1>1 DEF Places
<1>4. f \in [Places(tools, kinds) -> Places(more, kinds)]
  BY <1>2
<1>5. \A i \in Places(tools, kinds) : f[i] = i
  OBVIOUS
<1> HIDE DEF f
<1>6. Only(more, kinds) = Only(tools, kinds)
  BY <1>1, <1>2, <1>3, <1>4, <1>5, OnlySame
<1>7. QED
  BY <1>6 DEF more

\* A tool that is new is there once.
LEMMA OnceAppended ==
  ASSUME NEW S, NEW tools \in Seq(S), NEW tool \in S, \A i \in DOMAIN tools : tools[i] # tool
  PROVE  /\ Places(Append(tools, tool), {tool}) = {Len(tools) + 1}
         /\ Len(tools) + 1 \in DOMAIN Append(tools, tool)
<1> DEFINE more == Append(tools, tool)
<1>1. Len(tools) \in Nat /\ DOMAIN tools = 1..Len(tools) /\ DOMAIN more = 1..Len(tools) + 1
      /\ (\A i \in 1..Len(tools) : more[i] = tools[i]) /\ more[Len(tools) + 1] = tool
  BY AppendProperties
<1> HIDE DEF more
<1>2. Places(more, {tool}) = {Len(tools) + 1} /\ Len(tools) + 1 \in DOMAIN more
  BY <1>1 DEF Places
<1>3. QED
  BY <1>2 DEF more

----------------------------------------------------------------------------
(* What the plan makes of the body *)

LEMMA BodyFields ==
  ASSUME NEW b \in RequestType
  PROVE  /\ b.path \in Paths /\ b.tools \in Seq(ToolKinds) /\ b.model \in {"none", "llm", "websearch"}
         /\ b.priority \in {"none", "client", "router"} /\ b.usage \in SUBSET {"include", "continuous"}
         /\ b.container \in {"none", "auto", "named", "bad"} /\ b.stream \in BOOLEAN
         /\ b.choice \in {"none", "null", "string", "ci", "fn"} /\ b.search \in BOOLEAN
<1> HIDE DEF ToolKinds, Paths
<1>1. QED
  BY DEF RequestType

\* The body after a change of what the plan may change.
LEMMA BodyChanged ==
  ASSUME NEW b \in RequestType
  PROVE  /\ \A p \in {"none", "client", "router"} : [b EXCEPT !.priority = p] \in RequestType
         /\ \A u \in SUBSET {"include", "continuous"} : [b EXCEPT !.usage = u] \in RequestType
         /\ \A t \in Seq(ToolKinds) : [b EXCEPT !.tools = t] \in RequestType
         /\ \A t \in Seq(ToolKinds) : [b EXCEPT !.container = "none", !.tools = t] \in RequestType
         /\ \A t \in Seq(ToolKinds), c \in {"none", "string"} :
              [b EXCEPT !.tools = t, !.choice = c, !.container = "none"] \in RequestType
<1> HIDE DEF ToolKinds, Paths
<1>1. \A p \in {"none", "client", "router"} : [b EXCEPT !.priority = p] \in RequestType
  BY DEF RequestType
<1>2. \A u \in SUBSET {"include", "continuous"} : [b EXCEPT !.usage = u] \in RequestType
  BY DEF RequestType
<1>3. \A t \in Seq(ToolKinds) : [b EXCEPT !.tools = t] \in RequestType
  BY DEF RequestType
<1>4. \A t \in Seq(ToolKinds) : [b EXCEPT !.container = "none", !.tools = t] \in RequestType
  BY DEF RequestType
<1>5. \A t \in Seq(ToolKinds), c \in {"none", "string"} :
        [b EXCEPT !.tools = t, !.choice = c, !.container = "none"] \in RequestType
  BY DEF RequestType
<1>6. QED
  BY <1>1, <1>2, <1>3, <1>4, <1>5

LEMMA WithoutIs ==
  ASSUME body \in RequestType, NEW tool \in ToolKinds
  PROVE  /\ Without(tool) \in Seq(ToolKinds)
         /\ \A i \in DOMAIN Without(tool) : Without(tool)[i] # tool /\ Has(Without(tool)[i])
         /\ tool \notin Functions => Only(Without(tool), Functions) = Only(body.tools, Functions)
<1> DEFINE tools == body.tools
           kinds == ToolKinds \ {tool}
<1>1. tools \in Seq(ToolKinds)
  BY BodyFields
<1> DEFINE left == Only(tools, kinds)
<1> HIDE DEF tools, kinds
<1>2. /\ left \in Seq(ToolKinds)
      /\ \A n \in DOMAIN left : left[n] \in kinds
      /\ \A n \in DOMAIN left : \E i \in Places(tools, kinds) : left[n] = tools[i]
  <2>1. left \in Seq(ToolKinds) /\ \A n \in DOMAIN left : left[n] \in kinds
    BY <1>1, OnlyIs
  <2>2. \A n \in DOMAIN left : \E i \in Places(tools, kinds) :
          n = Rank(tools, kinds, i) /\ left[n] = tools[i]
    BY <1>1, OnlyIs
  <2>3. QED
    BY <2>1, <2>2
<1>3. \A i \in Places(tools, kinds) : tools[i] \in Range(tools)
  BY <1>1 DEF Places, Range
<1>4. tool \notin Functions => Only(Only(tools, kinds), Functions) = Only(tools, Functions)
  <2>1. tool \notin Functions => Functions \subseteq kinds
    BY DEF ToolKinds, kinds
  <2>2. QED
    BY <1>1, <2>1, OnlyTwice
<1>5. QED
  BY <1>2, <1>3, <1>4 DEF Without, Has, tools, kinds

LEMMA SearchIs ==
  ASSUME body \in RequestType
  PROVE  /\ SearchPrepare.verdict = "changed" <=>
              \/ body.path = "chat" /\ body.search
              \/ body.path = "responses" /\ Has("search")
         /\ SearchPrepare.verdict = "changed" =>
              SearchPrepare.body = IF body.path = "chat" THEN body
                                   ELSE [body EXCEPT !.tools = Without("search")]
BY DEF SearchPrepare, Changed, Left

LEMMA InterpreterIs ==
  ASSUME body \in RequestType
  PROVE  LET verdict == InterpreterPrepare.verdict
             new     == InterpreterPrepare.body
         IN /\ verdict \in {"left", "refused", "changed"}
            /\ verdict = "left" => /\ new = body
                                   /\ body.path = "chat" => body.container = "none"
                                   /\ body.path = "responses" => ~Has("ci")
            /\ verdict = "changed" => body.path \in {"chat", "responses"} /\ ~Has("fn_ci")
            /\ verdict = "changed" /\ body.path = "chat" =>
                 new = [body EXCEPT !.container = "none", !.tools = Append(body.tools, "fn_ci")]
            /\ verdict = "changed" /\ body.path = "responses" =>
                 new = [body EXCEPT !.tools = Append(Without("ci"), "fn_ci"),
                                    !.choice = NewChoice, !.container = "none"]
<1>1. CASE body.path = "chat"
  <2>1. InterpreterPrepare = InterpreterPrepareChat
    BY <1>1 DEF InterpreterPrepare
  <2>2. CASE body.container = "none"
    BY <1>1, <2>1, <2>2 DEF InterpreterPrepareChat, Left, ContainerRefused
  <2>3. CASE body.container # "none" /\ (ContainerRefused \/ Has("fn_ci"))
    BY <1>1, <2>1, <2>3 DEF InterpreterPrepareChat, Refused
  <2>4. CASE body.container # "none" /\ ~ContainerRefused /\ ~Has("fn_ci")
    BY <1>1, <2>1, <2>4 DEF InterpreterPrepareChat, Changed
  <2>5. QED
    BY <2>2, <2>3, <2>4
<1>2. CASE body.path = "responses"
  <2> DEFINE refused == \/ Has("fn_ci") \/ ContainerRefused \/ ChoiceRefused
                        \/ \E i, j \in Places(body.tools, {"ci"}) : i # j
  <2>1. InterpreterPrepare = InterpreterPrepareResponses
    BY <1>2 DEF InterpreterPrepare
  <2>2. CASE ~Has("ci")
    BY <1>2, <2>1, <2>2 DEF InterpreterPrepareResponses, Left
  <2>3. CASE Has("ci") /\ refused
    BY <1>2, <2>1, <2>3 DEF InterpreterPrepareResponses, Refused
  <2>4. CASE Has("ci") /\ ~refused
    BY <1>2, <2>1, <2>4 DEF InterpreterPrepareResponses, Changed
  <2>5. QED
    BY <2>2, <2>3, <2>4
<1>3. CASE body.path \notin {"chat", "responses"}
  BY <1>3 DEF InterpreterPrepare, Left
<1>4. QED
  BY <1>1, <1>2, <1>3

\* What the tools make of the body that the first two plans have left.
LEMMA PreparedIs ==
  ASSUME PlanReady, BodyGrows, Prepare
  PROVE  body' \in RequestType /\ BodyIsRewritten'
<1> DEFINE search == SearchPrepare.verdict = "changed"
           run == InterpreterPrepare.verdict = "changed"
<1>1. /\ step = "prepare" /\ InterpreterPrepare.verdict # "refused" /\ ~(search /\ run)
      /\ body' = IF search THEN SearchPrepare.body ELSE InterpreterPrepare.body
      /\ target' = IF search THEN "websearch" ELSE body.model
      /\ step' = IF run THEN "invoke" ELSE "dispatch"
      /\ UNCHANGED <<request, bearer, wantsUsage>>
  BY DEF Prepare
<1>2. /\ request \in RequestType /\ body \in RequestType /\ wantsUsage \in BOOLEAN
      /\ body = [request EXCEPT !.priority = body.priority, !.usage = body.usage]
      /\ UsageAsked /\ body.priority \in {"none", "router"}
      /\ request.path \in {"chat", "responses", "generic"}
  BY <1>1 DEF BodyGrows, PlanTypeOK, PlanReady
<1>3. /\ body.path = request.path /\ body.tools = request.tools /\ body.model = request.model
      /\ body.search = request.search /\ body.tools \in Seq(ToolKinds)
      /\ "fn_ci" \in ToolKinds /\ "ci" \in ToolKinds /\ "search" \in ToolKinds
  <2>1. body.tools \in Seq(ToolKinds)
    BY <1>2, BodyFields
  <2>2. /\ body.path = request.path /\ body.tools = request.tools /\ body.model = request.model
        /\ body.search = request.search
    BY <1>2 DEF RequestType
  <2>3. QED
    BY <2>1, <2>2 DEF ToolKinds
<1>4. \A tool : Has(tool) <=> \E i \in DOMAIN body.tools : body.tools[i] = tool
  BY DEF Has, Range
<1> DEFINE Kept(new) == /\ new \in RequestType
                        /\ new.priority = body.priority /\ new.usage = body.usage /\ new.stream = body.stream
                        /\ Only(new.tools, Functions) = Only(request.tools, Functions)
<1>5. CASE search
  <2>0. body' = SearchPrepare.body
    BY <1>1, <1>5
  <2>1. /\ body' = IF body.path = "chat" THEN body ELSE [body EXCEPT !.tools = Without("search")]
        /\ (body.path = "chat" /\ body.search) \/ (body.path = "responses" /\ Has("search"))
    BY <1>2, <1>5, <2>0, SearchIs
  <2>2. InterpreterPrepare.verdict = "left" /\ step' = "dispatch" /\ target' = "websearch"
    BY <1>1, <1>2, <1>5, InterpreterIs
  <2>3. (body.path = "chat" => body.container = "none") /\ (body.path = "responses" => ~Has("ci"))
    BY <1>2, <2>2, InterpreterIs
  <2>4. CASE body.path = "chat"
    <3>1. Kept(body') /\ body'.container = "none"
      BY <1>2, <1>3, <2>1, <2>3, <2>4
    <3>2. target' = IF SearchAsked' THEN "websearch" ELSE request'.model
      BY <1>1, <1>3, <2>1, <2>2, <2>4 DEF SearchAsked
    <3>3. QED
      BY <1>1, <1>2, <1>3, <2>2, <2>4, <3>1, <3>2 DEF BodyIsRewritten, Planned, UsageAsked
  <2>5. CASE body.path = "responses"
    <3> DEFINE tools == Without("search")
    <3>1. /\ tools \in Seq(ToolKinds)
          /\ \A i \in DOMAIN tools : tools[i] # "search" /\ Has(tools[i])
          /\ Only(tools, Functions) = Only(body.tools, Functions)
      BY <1>2, <1>3, WithoutIs DEF Functions
    <3> HIDE DEF tools
    <3>2. body' = [body EXCEPT !.tools = tools] /\ body' \in RequestType
      BY <1>2, <2>1, <2>5, <3>1, BodyChanged DEF tools
    <3>3. Kept(body') /\ body'.tools = tools
      BY <1>2, <1>3, <3>1, <3>2 DEF RequestType
    <3>4. ~Has("ci")' /\ ~Has("search")'
      BY <2>3, <2>5, <3>1, <3>3 DEF Has, Range
    <3>5. target' = IF SearchAsked' THEN "websearch" ELSE request'.model
      BY <1>1, <1>3, <2>1, <2>2, <2>5 DEF SearchAsked, Has
    <3>6. QED
      BY <1>1, <1>2, <1>3, <2>2, <2>5, <3>3, <3>4, <3>5 DEF BodyIsRewritten, Planned, UsageAsked
  <2>6. QED
    BY <2>1, <2>4, <2>5
<1>6. CASE ~search /\ ~run
  <2>1. InterpreterPrepare.verdict = "left"
    BY <1>1, <1>2, <1>6, InterpreterIs
  <2>2. body' = body /\ step' = "dispatch" /\ target' = body.model
        /\ (body.path = "chat" => body.container = "none") /\ (body.path = "responses" => ~Has("ci"))
    BY <1>1, <1>2, <1>6, <2>1, InterpreterIs
  <2>3. ~(body.path = "chat" /\ body.search) /\ ~(body.path = "responses" /\ Has("search"))
    BY <1>2, <1>6, SearchIs
  <2>4. Has("ci")' = Has("ci") /\ Has("search")' = Has("search")
    BY <2>2 DEF Has
  <2>5. request.path # "generic" => target' = IF SearchAsked' THEN "websearch" ELSE request'.model
    BY <1>1, <1>2, <1>3, <2>2, <2>3 DEF SearchAsked, Has
  <2>6. QED
    BY <1>1, <1>2, <1>3, <2>2, <2>3, <2>4, <2>5 DEF BodyIsRewritten, Planned, UsageAsked
<1>7. CASE run
  <2>1. ~search /\ step' = "invoke" /\ body' = InterpreterPrepare.body /\ target' = body.model
        /\ body.path \in {"chat", "responses"} /\ ~Has("fn_ci")
    BY <1>1, <1>2, <1>7, InterpreterIs
  <2>2. CASE body.path = "chat"
    <3> DEFINE tools == Append(body.tools, "fn_ci")
    <3>1. /\ tools \in Seq(ToolKinds)
          /\ Only(tools, Functions) = Only(body.tools, Functions)
          /\ \E i \in DOMAIN tools : Places(tools, {"fn_ci"}) = {i}
      <4>1. tools \in Seq(ToolKinds)
        BY <1>3, AppendProperties
      <4>2. "fn_ci" \notin Functions /\ \A i \in DOMAIN body.tools : body.tools[i] # "fn_ci"
        BY <1>4, <2>1 DEF Functions
      <4>3. Only(tools, Functions) = Only(body.tools, Functions)
        BY <1>3, <4>2, OnlyAppend
      <4>4. \E i \in DOMAIN tools : Places(tools, {"fn_ci"}) = {i}
        <5>1. Places(tools, {"fn_ci"}) = {Len(body.tools) + 1} /\ Len(body.tools) + 1 \in DOMAIN tools
          BY <1>3, <4>2, OnceAppended
        <5>2. QED
          BY <5>1
      <4>5. QED
        BY <4>1, <4>3, <4>4
    <3> HIDE DEF tools
    <3>2. body' = [body EXCEPT !.container = "none", !.tools = tools] /\ body' \in RequestType
      <4>1. body' = [body EXCEPT !.container = "none", !.tools = tools]
        BY <1>2, <1>7, <2>1, <2>2, InterpreterIs DEF tools
      <4>2. QED
        BY <1>2, <3>1, <4>1, BodyChanged
    <3>3. Kept(body') /\ body'.container = "none" /\ body'.tools = tools
      BY <1>2, <1>3, <3>1, <3>2 DEF RequestType
    <3>4. QED
      BY <1>1, <1>2, <1>3, <2>1, <2>2, <3>1, <3>3 DEF BodyIsRewritten, Planned, UsageAsked
  <2>3. CASE body.path = "responses"
    <3> DEFINE rest == Without("ci")
               tools == Append(rest, "fn_ci")
    <3>1. /\ rest \in Seq(ToolKinds)
          /\ \A i \in DOMAIN rest : rest[i] # "ci" /\ Has(rest[i])
          /\ Only(rest, Functions) = Only(body.tools, Functions)
      BY <1>2, <1>3, WithoutIs DEF Functions
    <3> HIDE DEF rest
    <3>2. ~Has("search")
      BY <1>2, <2>1, <2>3, SearchIs
    <3>3. /\ tools \in Seq(ToolKinds)
          /\ Only(tools, Functions) = Only(body.tools, Functions)
          /\ \E i \in DOMAIN tools : Places(tools, {"fn_ci"}) = {i}
      <4>1. tools \in Seq(ToolKinds)
        BY <1>3, <3>1, AppendProperties
      <4>2. "fn_ci" \notin Functions /\ \A i \in DOMAIN rest : rest[i] # "fn_ci"
        BY <2>1, <3>1 DEF Functions
      <4>3. Only(tools, Functions) = Only(rest, Functions)
        BY <1>3, <3>1, <4>2, OnlyAppend
      <4>4. \E i \in DOMAIN tools : Places(tools, {"fn_ci"}) = {i}
        <5>1. Places(tools, {"fn_ci"}) = {Len(rest) + 1} /\ Len(rest) + 1 \in DOMAIN tools
          BY <1>3, <3>1, <4>2, OnceAppended
        <5>2. QED
          BY <5>1
      <4>5. QED
        BY <3>1, <4>1, <4>3, <4>4
    <3>4. \A i \in DOMAIN tools : tools[i] # "ci" /\ tools[i] # "search"
      <4>1. Len(tools) = Len(rest) + 1 /\ tools[Len(rest) + 1] = "fn_ci" /\ Len(rest) \in Nat
            /\ (\A i \in 1..Len(rest) : tools[i] = rest[i])
        BY <1>3, <3>1, AppendProperties
      <4>2. QED
        BY <3>1, <3>2, <3>3, <4>1
    <3> HIDE DEF tools
    <3>5. body' = [body EXCEPT !.tools = tools, !.choice = NewChoice, !.container = "none"]
          /\ body' \in RequestType /\ NewChoice \in {"none", "string"}
      <4>1. NewChoice \in {"none", "string"}
        BY DEF NewChoice
      <4>2. body' = [body EXCEPT !.tools = tools, !.choice = NewChoice, !.container = "none"]
        BY <1>2, <1>7, <2>1, <2>3, InterpreterIs DEF tools, rest
      <4>3. QED
        BY <1>2, <3>3, <4>1, <4>2, BodyChanged
    <3>6. Kept(body') /\ body'.container = "none" /\ body'.tools = tools
          /\ body'.choice \in {"none", "string"}
      BY <1>2, <1>3, <3>3, <3>5 DEF RequestType
    <3>7. ~Has("ci")' /\ ~Has("search")'
      BY <3>4, <3>6 DEF Has, Range
    <3>8. QED
      BY <1>1, <1>2, <1>3, <2>1, <2>3, <3>3, <3>6, <3>7 DEF BodyIsRewritten, Planned, UsageAsked
  <2>4. QED
    BY <2>1, <2>2, <2>3
<1>8. QED
  BY <1>5, <1>6, <1>7

LEMMA BodyStep == IInv /\ IInv' /\ BodyGrows /\ [Next]_vars => BodyGrows'
<1> SUFFICES ASSUME IInv, IInv', BodyGrows, [Next]_vars PROVE BodyGrows'
  OBVIOUS
<1>0. PlanTypeOK /\ PlanReady /\ PlanReady' /\ Ownership /\ Ownership'
  BY DEF IInv, BodyGrows
<1>1. ASSUME PlanNext PROVE BodyGrows'
  <2> USE DEF PlanSteps, Answer, RefuseRequest, Direct, planVars, Router, JsonAPI
  <2>0. PlanTypeOK' <=> body' \in RequestType
    BY <1>0 DEF PlanTypeOK, PlanReady
  <2>1. CASE RouteRealtime \/ RouteSubdomain \/ RefuseHost \/ AnswerPage \/ RouteAudio
    <3>1. body' = body /\ request' = request /\ step' \in {"done", "dispatch"} /\ wantsUsage' = wantsUsage
      BY <2>1 DEF RouteRealtime, RouteSubdomain, RefuseHost, AnswerPage, RouteAudio
    <3>2. step' = "dispatch" => ~(request.host = "router" /\ request.path \in {"chat", "responses", "generic"})
      BY <2>1 DEF RouteRealtime, RouteSubdomain, RefuseHost, AnswerPage, RouteAudio
    <3>3. QED
      BY <1>0, <2>0, <3>1, <3>2 DEF BodyGrows, PlanTypeOK, BodyIsRewritten, Planned
  <2>2. CASE ParseFails \/ PrepareFails \/ DispatchFails \/ ServeProxy \/ InvokerFails
    <3>1. body' = body /\ step' \in {"done", "proxied"}
      BY <2>2 DEF ParseFails, PrepareFails, DispatchFails, ServeProxy, InvokerFails
    <3>2. QED
      BY <1>0, <2>0, <3>1 DEF BodyGrows, PlanTypeOK, BodyIsRewritten, Planned
  <2>3. CASE ParseBody
    <3>1. body' = body /\ request' = request /\ wantsUsage' = wantsUsage /\ step' = "plan" /\ step = "arrive"
      BY <2>3 DEF ParseBody
    <3>2. QED
      BY <1>0, <2>0, <3>1 DEF BodyGrows, PlanTypeOK, BodyIsRewritten, Planned
  <2>4. CASE \E demoted \in BOOLEAN : SetPriority(demoted)
    <3>1. PICK p \in {"none", "router"} : body' = [body EXCEPT !.priority = p]
      BY <2>4 DEF SetPriority
    <3>2. /\ request' = request /\ wantsUsage' = wantsUsage /\ step' = "options" /\ step = "plan"
          /\ body = request /\ request \in RequestType /\ ~wantsUsage
      BY <1>0, <2>4 DEF SetPriority, BodyGrows, PlanReady
    <3>3. body' \in RequestType /\ body'.priority = p
      <4>1. body' \in RequestType
        BY <3>1, <3>2, BodyChanged
      <4>2. body'.priority = p
        BY <3>1, <3>2 DEF RequestType
      <4>3. QED
        BY <4>1, <4>2
    <3>4. QED
      BY <2>0, <3>1, <3>2, <3>3 DEF BodyGrows, BodyIsRewritten, Planned
  <2>5. CASE SetUsageOptions
    <3>1. /\ request' = request /\ step' = "prepare" /\ step = "options" /\ ~wantsUsage
          /\ body \in RequestType /\ request \in RequestType
          /\ body = [request EXCEPT !.priority = body.priority] /\ body.priority \in {"none", "router"}
      BY <1>0, <2>5 DEF SetUsageOptions, BodyGrows, PlanTypeOK
    <3>2. body.usage = request.usage /\ body.usage \in SUBSET {"include", "continuous"}
      BY <3>1, BodyFields DEF RequestType
    <3>3. CASE body.stream
      <4> DEFINE u == body.usage \cup {"continuous"}
      <4>1. body' = [body EXCEPT !.usage = u] /\ u \in SUBSET {"include", "continuous"}
            /\ wantsUsage' = (wantsUsage \/ body.usage # {})
        BY <2>5, <3>2, <3>3 DEF SetUsageOptions
      <4>2. body' \in RequestType
        BY <3>1, <4>1, BodyChanged
      <4> HIDE DEF u
      <4>3. body'.usage = u /\ body'.priority = body.priority /\ body'.stream = body.stream
        BY <3>1, <4>1 DEF RequestType
      <4>4. body' = [request EXCEPT !.priority = body'.priority, !.usage = body'.usage]
        BY <3>1, <4>1, <4>3 DEF RequestType
      <4>5. UsageAsked'
        BY <3>1, <3>2, <3>3, <4>1, <4>3 DEF UsageAsked, u
      <4>6. QED
        BY <2>0, <3>1, <4>2, <4>3, <4>4, <4>5 DEF BodyGrows, BodyIsRewritten, Planned
    <3>4. CASE ~body.stream
      <4>1. body' = body /\ UNCHANGED wantsUsage
        BY <2>5, <3>4 DEF SetUsageOptions
      <4>2. body' = [request EXCEPT !.priority = body'.priority, !.usage = body'.usage]
        BY <3>1, <3>2, <4>1 DEF RequestType
      <4>3. UsageAsked'
        BY <3>1, <3>2, <3>4, <4>1 DEF UsageAsked
      <4>4. QED
        BY <2>0, <3>1, <4>1, <4>2, <4>3 DEF BodyGrows, BodyIsRewritten, Planned
    <3>5. QED
      BY <3>3, <3>4
  <2>6. CASE Prepare
    <3>1. step' \in {"invoke", "dispatch"}
      BY <2>6 DEF Prepare
    <3>2. QED
      BY <1>0, <2>0, <2>6, <3>1, PreparedIs DEF BodyGrows
  <2>7. CASE StartRunner
    <3>1. body' = Dropped /\ step' \in {"chat", "send"}
      BY <2>7 DEF StartRunner
    <3>2. Dropped \in RequestType
      BY DEF Dropped, RequestType, Paths
    <3>3. QED
      BY <2>0, <3>1, <3>2 DEF BodyGrows, BodyIsRewritten, Planned
  <2>8. QED
    BY <1>1, <2>1, <2>2, <2>3, <2>4, <2>5, <2>6, <2>7 DEF PlanNext
<1>2. ASSUME UNCHANGED planVars, step' \notin PlanSteps PROVE BodyGrows'
  BY <1>0, <1>2 DEF BodyGrows, PlanTypeOK, BodyIsRewritten, Planned, planVars, PlanSteps
<1>3. ASSUME UNCHANGED planVars, call' = call, call.kind # "none" PROVE BodyGrows'
  <2>1. step' \notin PlanSteps
    BY <1>0, <1>3 DEF Ownership, NoCall
  <2>2. QED
    BY <1>2, <1>3, <2>1
<1>4. CASE Plan
  BY <1>1, <1>4 DEF Plan
<1>5. CASE Responses
  BY <1>3, <1>5, LoopStays DEF Responses
<1>6. CASE Chat
  <2>1. call.kind = "chat" /\ call' = call
    BY <1>0, <1>6, ChatStays DEF Ownership
  <2>2. QED
    BY <1>3, <1>6, <2>1 DEF Chat
<1>7. CASE Report
  BY <1>2, <1>7 DEF Report, ReportError, PlanSteps
<1>8. CASE UNCHANGED vars
  <2>1. UNCHANGED <<step, request, body, target, bearer, wantsUsage>>
    BY <1>8 DEF vars, sharedVars, planVars
  <2>2. Has("ci")' = Has("ci") /\ Has("search")' = Has("search") /\ (SearchAsked <=> SearchAsked')
    BY <2>1 DEF Has, SearchAsked
  <2>3. QED
    BY <2>1, <2>2 DEF BodyGrows, PlanTypeOK, BodyIsRewritten, Planned, UsageAsked
<1>9. QED
  BY <1>4, <1>5, <1>6, <1>7, <1>8 DEF Next, HandlerEnded

LEMMA BodyInit == Init => BodyGrows
<1> SUFFICES ASSUME Init PROVE BodyGrows
  OBVIOUS
<1>1. /\ request \in RequestType /\ body = request /\ step = "arrive"
      /\ target = "none" /\ wantsUsage = FALSE /\ bearer = (request.key = "bearer")
  BY RequestsAssumption DEF Init, SharedInit, PlanInit
<1>2. bearer \in BOOLEAN
  BY <1>1, Zenon
<1>3. QED
  BY <1>1, <1>2 DEF BodyGrows, PlanTypeOK, BodyIsRewritten, Planned

\* What an enclave gets is the client's request but for what the router decides:
\* the priority, the usage statistics, the hosted tools and the model of a web
\* search (SetPriority, EnableContinuousUsageStats and Runner.Prepare in openaiapi,
\* Tool.Prepare in builtins).
THEOREM BodyAlwaysRewritten == Spec => []BodyIsRewritten
<1>1. BodyGrows => BodyIsRewritten
  BY DEF BodyGrows
<1>2. QED
  BY <1>1, BodyInit, BodyStep, InvariantHolds, PTL DEF Spec

----------------------------------------------------------------------------
(* The types *)

LEMMA WrittenIs ==
  \A type, items, usage : Written(type, items, usage).usage = usage /\ Written(type, items, usage).n = 0
BY DEF Written

\* What a step writes, if anything: an event of the queue with the next number,
\* or something without a number.
Quiet == out' = out /\ sequence' = sequence
WritesOne(w) == out' = Append(out, w) /\ w.usage \in Nat /\ w.n = 0 /\ sequence' = sequence
Writes == Quiet \/ \E w : WritesOne(w)

LEMMA ChatWrites ==
  ASSUME IInv, Chat
  PROVE  Writes
<1> USE DEF Write, ApiError, clientVars, sharedVars
<1>1. sequence' = sequence /\ Usages \subseteq Nat /\ completion.usage \in Nat
  <2>1. completion \in Completions \cup {NoCompletion}
    BY DEF IInv, ChatTypeOK
  <2>2. completion.usage \in Nat
    BY <2>1, CompletionFields
  <2>3. QED
    BY <2>2, UsagesAssumption DEF Chat, responsesVars, loopVars
<1>2. ASSUME NEW type, NEW items, NEW usage \in Nat, out' = Append(out, Written(type, items, usage))
      PROVE  Writes
  BY <1>1, <1>2, WrittenIs DEF Writes, WritesOne
<1>3. CASE ChatFails \/ PatchFails
  BY <1>2, <1>3 DEF ChatFails, PatchFails
<1>4. CASE PatchCall \/ EndStream \/ BreakStream \/ RunBuilderFails
  BY <1>1, <1>4 DEF PatchCall, EndStream, BreakStream, RunBuilderFails, Writes, Quiet
<1>5. ASSUME NEW r \in Completions, ReceiveCompletion(r) PROVE Writes
  <2>1. r.usage \in Nat
    BY CompletionsAssumption, UsagesAssumption
  <2>2. \/ out' = out
        \/ out' = Append(out, Written("forwarded", <<>>, 0))
        \/ out' = Append(out, Written("error", <<>>, 0))
        \/ out' = Append(out, Written("answer", <<>>, r.usage))
    BY <1>5 DEF ReceiveCompletion
  <2>3. QED
    BY <1>1, <1>2, <2>1, <2>2 DEF Writes, Quiet
<1>6. ASSUME NEW r \in Completions, OpenStream(r) PROVE Writes
  BY <1>1, <1>2, <1>6 DEF OpenStream, Writes, Quiet
<1>7. CASE AnswerChat
  BY <1>1, <1>2, <1>7 DEF AnswerChat
<1>8. CASE \E c \in DOMAIN arrived, usage \in Usages : PieceArrives(c, usage)
  BY <1>2, <1>8 DEF PieceArrives
<1>9. CASE \E type \in {"text", "odd", "usage"}, usage \in Usages : ChunkArrives(type, usage)
  BY <1>1, <1>2, <1>9 DEF ChunkArrives, Writes, Quiet
<1>10. CASE \E key \in DOMAIN builders : RunBuilder(key)
  BY <1>2, <1>10 DEF RunBuilder, Patch
<1>11. CASE FinishChat
  BY <1>1, <1>2, <1>11 DEF FinishChat, Writes, Quiet
<1>12. QED
  BY <1>3, <1>4, <1>5, <1>6, <1>7, <1>8, <1>9, <1>10, <1>11 DEF Chat, ChatNext

LEMMA LoopWrites ==
  ASSUME IInv, Responses, ~WriteEvent
  PROVE  Writes
<1> USE DEF Write, ApiError, clientVars, sharedVars
<1>1. total \in Nat
  BY DEF IInv, ResponsesTypeOK
<1>2. ASSUME NEW type, NEW items, NEW usage \in Nat, sequence' = sequence,
             out' = Append(out, Written(type, items, usage))
      PROVE  Writes
  BY <1>2, WrittenIs DEF Writes, WritesOne
<1>3. CASE InvokeHop \/ TooManyHops \/ KeepItem \/ ExecuteItem
  BY <1>3 DEF InvokeHop, TooManyHops, KeepItem, ExecuteItem, responsesVars, loopVars, Writes, Quiet, ReturnError
<1>4. CASE HopFails \/ ExecuteItemFails
  BY <1>2, <1>4 DEF HopFails, ExecuteItemFails, responsesVars, loopVars, Writes, Quiet
<1>5. ASSUME NEW r \in Replies, ReceiveAnswer(r) PROVE Writes
  <2>1. r.usage \in Nat
    BY RepliesAssumption, UsagesAssumption
  <2>2. sequence' = sequence
    BY <1>5 DEF ReceiveAnswer
  <2>3. \/ out' = out
        \/ out' = Append(out, Written("forwarded", <<>>, 0))
        \/ out' = Append(out, Written("error", <<>>, 0))
        \/ out' = Append(out, Written("answer", Received(r).items, r.usage))
    BY <1>5 DEF ReceiveAnswer
  <2>4. QED
    BY <1>2, <2>1, <2>2, <2>3 DEF Writes, Quiet
<1>6. ASSUME NEW r \in Replies, ReceiveStream(r) PROVE Writes
  BY <1>2, <1>6 DEF ReceiveStream, loopVars, Writes, Quiet
<1>7. CASE SettleAnswer
  BY <1>1, <1>2, <1>7 DEF SettleAnswer, Writes, Quiet
<1>8. CASE ReadEvent \/ StreamBreaks
  BY <1>8 DEF ReadEvent, StreamBreaks, loopVars, Writes, Quiet
<1>9. CASE EndAnswer \/ EndHop \/ SettleStream \/ FinishStream
  BY <1>9 DEF EndAnswer, EndHop, SettleStream, FinishStream, loopVars, responsesVars, Writes, Quiet
<1>10. QED
  BY <1>3, <1>4, <1>5, <1>6, <1>7, <1>8, <1>9 DEF Responses, ResponsesNext

LEMMA PlanWrites ==
  ASSUME IInv, Plan
  PROVE  Writes
<1>1. sequence' = sequence /\ (PlanGoesOn \/ PlanAnswers \/ RunnerStarts)
  BY PlanEffect DEF IInv, Plan, responsesVars, loopVars
<1>2. CASE PlanGoesOn \/ RunnerStarts
  BY <1>1, <1>2 DEF PlanGoesOn, RunnerStarts, clientVars, Writes, Quiet
<1>3. CASE PlanAnswers
  <2>1. PICK type \in {"page", "error"} : out' = Append(out, Written(type, <<>>, 0))
    BY <1>3 DEF PlanAnswers, Write
  <2>2. QED
    BY <1>1, <2>1, WrittenIs DEF Writes, WritesOne
<1>4. QED
  BY <1>1, <1>2, <1>3

\* A report of usage and a number in what is written; the next number.
OutTyped ==
  /\ sequence \in 1..Len(out) + 1
  /\ \A k \in DOMAIN out : out[k].usage \in Nat /\ out[k].n \in 0..Len(out)

LEMMA OneMore ==
  ASSUME OutTyped, Queued, NEW w, out' = Append(out, w), w.usage \in Nat, w.n \in 0..Len(out) + 1,
         sequence' \in 1..Len(out) + 2
  PROVE  OutTyped'
<1> DEFINE more == Append(out, w)
<1>1. /\ Len(out) \in Nat /\ Len(more) = Len(out) + 1
      /\ \A k \in DOMAIN more : (k \in DOMAIN out /\ more[k] = out[k]) \/ more[k] = w
  BY AppendAny DEF Queued
<1> HIDE DEF more
<1>2. \A k \in DOMAIN more : more[k].usage \in Nat /\ more[k].n \in 0..Len(more)
  BY <1>1 DEF OutTyped
<1>3. out' = more
  BY DEF more
<1>4. QED
  BY <1>1, <1>2, <1>3 DEF OutTyped

LEMMA OutStep == IInv /\ OutTyped /\ [Next]_vars => OutTyped'
<1> SUFFICES ASSUME IInv, OutTyped, [Next]_vars PROVE OutTyped'
  OBVIOUS
<1>0. Queued /\ Len(out) \in Nat
  BY AppendAny DEF IInv, Queued
<1>1. CASE Writes
  <2>1. CASE Quiet
    BY <2>1 DEF Quiet, OutTyped
  <2>2. CASE \E w : WritesOne(w)
    <3>1. PICK w : WritesOne(w)
      BY <2>2
    <3>2. w.n \in 0..Len(out) + 1 /\ sequence' \in 1..Len(out) + 2
      BY <1>0, <3>1 DEF WritesOne, OutTyped
    <3>3. QED
      BY <1>0, <3>1, <3>2, OneMore DEF WritesOne
  <2>3. QED
    BY <1>1, <2>1, <2>2 DEF Writes
<1>2. CASE WriteEvent
  <2> DEFINE w == [Head(queue) EXCEPT !.n = sequence]
  <2>1. Head(queue) \in EventType
    BY <1>0, <1>2 DEF WriteEvent, Queued
  <2>2. w.usage \in Nat /\ w.n = sequence
    BY <2>1 DEF EventType
  <2>3. out' = Append(out, w) /\ sequence' = sequence + 1
    BY <1>2 DEF WriteEvent, Write
  <2> HIDE DEF w
  <2>4. w.n \in 0..Len(out) + 1 /\ sequence' \in 1..Len(out) + 2
    BY <1>0, <2>2, <2>3 DEF OutTyped
  <2>5. QED
    BY <1>0, <2>2, <2>3, <2>4, OneMore
<1>3. CASE Report
  <2>1. out' = Append(out, Written("error", <<>>, 0)) /\ sequence' = sequence
    BY <1>3 DEF Report, ReportError, ApiError, Write, responsesVars, loopVars
  <2>2. QED
    BY <1>1, <2>1, WrittenIs DEF Writes, WritesOne
<1>4. CASE UNCHANGED vars
  <2>1. out' = out /\ sequence' = sequence
    BY <1>4 DEF vars, sharedVars, clientVars, responsesVars, loopVars
  <2>2. QED
    BY <1>1, <2>1 DEF Writes, Quiet
<1>5. QED
  BY <1>1, <1>2, <1>3, <1>4, PlanWrites, LoopWrites, ChatWrites DEF Next, HandlerEnded

\* The types of the handler's state: the status line is one the code sends, the
\* position one of its steps, what is written has a usage and a number.
THEOREM TypeCorrect == Spec => []TypeOK
<1>1. Init => OutTyped
  BY DEF Init, SharedInit, ResponsesInit, OutTyped
<1>2. Init => BodyGrows
  BY BodyInit
<1>3. IInv /\ OutTyped /\ BodyGrows => TypeOK
  <2> SUFFICES ASSUME IInv, OutTyped, BodyGrows PROVE TypeOK
    OBVIOUS
  <2>1. PlanTypeOK /\ ResponsesTypeOK /\ ChatTypeOK /\ billed \in [events : Nat, tokens : Nat]
    BY DEF IInv, BodyGrows
  <2>2. call \in Calls /\ status \in {0, 200, 307, 400, 404, 429, 500, 502, 503}
        /\ step \in PlanSteps \cup LoopSteps \cup ChatSteps \cup {"failed", "done"}
    BY DEF IInv, Ownership, Beginning
  <2>3. shown \in Nat \cup {NotShown}
    <3>1. total \in Nat /\ latest \in Nat
      BY <2>1, UsagesAssumption DEF ResponsesTypeOK, ChatTypeOK
    <3>2. QED
      BY <3>1 DEF IInv, FinalIsTotal, Used
  <2>4. QED
    BY <2>1, <2>2, <2>3 DEF TypeOK, OutTyped, PlanSteps, LoopSteps, ChatSteps
<1>4. QED
  BY <1>1, <1>2, <1>3, OutStep, BodyStep, InvariantHolds, PTL DEF Spec
=============================================================================
