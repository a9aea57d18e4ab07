--------------------------- MODULE ResponsesLoop ----------------------------
(***************************************************************************)
(* The tool loop for /v1/responses in openaiapi/responses_runner.go.  The  *)
(* model is called up to MaxHops times.  After each answer the calls of    *)
(* code_interpreter are executed in order, and their outputs are appended  *)
(* to the input of the next call.  The client gets one answer, or one      *)
(* stream with the events of all hops and the execution events in between. *)
(*                                                                         *)
(* Abstracted: an item is its hop, its place and its kind.  All events of  *)
(* a message or of a call of the client's own function are one event,      *)
(* which is passed on; a call of the tool always has some code.            *)
(***************************************************************************)
EXTENDS UpstreamCall

CONSTANTS
  Replies,  \* answers of the model to one hop: [status, kinds, usage, ending]
  MaxHops   \* maxResponsesToolIterations (12 in the code)

ItemKinds == {"message", "user", "tool", "anon"}

ASSUME RepliesAssumption ==
  /\ Replies \subseteq [status : {"ok", "error", "garbled"}, kinds : Seq(ItemKinds),
                        usage : Usages, ending : {"completed", "incomplete"}]
  /\ MaxHops \in Nat \ {0}

VARIABLES
  hop,       \* hops begun
  input,     \* internalInput: the items sent to the model
  reply,     \* the answer to this hop: [items, usage, ending]
  at,        \* the next item
  part,      \* the next event of that item in a stream
  hadTool,   \* hadToolThisHop
  known,     \* keys of streamCalls: items announced with an id
  completed, \* completed # nil
  fresh,     \* items executed in this hop
  public,    \* publicOutput
  total,     \* usageAccumulator
  queue,     \* events about to be written
  sequence,  \* the next sequence number
  executed,  \* history: items executed, in order
  reported   \* history: tokens that the hops have reported

hopVars   == <<reply, at, part, hadTool, known, completed, fresh>>
loopVars  == <<hop, input, public, total, sequence, executed, reported>>
responsesVars == <<hopVars, loopVars, queue>>

Item(h, i, kind) == [hop |-> h, at |-> i, kind |-> kind]
NoReply == [items |-> <<>>, usage |-> 0, ending |-> "completed"]

\* A call of the tool; an "anon" one comes without an item id.
IsTool(item) == item.kind \in {"tool", "anon"}
HasTool(items) == \E i \in DOMAIN items : IsTool(items[i])
HasUser(items) == \E i \in DOMAIN items : items[i].kind = "user"

\* ensureResponsesInputItems: whatever the client has sent becomes a list.
ResponsesInit ==
  /\ hop = 0 /\ input = <<Item(0, 1, "prompt")>>
  /\ reply = NoReply /\ at = 1 /\ part = 1 /\ hadTool = FALSE /\ known = {} /\ completed = FALSE
  /\ fresh = <<>> /\ public = <<>> /\ total = 0 /\ queue = <<>> /\ sequence = 1
  /\ executed = <<>> /\ reported = 0

\* Mutant of AddUsage: the last hop's usage stands for all.
AddUsageOfLast(tokens) == total' = tokens

\* usageAccumulator.Add: no answer of the loop replaces what others have used.
AddUsage(tokens) == total' = total + tokens

----------------------------------------------------------------------------
(* One hop *)

\* Mutant of InvokeHop: no limit.
InvokeHopWithoutLimit ==
  /\ step = "send" /\ queue = <<>>
  /\ hop' = hop + 1
  /\ step' = "await"
  /\ UNCHANGED <<call, clientVars, shown, billed, hopVars, queue,
                 input, public, total, sequence, executed, reported>>

\* UpstreamInvoker.Do, with the items so far as input
InvokeHop ==
  /\ step = "send" /\ queue = <<>> /\ hop < MaxHops
  /\ hop' = hop + 1
  /\ step' = "await"
  /\ UNCHANGED <<call, clientVars, shown, billed, hopVars, queue,
                 input, public, total, sequence, executed, reported>>

TooManyHops ==
  /\ step = "send" /\ queue = <<>> /\ hop = MaxHops
  /\ ReturnError
  /\ UNCHANGED <<call, clientVars, shown, billed, responsesVars>>

\* The call fails, the body cannot be read, or the client has left.
HopFails ==
  /\ step = "await"
  /\ IF call.stream
     THEN ReturnError /\ UNCHANGED clientVars
     ELSE ApiError(502) /\ step' = "done"
  /\ UNCHANGED <<call, shown, billed, responsesVars>>

Received(r) == [items |-> [i \in DOMAIN r.kinds |-> Item(hop, i, r.kinds[i])],
                usage |-> r.usage, ending |-> r.ending]

ProcessItems(items) ==
  /\ step' = "process" /\ at' = 1 /\ part' = 1 /\ fresh' = <<>>
  /\ reply' = [reply EXCEPT !.items = items]

\* A JSON answer is billed before its status is looked at.  The first answer
\* goes to the client as it is when it calls no tool.
ReceiveAnswer(r) ==
  LET items == Received(r).items
      asIs  == public = <<>> /\ ~HasTool(items)
  IN
  /\ step = "await" /\ ~call.stream
  /\ RecordUsage(r.usage)
  /\ AddUsage(r.usage) /\ reported' = reported + r.usage
  /\ CASE r.status = "error"   -> /\ Write(500, Written("forwarded", <<>>, 0))
                                  /\ step' = "done"
                                  /\ UNCHANGED <<shown, hopVars>>
       [] r.status = "garbled" -> /\ ApiError(502)
                                  /\ step' = "done"
                                  /\ UNCHANGED <<shown, hopVars>>
       [] r.status = "ok" /\ asIs -> /\ ShowUsage(total')
                                     /\ Write(200, Written("answer", items, r.usage))
                                     /\ step' = "done"
                                     /\ UNCHANGED hopVars
       [] OTHER -> /\ ProcessItems(items)
                   /\ UNCHANGED <<clientVars, shown, hadTool, known, completed>>
  /\ UNCHANGED <<call, hop, input, public, queue, sequence, executed>>

\* processResponsesOutput: what is not a call of the tool is passed on.
KeepItem ==
  /\ step = "process" /\ at \in DOMAIN reply.items /\ ~IsTool(reply.items[at])
  /\ public' = Append(public, reply.items[at])
  /\ at' = at + 1
  /\ UNCHANGED <<sharedVars, hop, input, total, sequence, executed, reported, queue,
                 reply, part, hadTool, known, completed, fresh>>

ExecuteItem ==
  /\ step = "process" /\ at \in DOMAIN reply.items /\ IsTool(reply.items[at])
  /\ executed' = Append(executed, reply.items[at])
  /\ public' = Append(public, reply.items[at])
  /\ fresh' = Append(fresh, reply.items[at])
  /\ at' = at + 1
  /\ UNCHANGED <<sharedVars, hop, input, total, sequence, reported, queue,
                 reply, part, hadTool, known, completed>>

ExecuteItemFails ==
  /\ step = "process" /\ at \in DOMAIN reply.items /\ IsTool(reply.items[at])
  /\ IF call.stream
     THEN ReturnError /\ UNCHANGED clientVars
     ELSE ApiError(502) /\ step' = "done"
  /\ UNCHANGED <<call, shown, billed, responsesVars>>

\* executeResponsesCall: the replay item carries the call's id.
ToolOutput(item) == [item EXCEPT !.kind = "output"]
\* Mutant of Replayed: the outputs of all hops are appended again after each.
ReplayedFromStart == input \o reply.items \o [i \in DOMAIN executed |-> ToolOutput(executed[i])]

\* internalInput for the next hop.
Replayed == input \o reply.items \o [i \in DOMAIN fresh |-> ToolOutput(fresh[i])]

\* A JSON loop ends with the first answer that calls no tool, or that calls a
\* function of the client as well.
SettleAnswer ==
  /\ step = "process" /\ at > Len(reply.items) /\ ~call.stream
  /\ IF fresh = <<>> \/ HasUser(reply.items)
     THEN /\ ShowUsage(total)
          /\ Write(200, Written("answer", public, total))
          /\ step' = "done"
          /\ UNCHANGED input
     ELSE /\ input' = Replayed
          /\ step' = "send"
          /\ UNCHANGED <<clientVars, shown>>
  /\ UNCHANGED <<call, billed, hopVars, queue,
                 hop, public, total, sequence, executed, reported>>

----------------------------------------------------------------------------
(* The stream of one hop.  One that makes no sense breaks. *)

ReceiveStream(r) ==
  /\ step = "await" /\ call.stream /\ r.status # "garbled"
  /\ IF r.status = "error"
     THEN /\ Write(500, Written("forwarded", <<>>, 0))
          /\ step' = "done"
          /\ UNCHANGED hopVars
     ELSE /\ step' = "stream"
          /\ reply' = Received(r) /\ at' = 1 /\ part' = 1 /\ fresh' = <<>>
          /\ hadTool' = FALSE /\ known' = {} /\ completed' = FALSE
          /\ UNCHANGED clientVars
  /\ UNCHANGED <<call, shown, billed, loopVars, queue>>

\* The events of an item in the order in which the model sends them.
ItemEvents(item) ==
  IF IsTool(item) THEN <<"added", "delta", "arguments", "done">> ELSE <<"other">>

\* The next event of the hop; the last one comes after those of all items.
InItems == at <= Len(reply.items)
NextEvent ==
  IF InItems THEN [type |-> ItemEvents(reply.items[at])[part], item |-> reply.items[at]]
  ELSE [type |-> reply.ending, item |-> Item(hop, 0, "none")]

MoreEvents == at <= Len(reply.items) + 1

Event(type, item) == Written(type, <<item>>, 0)

\* What one event of the model becomes: the events of a call of the tool are
\* replaced, those of a call without an id are not recognised by their id.
Translated(event) ==
  CASE event.type = "added"     -> IF event.item.kind = "tool"
                                   THEN <<Event("call_added", event.item)>> ELSE <<>>
    [] event.type = "delta"     -> IF event.item \in known
                                   THEN <<>> ELSE <<Event("other", event.item)>>
    [] event.type = "arguments" -> IF event.item \in known
                                   THEN <<Event("code_delta", event.item),
                                          Event("code_done", event.item)>>
                                   ELSE <<Event("other", event.item)>>
    [] event.type = "done"      -> <<>>
    [] event.type = "completed" -> IF hadTool \/ public # <<>> THEN <<>>
                                   ELSE <<Written("completed", reply.items, reply.usage)>>
    [] OTHER                    -> <<Event(event.type, event.item)>>

\* The callback of parseSSEStream.  Only response.completed is billed.
ReadEvent ==
  LET event  == NextEvent
      onward == InItems /\ part < Len(ItemEvents(reply.items[at]))
  IN
  /\ step = "stream" /\ queue = <<>> /\ MoreEvents
  /\ IF onward THEN part' = part + 1 /\ at' = at ELSE part' = 1 /\ at' = at + 1
  /\ queue' = Translated(event)
  /\ hadTool' = (hadTool \/ event.type \in {"added", "done"} \/ event.item \in known)
  /\ known' = IF event.type = "added" /\ event.item.kind = "tool"
              THEN known \cup {event.item} ELSE known
  /\ completed' = (completed \/ event.type = "completed")
  /\ IF event.type = "completed"
     THEN AddUsage(reply.usage) /\ RecordUsage(reply.usage)
     ELSE UNCHANGED <<total, billed>>
  /\ reported' = IF InItems THEN reported ELSE reported + reply.usage
  /\ UNCHANGED <<step, call, clientVars, shown, hop, input, public, sequence, executed,
                 reply, fresh>>

\* emitResponsesEvent
WriteEvent ==
  /\ queue # <<>>
  /\ Write(200, [Head(queue) EXCEPT !.n = sequence])
  /\ sequence' = sequence + 1
  /\ queue' = Tail(queue)
  /\ UNCHANGED <<step, call, shown, billed, hopVars,
                 hop, input, public, total, executed, reported>>

\* A write fails, or the stream of the model breaks or makes no sense.
StreamBreaks ==
  /\ queue # <<>> \/ step = "stream"
  /\ queue' = <<>>
  /\ ReturnError
  /\ UNCHANGED <<call, clientVars, shown, billed, hopVars, loopVars>>

\* Mutant of FinalOutput: the last hop's output only.
FinalOutputOfLast == reply.items

\* publicOutput, with the output of the last hop
FinalOutput == public \o reply.items

\* The end of a hop without a call of the tool is the end of the answer.  Without
\* response.completed there is no response to complete: the handler panics on
\* a nil map, and the connection is dropped.
EndAnswer ==
  /\ step = "stream" /\ queue = <<>> /\ ~MoreEvents /\ ~hadTool
  /\ CASE public = <<>> -> step' = "finish" /\ UNCHANGED <<public, queue>>
       [] public # <<>> /\ completed ->
            /\ public' = FinalOutput
            /\ queue' = <<Written("completed", public', total)>>
            /\ step' = "finish"
       [] OTHER -> step' = "panicked" /\ UNCHANGED <<public, queue>>
  /\ UNCHANGED <<call, clientVars, shown, billed, hopVars,
                 hop, input, total, sequence, executed, reported>>

\* The output is taken from response.completed: it is empty without it.
EndHop ==
  /\ step = "stream" /\ queue = <<>> /\ ~MoreEvents /\ hadTool
  /\ ProcessItems(IF completed THEN reply.items ELSE <<>>)
  /\ UNCHANGED <<call, clientVars, shown, billed, loopVars, queue,
                 hadTool, known, completed>>

\* Mutant of Announcement: the item is done before its execution is.
AnnouncementDoneFirst(item) == [k \in 1..4 |->
  Event(<<"in_progress", "interpreting", "call_done", "call_completed">>[k], item)]

\* The execution of an item, told after it.
Announcement(item) == [k \in 1..4 |->
  Event(<<"in_progress", "interpreting", "call_completed", "call_done">>[k], item)]

\* One execution after the other.
Announcements ==
  [k \in 1..4 * Len(fresh) |-> Announcement(fresh[(k + 3) \div 4])[((k - 1) % 4) + 1]]

SettleStream ==
  LET mixed == HasUser(reply.items) IN
  /\ step = "process" /\ at > Len(reply.items) /\ call.stream
  /\ input' = Replayed
  /\ queue' = Announcements \o IF mixed THEN <<Written("completed", public, total)>> ELSE <<>>
  /\ step' = IF mixed THEN "finish" ELSE "send"
  /\ UNCHANGED <<call, clientVars, shown, billed, hopVars,
                 hop, public, total, sequence, executed, reported>>

FinishStream ==
  /\ step = "finish" /\ queue = <<>>
  /\ ShowUsage(total)
  /\ step' = "done"
  /\ UNCHANGED <<call, clientVars, billed, responsesVars>>

ResponsesNext ==
  \/ InvokeHop \/ TooManyHops \/ HopFails
  \/ \E r \in Replies : ReceiveAnswer(r) \/ ReceiveStream(r)
  \/ KeepItem \/ ExecuteItem \/ ExecuteItemFails \/ SettleAnswer
  \/ ReadEvent \/ WriteEvent \/ StreamBreaks
  \/ EndAnswer \/ EndHop \/ SettleStream \/ FinishStream

----------------------------------------------------------------------------
(* Properties *)

ItemType == [hop : Nat, at : Nat, kind : ItemKinds \cup {"prompt", "output", "none"}]

ResponsesTypeOK ==
  /\ hop \in 0..MaxHops /\ input \in Seq(ItemType)
  /\ reply \in [items : Seq(ItemType), usage : Nat, ending : {"completed", "incomplete"}]
  /\ at \in Nat \ {0} /\ part \in 1..4 /\ hadTool \in BOOLEAN /\ completed \in BOOLEAN
  /\ known \subseteq ItemType
  /\ fresh \in Seq(ItemType) /\ public \in Seq(ItemType) /\ total \in Nat
  /\ sequence \in Nat /\ executed \in Seq(ItemType) /\ reported \in Nat

\* A conversation that the model can continue: each call of the tool is answered
\* once, after it, nothing is in it twice, and no call of a function that only
\* the client can answer is.
Answerable(items) ==
  /\ IsInjective(items)
  /\ ~HasUser(items)
  /\ \A i \in DOMAIN items :
       /\ IsTool(items[i]) => \E j \in i + 1..Len(items) : items[j] = ToolOutput(items[i])
       /\ items[i].kind = "output" =>
            \E j \in 1..i - 1 : IsTool(items[j]) /\ items[i] = ToolOutput(items[j])

\* What the model is sent at the beginning of a hop is such a conversation,
\* however many hops there have been.
ReplayAnswered == step = "await" => Answerable(input)

Finals == {k \in DOMAIN out : out[k].type \in {"answer", "completed"}}

\* The calls of the tool among the items are those that have run, in that order.
ToolsAt(items) == {i \in DOMAIN items : IsTool(items[i])}
Reports(items, ran) ==
  /\ Len(ran) = Cardinality(ToolsAt(items))
  /\ \A i \in ToolsAt(items) : items[i] = ran[Cardinality({j \in ToolsAt(items) : j <= i})]

\* The output of a finished answer reports the executions of all hops, each
\* once and in the order in which they ran.
ExecutedIsReported ==
  call.kind = "responses" => \A k \in Finals : Reports(out[k].items, executed)

CallEvents == <<"call_added", "code_delta", "code_done",
                "in_progress", "interpreting", "call_completed", "call_done">>

\* Event e of the item.  A call that comes without an id is told of when it runs.
Tells(written, e, item) == written.type = CallEvents[e] /\ written.items = <<item>>
FirstEvent(item) == IF item.kind = "tool" THEN 1 ELSE 4

\* Each event of a call is there once, and after those that come before it.
InOrder(events) ==
  \A k \in DOMAIN events, e \in DOMAIN CallEvents : events[k].type = CallEvents[e] =>
    LET item == events[k].items[1] IN
    /\ Tells(events[k], e, item) /\ e >= FirstEvent(item)
    /\ \A d \in FirstEvent(item)..e - 1 : \E j \in 1..k - 1 : Tells(events[j], d, item)
    /\ \A j \in 1..k - 1 : ~Tells(events[j], e, item)

Numbered == \A k \in DOMAIN out :
  out[k].n = k \/ (out[k].n = 0 /\ out[k].type \in {"error", "forwarded"})

\* An event of a call of the tool comes before event k, and is of its hop.
HopOf(event) == event.items[1].hop
ToolBefore(events, k) == \E j \in 1..k - 1 :
  events[j].items # <<>> /\ IsTool(events[j].items[1]) /\ HopOf(events[j]) = HopOf(events[k])

\* Where the response is over.  A response.incomplete does not say so when its
\* hop has called the tool: it is passed on, and the loop asks the model again.
Incomplete(event) == event.type = "incomplete"
PassedOn(k) == Incomplete(out[k]) /\ ToolBefore(out, k)
Ends == Finals \cup {k \in DOMAIN out : Incomplete(out[k]) /\ ~PassedOn(k)}

ToldToEnd == Ends # {} =>
  \A i \in DOMAIN executed : \E k \in DOMAIN out : Tells(out[k], Len(CallEvents), executed[i])
NothingAfterEnd == \A k \in Ends : \A j \in k + 1..Len(out) : out[j].type = "error"

\* What may follow event k of an earlier hop: an event of a later hop, the final
\* one, or an error.
MayFollow(event, k) == event.type \in {"completed", "error", "forwarded"} \/ HopOf(event) > HopOf(out[k])
LaterHopsAfter == \A k \in DOMAIN out : Incomplete(out[k]) =>
  \A j \in k + 1..Len(out) : MayFollow(out[j], k)

\* The client's stream is one stream although it is put together from those
\* of several hops: its numbers are consecutive, each execution goes through
\* its events in their order and ends before the response does, and nothing
\* but an error follows the end of the response.  The end is response.completed,
\* or response.incomplete of a hop that has not called the tool; behind one of
\* a hop that has (responses_runner.go:290) the events of later hops go on, and
\* none of its own.
StreamWellFormed ==
  (call.kind = "responses" /\ call.stream) =>
    Numbered /\ InOrder(out) /\ ToldToEnd /\ NothingAfterEnd /\ LaterHopsAfter

\* The end-to-end test of the usage says that the usage in the final
\* response.completed event "accumulates tokens from all upstream model calls
\* (not just the last one)" (tests/e2e/responses_ci_test.go:397).  A hop that
\* calls the tool and ends with response.incomplete is not counted.
AllHopsCounted ==
  (call.kind = "responses" /\ call.stream) =>
    \A k \in Finals : out[k].usage = reported
=============================================================================
