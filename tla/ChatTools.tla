----------------------------- MODULE ChatTools ------------------------------
(***************************************************************************)
(* Tool calls of /v1/chat/completions in openaiapi/chat_runner.go: one     *)
(* call of the model, whose calls of code_interpreter are executed and     *)
(* patched with their results.  In a stream a call arrives in pieces, and  *)
(* the pieces of several calls and choices in any order; the calls are     *)
(* executed when the stream has ended.                                     *)
(*                                                                         *)
(* Abstracted: a chunk and the blank line after it are one step, and each  *)
(* chunk has one piece of one call, or none.                               *)
(***************************************************************************)
EXTENDS UpstreamCall

CONSTANTS
  Completions, \* answers of the model: [status, usage, calls]
  MaxChunks    \* bound: chunks of a stream without a piece of a call

ChatCalls == [choice : Nat, index : Nat, name : {"ci", "user"}, pieces : Nat \ {0}]

ASSUME CompletionsAssumption ==
  /\ Completions \subseteq [status : {"ok", "error", "garbled"}, usage : Usages,
                            calls : Seq(ChatCalls)]
  /\ MaxChunks \in Nat

VARIABLES
  completion, \* the answer; a call is a position in its calls
  arrived,    \* pieces of each call that have arrived
  chunks,     \* other chunks of the stream so far
  builders,   \* tool calls put together so far, by choice and index
  finalUsage, \* the last usage reported, 0 if none
  lastChunk,  \* lastChunk # nil
  cursor,     \* the next call of a JSON answer
  chatRan,    \* history: executions in order, [id, args]
  latest      \* history: the model's last report

chatVars == <<completion, arrived, chunks, builders, finalUsage, lastChunk, cursor, chatRan, latest>>

NoCompletion == [status |-> "ok", usage |-> 0, calls |-> <<>>]

ChatInit ==
  /\ completion = NoCompletion /\ arrived = <<>> /\ chunks = 0 /\ builders = <<>>
  /\ finalUsage = 0 /\ lastChunk = FALSE /\ cursor = 1
  /\ chatRan = <<>> /\ latest = 0

\* setUsageHeaderOrTrailer, for an answer that may have no usage
ShowChatUsage(usage) == IF usage = 0 THEN UNCHANGED shown ELSE ShowUsage(usage)

IsInterpreter(c) == completion.calls[c].name = "ci"
ChatArgs(c, n) == [k \in 1..n |-> <<c, k>>]

----------------------------------------------------------------------------
(* handleChatJSON *)

\* The call fails, its body cannot be read, or the client has left; streams
\* of errors that cannot be read end like this too.
ChatFails ==
  /\ step = "chat"
  /\ ApiError(502)
  /\ step' = "done"
  /\ UNCHANGED <<call, shown, billed, chatVars>>

\* chatCompletionHasToolCalls
HasCalls(r) == \E c \in DOMAIN r.calls : r.calls[c].name = "ci"

\* A JSON answer is billed before its status is looked at.
ReceiveCompletion(r) ==
  /\ step = "chat" /\ ~call.stream
  /\ RecordUsage(r.usage)
  /\ latest' = r.usage
  /\ completion' = r
  /\ CASE r.status = "error"   -> /\ Write(500, Written("forwarded", <<>>, 0))
                                  /\ step' = "done" /\ UNCHANGED shown
       [] r.status = "garbled" -> /\ ApiError(502)
                                  /\ step' = "done" /\ UNCHANGED shown
       [] r.status = "ok" /\ ~HasCalls(r) -> /\ ShowChatUsage(r.usage)
                                          /\ Write(200, Written("answer", <<>>, r.usage))
                                          /\ step' = "done"
       [] OTHER -> step' = "chat_patch" /\ UNCHANGED <<clientVars, shown>>
  /\ UNCHANGED <<call, arrived, chunks, builders, finalUsage, lastChunk, cursor, chatRan>>

\* The calls are taken in the order of the answer.
PatchCall ==
  /\ step = "chat_patch" /\ cursor \in DOMAIN completion.calls
  /\ chatRan' = IF IsInterpreter(cursor)
                THEN Append(chatRan, [id |-> cursor,
                                      args |-> ChatArgs(cursor, completion.calls[cursor].pieces)])
                ELSE chatRan
  /\ cursor' = cursor + 1
  /\ UNCHANGED <<sharedVars, completion, arrived, chunks, builders, finalUsage, lastChunk, latest>>

PatchFails ==
  /\ step = "chat_patch" /\ cursor \in DOMAIN completion.calls /\ IsInterpreter(cursor)
  /\ ApiError(502)
  /\ step' = "done"
  /\ UNCHANGED <<call, shown, billed, chatVars>>

AnswerChat ==
  /\ step = "chat_patch" /\ cursor > Len(completion.calls)
  /\ ShowChatUsage(completion.usage)
  /\ Write(200, Written("answer", [k \in DOMAIN chatRan |-> chatRan[k].id], completion.usage))
  /\ step' = "done"
  /\ UNCHANGED <<call, billed, chatVars>>

----------------------------------------------------------------------------
(* handleChatStream, streamChatResponse *)

OpenStream(r) ==
  /\ step = "chat" /\ call.stream /\ r.status # "garbled"
  /\ IF r.status = "error"
     THEN /\ Write(500, Written("forwarded", <<>>, 0))
          /\ step' = "done"
          /\ UNCHANGED <<completion, arrived>>
     ELSE /\ step' = "chat_stream"
          /\ completion' = r
          /\ arrived' = [c \in DOMAIN r.calls |-> 0]
          /\ UNCHANGED clientVars
  /\ UNCHANGED <<call, shown, billed, chunks, builders, finalUsage, lastChunk, cursor,
                 chatRan, latest>>

\* usageFromChatChunk: every chunk may report usage; the last report counts.
NoteUsage(usage) ==
  /\ finalUsage' = IF usage # 0 THEN usage ELSE finalUsage
  /\ latest' = IF usage # 0 THEN usage ELSE latest

\* Mutant of BuilderKey: calls are told apart by their index only.
BuilderKeyByIndex(c) == <<0, completion.calls[c].index>>

\* The builders are a map by choice of maps by index.
BuilderKey(c) == <<completion.calls[c].choice, completion.calls[c].index>>

\* collectChatToolCalls: the first piece brings the id and the name, and every
\* piece a part of the arguments.
Collected(c, piece) ==
  LET key == BuilderKey(c)
      old == IF key \in DOMAIN builders THEN builders[key]
             ELSE [id |-> 0, name |-> "none", args |-> <<>>]
      new == [id   |-> IF piece = 1 THEN c ELSE old.id,
              name |-> IF piece = 1 THEN completion.calls[c].name ELSE old.name,
              args |-> Append(old.args, <<c, piece>>)]
  IN [k \in DOMAIN builders \cup {key} |-> IF k = key THEN new ELSE builders[k]]

PieceArrives(c, usage) ==
  /\ step = "chat_stream" /\ arrived[c] < completion.calls[c].pieces
  /\ arrived' = [arrived EXCEPT ![c] = @ + 1]
  /\ builders' = Collected(c, arrived[c] + 1)
  /\ NoteUsage(usage)
  /\ lastChunk' = TRUE
  /\ Write(200, Written("piece", <<c, arrived[c] + 1>>, 0))
  /\ UNCHANGED <<step, call, shown, billed, completion, chunks, cursor, chatRan>>

\* isUsageOnlyTypedChatChunk
IsUsageOnly(type) == type = "usage"

\* A chunk without a tool call, a line that is no chunk, or a chunk with usage
\* and no choices, which the client gets only if it has asked for it.
ChunkArrives(type, usage) ==
  LET hidden == IsUsageOnly(type) /\ ~call.wants IN
  /\ step = "chat_stream" /\ chunks < MaxChunks
  /\ (type = "odd" => usage = 0) /\ (type = "usage" => usage # 0)
  /\ chunks' = chunks + 1
  /\ NoteUsage(usage)
  /\ lastChunk' = (lastChunk \/ (type # "odd" /\ ~hidden))
  /\ IF hidden THEN UNCHANGED clientVars ELSE Write(200, Written(type, <<>>, 0))
  /\ UNCHANGED <<step, call, shown, billed, completion, arrived, builders, cursor, chatRan>>

\* With [DONE] or without: the end of the body counts as the end of the answer.
EndStream ==
  /\ step = "chat_stream"
  /\ RecordUsage(finalUsage)
  /\ step' = "chat_execute"
  /\ UNCHANGED <<call, clientVars, shown, chatVars>>

BreakStream ==
  /\ step = "chat_stream"
  /\ ReturnError
  /\ UNCHANGED <<call, clientVars, shown, billed, chatVars>>

HasRun(key) == \E k \in DOMAIN chatRan : chatRan[k].id = builders[key].id
Waiting == {key \in DOMAIN builders : builders[key].name = "ci" /\ ~HasRun(key)}

\* The order of a map is random, so any choice may be next, but a choice that
\* has been begun is finished first.
MayRunNext(key) ==
  /\ key \in Waiting
  /\ chatRan # <<>> =>
       LET choice == completion.calls[chatRan[Len(chatRan)].id].choice IN
       (\E other \in Waiting : other[1] = choice) => key[1] = choice

\* buildChatExecutionChunk: the result under the call's choice and index.
Patch(key) == Written("patch", <<key, builders[key].id>>, 0)

RunBuilder(key) ==
  /\ step = "chat_execute" /\ MayRunNext(key)
  /\ chatRan' = Append(chatRan, [id |-> builders[key].id, args |-> builders[key].args])
  /\ Write(200, Patch(key))
  /\ UNCHANGED <<step, call, shown, billed, completion, arrived, chunks, builders, finalUsage,
                 lastChunk, cursor, latest>>

\* The execution fails, or its chunk cannot be written.
RunBuilderFails ==
  /\ step = "chat_execute" /\ Waiting # {}
  /\ ReturnError
  /\ UNCHANGED <<call, clientVars, shown, billed, chatVars>>

\* The router's own [DONE]; a stream without a chunk gets none.
FinishChat ==
  /\ step = "chat_execute" /\ Waiting = {}
  /\ ShowChatUsage(finalUsage)
  /\ IF chatRan # <<>> \/ lastChunk
     THEN Write(200, Written("done", <<>>, 0))
     ELSE status' = 200 /\ UNCHANGED out
  /\ step' = "done"
  /\ UNCHANGED <<call, billed, chatVars>>

ChatNext ==
  \/ ChatFails
  \/ \E r \in Completions : ReceiveCompletion(r) \/ OpenStream(r)
  \/ PatchCall \/ PatchFails \/ AnswerChat
  \/ \E c \in DOMAIN arrived, usage \in Usages : PieceArrives(c, usage)
  \/ \E type \in {"text", "odd", "usage"}, usage \in Usages : ChunkArrives(type, usage)
  \/ EndStream \/ BreakStream
  \/ \E key \in DOMAIN builders : RunBuilder(key)
  \/ RunBuilderFails \/ FinishChat

----------------------------------------------------------------------------
(* Properties *)

ChatTypeOK ==
  /\ completion \in Completions \cup {NoCompletion}
  /\ arrived \in Seq(Nat) /\ chunks \in 0..MaxChunks
  /\ \A key \in DOMAIN builders :
       builders[key] \in [id : Nat, name : {"none", "ci", "user"}, args : Seq(Nat \X Nat)]
  /\ finalUsage \in Usages \cup {0} /\ lastChunk \in BOOLEAN /\ cursor \in Nat \ {0}
  /\ chatRan \in Seq([id : Nat, args : Seq(Nat \X Nat)]) /\ latest \in Usages \cup {0}

Succeeded == step = "done" /\ out # <<>> /\ Last(out).type \in {"answer", "done"}

\* The calls that an answer of the model has made, with what it has sent of
\* each: all of it in JSON, and in a stream as far as that has come.
Made(c) == IF call.stream THEN arrived[c] ELSE completion.calls[c].pieces
At(c) == <<completion.calls[c].choice, completion.calls[c].index>>
Runs(c) == {k \in DOMAIN chatRan : chatRan[k].id = c}
Patches(c) == {k \in DOMAIN out : out[k].type = "patch" /\ out[k].items = <<At(c), c>>}

\* Each call of the tool runs at most once and with its own arguments, whole
\* and in order, however the pieces of several calls are mixed; in a finished
\* answer each has run, and its result stands under its own choice and index.
\* A call of the client's own function never runs.
CallsRunOnce ==
  call.kind = "chat" => \A c \in DOMAIN completion.calls :
    /\ \A k \in Runs(c) : chatRan[k].args = ChatArgs(c, Made(c))
    /\ \A j, k \in Runs(c) : j = k
    /\ Runs(c) # {} => IsInterpreter(c)
    /\ (Succeeded /\ IsInterpreter(c) /\ Made(c) > 0) =>
         /\ Runs(c) # {}
         /\ call.stream => \E k \in Patches(c) : Patches(c) = {k}
=============================================================================
