---------------------------- MODULE UpstreamCall ----------------------------
(***************************************************************************)
(* What the tool runners share: the direct calls to one enclave            *)
(* (manager/upstream.go), the answer they write to the client and the      *)
(* usage they bill and show (openaiapi/util.go).  One request; the modules *)
(* RequestPlan, ResponsesLoop and ChatTools add its steps, RequestHandler  *)
(* composes them.                                                          *)
(***************************************************************************)
EXTENDS Integers, Sequences, SequencesExt

CONSTANT Usages  \* tokens that an answer may report; 0 for no report

ASSUME UsagesAssumption == Usages \subseteq Nat

VARIABLES
  step,   \* where the handler of the request is
  call,   \* what the runners read of the request, see Calls
  status, \* status line written to the client, 0 if none
  out,    \* what the router has written to the client after it
  shown,  \* usage header or trailer of the answer, NotShown if none
  billed  \* billing events of the invoker and their tokens

clientVars == <<status, out>>
sharedVars == <<step, call, clientVars, shown, billed>>

NotShown == -1

Calls == [kind : {"none", "chat", "responses"}, stream : BOOLEAN, metrics : BOOLEAN,
          wants : BOOLEAN, key : BOOLEAN, model : {"llm", "websearch"}]

NoCall == [kind |-> "none", stream |-> FALSE, metrics |-> FALSE, wants |-> FALSE,
           key |-> FALSE, model |-> "llm"]

SharedInit ==
  /\ step = "arrive" /\ call = NoCall
  /\ status = 0 /\ out = <<>> /\ shown = NotShown
  /\ billed = [events |-> 0, tokens |-> 0]

\* One thing written to the client: an answer, an event or an error, the
\* items it is about, the tokens it reports, and a sequence number.
Written(type, items, usage) == [type |-> type, items |-> items, usage |-> usage, n |-> 0]

\* Writes after the first leave the status line as it is.
Write(code, written) ==
  /\ status' = IF status = 0 THEN code ELSE status
  /\ out' = Append(out, written)

\* writeAPIError and jsonError
ApiError(code) == Write(code, Written("error", <<>>, 0))

\* setUsageHeaderOrTrailer
ShowUsage(tokens) == shown' = IF call.metrics THEN tokens ELSE shown

\* UpstreamInvoker.RecordUsage: a request to the websearch model is billed
\* without its tokens.
RecordUsage(tokens) ==
  billed' = IF ~call.key THEN billed
            ELSE [events |-> billed.events + 1,
                  tokens |-> billed.tokens + IF call.model = "websearch" THEN 0 ELSE tokens]

\* A handler that returns an error leaves the answer to serveTyped.
ReturnError == step' = "failed"

\* Mutant of ReportError: only if nothing has been written yet.
ReportErrorBeforeFirst ==
  /\ step = "failed" /\ status = 0
  /\ ApiError(502)
  /\ step' = "done"
  /\ UNCHANGED <<call, shown, billed>>

\* serveTyped writes it, after whatever the stream has written already.
ReportError ==
  /\ step = "failed"
  /\ ApiError(502)
  /\ step' = "done"
  /\ UNCHANGED <<call, shown, billed>>

Ended == step \in {"done", "proxied", "panicked"}
=============================================================================
