---------------------------- MODULE ProxyResponse ----------------------------
(***************************************************************************)
(* What the reverse proxy of an enclave does with the answer of the        *)
(* backend: ModifyResponse and billingCloser in manager/proxy.go, the      *)
(* token extractors of tokencount/extractor.go and the usage trailer of    *)
(* manager/usage_writer.go.  One request; requests share only the billing  *)
(* collector (BillingCollector).                                           *)
(*                                                                         *)
(* A JSON body or another body is read to its end or not.  An event stream *)
(* goes through a goroutine that scans its lines, records the usage they   *)
(* report and hands them through an unbuffered pipe to the goroutine that  *)
(* copies to the client.                                                   *)
(***************************************************************************)
EXTENDS Integers, Sequences

CONSTANTS
  Queries,  \* requests: [key, metrics, wants, model]
  Answers,  \* heads of the backend's answers: [status, type, body]
  Lines,    \* lines of a stream: [kind, usage]
  Usages,   \* usage reports: [prompt, completion, total]
  MaxLines  \* bound: lines of a stream

NoUsage == [prompt |-> 0, completion |-> 0, total |-> 0]

ASSUME ConstantsAssumption ==
  /\ Queries \subseteq [key : {"none", "set"}, metrics : BOOLEAN, wants : BOOLEAN,
                        model : {"tokens", "websearch"}]
  /\ Answers \subseteq [status : {"ok", "error", "upgrade"},
                        type : {"json", "stream", "other"},
                        body : {"usage", "plain", "huge"}]
  /\ Usages \subseteq [prompt : Nat, completion : Nat, total : Nat]
  /\ Lines \subseteq [kind : {"blank", "delta", "report", "usage_only", "long"},
                      usage : Usages \cup {NoUsage}]
  /\ MaxLines \in Nat
  \* some body reports a usage
  /\ \E u \in Usages : u.total > 0

VARIABLES
  query, answer,
  proxy,     \* the handler: "modify", "copy", "close", "trailer", "done",
             \* "failed" (502) or "aborted" (connection dropped)
  extractor, \* the stream goroutine: "none", "scan", "write", "report",
             \* "close" or "done"
  line,      \* the line it is about to write
  filtered,  \* lastLineWasFiltered
  usage,     \* the usage it has recorded
  pipe,      \* "open", "reader_closed" or "ended"
  upstream,  \* the backend's body: "open", "ended", "failed" or "cancelled"
  reading,   \* a body that is not a stream: "none", "part" or "all"
  called,    \* handlerCalled
  trailer,   \* "off", "on", or what was set: usageMetricsWriter
  noted,     \* the wrapper's usage, NoUsage if none
  header,    \* usage header or trailer the client gets, NoUsage if none
  events,    \* sequence of billing events: usages, NoUsage for a zero-token event
  sent,      \* history: lines that the scanner has read
  received   \* lines that the client has received

streamVars == <<extractor, line, filtered, usage, pipe, sent, received>>
bodyVars   == <<upstream, reading>>
usageVars  == <<called, trailer, noted, header, events>>
vars == <<query, answer, proxy, streamVars, bodyVars, usageVars>>

NoLine == [kind |-> "none", usage |-> NoUsage]
Streaming == answer.type = "stream"

UsageType == [prompt : Nat, completion : Nat, total : Nat]

\* The type invariant: every variable has its type.
TypeOK ==
  /\ query \in Queries /\ answer \in Answers
  /\ proxy \in {"modify", "copy", "close", "trailer", "done", "failed", "aborted"}
  /\ extractor \in {"none", "scan", "write", "report", "close", "done"}
  /\ line \in Lines \cup {NoLine} /\ filtered \in BOOLEAN
  /\ usage \in UsageType
  /\ pipe \in {"open", "reader_closed", "ended"}
  /\ upstream \in {"open", "ended", "failed", "cancelled"}
  /\ reading \in {"none", "part", "all"}
  /\ called \in BOOLEAN /\ trailer \in {"off", "on"}
  /\ noted \in UsageType
  /\ header \in UsageType
  /\ events \in Seq(UsageType)
  /\ sent \in Seq(Lines) /\ received \in Seq(Lines)

Init ==
  /\ query \in Queries /\ answer \in Answers
  /\ proxy = "modify" /\ extractor = "none" /\ line = NoLine /\ filtered = FALSE
  /\ usage = NoUsage /\ pipe = "open" /\ upstream = "open" /\ reading = "none"
  /\ called = FALSE /\ trailer = "off" /\ noted = NoUsage /\ header = NoUsage
  /\ events = <<>> /\ sent = <<>> /\ received = <<>>

----------------------------------------------------------------------------
(* Billing *)

\* The body of a JSON answer reports this usage once it has been read fully.
BodyUsage == CHOOSE u \in Usages : u.total > 0

\* emitZeroTokenEvent where the code asks for an API key first.
ZeroIfKey(list) == IF query.key = "set" THEN Append(list, NoUsage) ELSE list

\* usageHandler: the websearch model is billed per request.
Billed(list, u) == Append(list, IF query.model = "websearch" THEN NoUsage ELSE u)

----------------------------------------------------------------------------
(* ModifyResponse *)

\* 101: billed now, the connection is copied both ways afterwards.
Upgrade ==
  /\ proxy = "modify" /\ answer.status = "upgrade"
  /\ events' = ZeroIfKey(events)
  /\ proxy' = "done"
  /\ UNCHANGED <<query, answer, streamVars, bodyVars, called, trailer, noted, header>>

StartStream ==
  /\ proxy = "modify" /\ answer.status # "upgrade" /\ Streaming
  /\ trailer' = IF query.metrics THEN "on" ELSE "off"
  /\ extractor' = "scan" /\ proxy' = "copy"
  /\ UNCHANGED <<query, answer, line, filtered, usage, pipe, sent, received, bodyVars,
                 called, noted, header, events>>

\* The answer is read before the client gets it, to set the usage header.
Buffers ==
  /\ answer.status = "ok" /\ answer.type = "json" /\ query.metrics

BufferFails ==
  /\ proxy = "modify" /\ Buffers
  /\ proxy' = "failed" /\ upstream' = "failed"
  /\ UNCHANGED <<query, answer, streamVars, reading, usageVars>>

BufferBody ==
  /\ proxy = "modify" /\ Buffers /\ answer.body # "huge"
  /\ upstream' = "ended" /\ reading' = "all" /\ proxy' = "done"
  /\ IF answer.body = "usage"
       THEN /\ called' = TRUE /\ events' = Billed(events, BodyUsage)
            /\ header' = BodyUsage
       ELSE events' = ZeroIfKey(events) /\ UNCHANGED <<called, header>>
  /\ UNCHANGED <<query, answer, streamVars, trailer, noted>>

\* Above maxUsageMetricsBodyBytes the body is passed on as it is.
PassHuge ==
  /\ proxy = "modify" /\ Buffers /\ answer.body = "huge"
  /\ proxy' = "copy"
  /\ UNCHANGED <<query, answer, streamVars, bodyVars, usageVars>>

PassBody ==
  /\ proxy = "modify" /\ answer.status # "upgrade" /\ ~ Streaming /\ ~ Buffers
  /\ proxy' = "copy"
  /\ UNCHANGED <<query, answer, streamVars, bodyVars, usageVars>>

----------------------------------------------------------------------------
(* A body that is not a stream *)

\* The copy reads the whole body, or stops because one of the sides fails; the
\* client may also leave after the last read.
CopyBody ==
  /\ proxy = "copy" /\ ~ Streaming
  /\ reading' \in {"part", "all"} /\ proxy' = "close"
  /\ upstream' = IF reading' = "all" THEN "ended" ELSE "failed"
  /\ UNCHANGED <<query, answer, streamVars, usageVars>>

\* teeReaderCloser extracts the usage of a complete JSON body, billingCloser
\* then bills a request without usage.  An oversized body has neither.
CloseBody ==
  LET wrapped == ~ Buffers /\ answer.status = "ok"
      found   == /\ wrapped /\ answer.type = "json"
                 /\ answer.body # "plain" /\ reading = "all"
  IN
  /\ proxy = "close" /\ ~ Streaming
  /\ called' = found
  /\ events' = IF found THEN Billed(events, BodyUsage)
               ELSE IF wrapped THEN ZeroIfKey(events) ELSE events
  /\ proxy' \in IF reading = "all" THEN {"done", "aborted"} ELSE {"aborted"}
  /\ UNCHANGED <<query, answer, streamVars, bodyVars, trailer, noted, header>>

----------------------------------------------------------------------------
(* processStream *)

\* Mutant of Merge: the last report replaces the recorded one, zeros included.
MergeWhole(old, new) == IF new = NoUsage THEN old ELSE new

\* Mutant of Merge: keeps the difference to the last report.
MergeDifference(old, new) ==
  [f \in DOMAIN old |-> IF new[f] > 0 THEN new[f] - old[f] ELSE old[f]]

\* Fields of a report that are not positive leave the recorded ones alone.
Merge(old, new) ==
  [f \in DOMAIN old |-> IF new[f] > 0 THEN new[f] ELSE old[f]]

\* A usage-only chunk the client has not asked for is kept from it.
Hidden(l) == l.kind = "usage_only" /\ ~ query.wants

\* Mutant of ScanLine: lastLineWasFiltered is never reset.
ScanLineFiltering(l) ==
  /\ extractor = "scan" /\ upstream \in {"open", "cancelled"} /\ Len(sent) < MaxLines
  /\ l.kind # "long"
  /\ sent' = Append(sent, l)
  /\ usage' = Merge(usage, l.usage)
  /\ filtered' = (filtered \/ Hidden(l))
  /\ IF Hidden(l) \/ (filtered /\ l.kind = "blank")
       THEN UNCHANGED <<extractor, line>>
       ELSE extractor' = "write" /\ line' = l
  /\ UNCHANGED <<query, answer, proxy, pipe, received, bodyVars, usageVars>>

ScanLine(l) ==
  /\ extractor = "scan" /\ upstream \in {"open", "cancelled"} /\ Len(sent) < MaxLines
  /\ l.kind # "long"
  /\ sent' = Append(sent, l)
  /\ usage' = Merge(usage, l.usage)
  /\ filtered' = Hidden(l)
  /\ IF Hidden(l) \/ (filtered /\ l.kind = "blank")
       THEN UNCHANGED <<extractor, line>>
       ELSE extractor' = "write" /\ line' = l
  /\ UNCHANGED <<query, answer, proxy, pipe, received, bodyVars, usageVars>>

\* bufio.Scanner gives up at a line of more than 64 KB, whatever it reports.
ScanLong(l) ==
  /\ extractor = "scan" /\ upstream \in {"open", "cancelled"} /\ Len(sent) < MaxLines
  /\ l.kind = "long"
  /\ sent' = Append(sent, l)
  /\ extractor' = "report"
  /\ UNCHANGED <<query, answer, proxy, line, filtered, usage, pipe, received, bodyVars,
                 usageVars>>

\* The end of the body, or a read that fails: Scan returns FALSE for both.
ScanEnds(how) ==
  /\ extractor = "scan"
  /\ \/ upstream = "open" /\ upstream' = how
     \/ upstream = "cancelled" /\ UNCHANGED upstream
  /\ extractor' = "report"
  /\ UNCHANGED <<query, answer, proxy, line, filtered, usage, pipe, sent, received,
                 reading, usageVars>>

\* Write blocks until the copy has taken the line.
WriteLine ==
  /\ extractor = "write" /\ pipe = "open" /\ proxy = "copy"
  /\ received' = Append(received, line)
  /\ extractor' = "scan" /\ line' = NoLine
  /\ UNCHANGED <<query, answer, proxy, filtered, usage, pipe, sent, bodyVars, usageVars>>

\* The reader is gone: the error of Write is ignored.
WriteFails ==
  /\ extractor = "write" /\ pipe = "reader_closed"
  /\ extractor' = "scan" /\ line' = NoLine
  /\ UNCHANGED <<query, answer, proxy, filtered, usage, pipe, sent, received, bodyVars,
                 usageVars>>

\* The usage that is reported in the end.
Total(u) ==
  [u EXCEPT !.total = IF u.total = 0 THEN u.prompt + u.completion ELSE u.total]

Reports(u) == u.total > 0 \/ u.completion > 0

\* Mutant of Report: the trailer gets the usage before its total is filled in.
ReportUntotalled ==
  /\ extractor = "report"
  /\ IF Reports(usage)
       THEN /\ usage' = Total(usage)
            /\ called' = TRUE
            /\ noted' = IF query.metrics THEN usage ELSE noted
            /\ events' = Billed(events, Total(usage))
       ELSE UNCHANGED <<usage, called, noted, events>>
  /\ extractor' = "close"
  /\ UNCHANGED <<query, answer, proxy, line, filtered, pipe, sent, received, bodyVars,
                 trailer, header>>

\* usageHandler, if there is any usage.
Report ==
  /\ extractor = "report"
  /\ IF Reports(usage)
       THEN /\ usage' = Total(usage)
            /\ called' = TRUE
            /\ noted' = IF query.metrics THEN Total(usage) ELSE noted
            /\ events' = Billed(events, Total(usage))
       ELSE UNCHANGED <<usage, called, noted, events>>
  /\ extractor' = "close"
  /\ UNCHANGED <<query, answer, proxy, line, filtered, pipe, sent, received, bodyVars,
                 trailer, header>>

\* defer s.writer.Close()
CloseWriter ==
  /\ extractor = "close"
  /\ pipe' = IF pipe = "open" THEN "ended" ELSE pipe
  /\ extractor' = "done"
  /\ UNCHANGED <<query, answer, proxy, line, filtered, usage, sent, received, bodyVars,
                 usageVars>>

----------------------------------------------------------------------------
(* The copy of a stream to the client *)

\* Mutant of ClientGone: the copy leaves its end of the pipe open.
ClientGoneKeepingPipe ==
  /\ proxy = "copy" /\ Streaming
  /\ proxy' = "aborted"
  /\ upstream' = IF upstream = "open" THEN "cancelled" ELSE upstream
  /\ UNCHANGED <<query, answer, extractor, line, filtered, usage, pipe, sent, received,
                 reading, usageVars>>

\* The client disconnects: the copy fails, closes its end of the pipe and
\* panics; the server cancels the request to the backend.
ClientGone ==
  /\ proxy = "copy" /\ Streaming
  /\ pipe' = "reader_closed" /\ proxy' = "aborted"
  /\ upstream' = IF upstream = "open" THEN "cancelled" ELSE upstream
  /\ UNCHANGED <<query, answer, extractor, line, filtered, usage, sent, received,
                 reading, usageVars>>

\* The server notices that the connection is gone while nothing is written:
\* it cancels the request to the backend, and the copy goes on.
ConnectionLost ==
  /\ proxy = "copy" /\ Streaming /\ upstream = "open"
  /\ upstream' = "cancelled"
  /\ UNCHANGED <<query, answer, proxy, streamVars, reading, usageVars>>

CopyEnds ==
  /\ proxy = "copy" /\ Streaming /\ pipe = "ended"
  /\ proxy' = "trailer"
  /\ UNCHANGED <<query, answer, streamVars, bodyVars, usageVars>>

\* WriteTrailer, after the proxy has returned.
WriteTrailer ==
  /\ proxy = "trailer"
  /\ header' = IF trailer = "on" THEN noted ELSE header
  /\ proxy' = "done"
  /\ UNCHANGED <<query, answer, streamVars, bodyVars, called, trailer, noted, events>>

----------------------------------------------------------------------------
Next ==
  \/ Upgrade \/ StartStream \/ BufferFails \/ BufferBody \/ PassHuge \/ PassBody
  \/ CopyBody \/ CloseBody
  \/ \E l \in Lines : ScanLine(l) \/ ScanLong(l)
  \/ \E how \in {"ended", "failed"} : ScanEnds(how)
  \/ WriteLine \/ WriteFails \/ Report \/ CloseWriter
  \/ ClientGone \/ ConnectionLost \/ CopyEnds \/ WriteTrailer

Spec == Init /\ [][Next]_vars

Goroutine == WriteFails \/ Report \/ CloseWriter
Handler == CopyEnds \/ WriteTrailer
\* The read of a cancelled request fails.
CancelledReadFails == upstream = "cancelled" /\ ScanEnds("failed")
\* A write to a lost connection returns, with or without an error.
CancelledWriteReturns == upstream = "cancelled" /\ (WriteLine \/ ClientGone)

\* The scheduler runs both goroutines, and reads and writes return once the
\* connection is lost; nothing is assumed of a backend that stays silent nor
\* of a client that neither reads nor leaves.
FairSpec ==
  /\ Spec
  /\ WF_vars(Goroutine) /\ WF_vars(Handler)
  /\ SF_vars(CancelledReadFails) /\ WF_vars(CancelledWriteReturns)

----------------------------------------------------------------------------
(* Properties *)

\* The places of the lines a client may see: all but the hidden chunks and the
\* blank line that ends each of them.
Shown(lines) ==
  {i \in 1..Len(lines) :
     /\ ~ Hidden(lines[i])
     /\ ~ (i > 1 /\ lines[i].kind = "blank" /\ Hidden(lines[i - 1]))}

\* The sequence `part` has the lines at these places, all of them, in order.
InOrder(part, lines, places) ==
  \E at \in [1..Len(part) -> places] :
    /\ \A i \in 1..Len(part) : part[i] = lines[at[i]]
    /\ \A i, j \in 1..Len(part) : i < j => at[i] < at[j]
    /\ \A p \in places : \E i \in 1..Len(part) : at[i] = p

\* The client has what may be shown of the first n lines.
Delivered(n) == InOrder(received, sent, {p \in Shown(sent) : p <= n})

\* The last positive value of each counter that the stream has reported.
ReportedAt(lines, f) ==
  {i \in 1..Len(lines) : lines[i].kind # "long" /\ lines[i].usage[f] > 0}

Reported(lines) ==
  [f \in DOMAIN NoUsage |->
     LET at == ReportedAt(lines, f)
     IN IF at = {} THEN 0
        ELSE lines[CHOOSE i \in at : \A j \in at : j <= i].usage[f]]

Over == proxy \in {"done", "failed", "aborted"} /\ extractor \in {"none", "done"}

\* The client sees the backend's lines in their order, without gaps but for
\* the hidden ones, and never an empty event in the place of a hidden chunk
\* (extractor.go:166-242); it sees all of them when neither the backend nor the
\* client breaks off and no line is longer than the scanner takes.
PassesThrough ==
  /\ \E n \in 0..Len(sent) : Delivered(n)
  /\ (proxy = "done" /\ Streaming /\ upstream = "ended") => Delivered(Len(sent))

\* A stream is billed once, for the last usage that it has reported, also
\* when it was hidden from the client or the client has left; a stream
\* without usage is not billed (extractor.go:244-259, proxy.go:137-181).
\* Another answer is billed at most once; a successful one with an API key
\* exactly once, whether or not it reports usage and however much of it was
\* copied; an error never.  Left out: bodies above the buffering limit.
BilledOnce ==
  /\ (Over /\ Streaming /\ answer.status # "upgrade") =>
       LET u == Reported(sent)
       IN events = IF Reports(u) THEN Billed(<<>>, Total(u)) ELSE <<>>
  /\ (Over /\ ~ Streaming) =>
       /\ Len(events) <= 1
       /\ (answer.status = "error" \/ proxy = "failed") => events = <<>>
       /\ (/\ answer.status # "error" /\ proxy # "failed" /\ query.key = "set"
           /\ ~ (Buffers /\ answer.body = "huge")) => Len(events) = 1

\* The usage in the header or the trailer is the usage that was billed, and a
\* client that asked for it and got a whole stream has it: SetUsage precedes
\* the end of the pipe, which precedes WriteTrailer (usage_writer.go:57-67).
HeaderMatchesBill ==
  /\ header # NoUsage => query.metrics /\ events = Billed(<<>>, header)
  /\ (proxy = "done" /\ query.metrics /\ called) => header # NoUsage

\* When the client has gone, the stream goroutine does not linger, neither in
\* a read from the backend nor in a write to the pipe; and when the backend has
\* ended its stream, the client gets the end of it.
StreamEnds ==
  /\ (upstream = "cancelled") ~> (extractor = "done")
  /\ (extractor \in {"report", "close"}) ~> (proxy \in {"done", "aborted"})

\* What a test asks of a stream with bad data: "Should still pass through the
\* entire stream" (extractor_test.go:281).  A line the scanner does not take
\* ends the client's stream as if it were complete.
WholeStream ==
  (proxy = "done" /\ Streaming /\ upstream \in {"open", "ended"}) => Delivered(Len(sent))

----------------------------------------------------------------------------
(* The invariant of the proofs *)

Last(lines) == lines[Len(lines)]

\* Only a stream that is not an upgrade has a goroutine; the copy ends with it.
Stages ==
  /\ extractor # "none" => Streaming /\ answer.status # "upgrade"
  /\ extractor = "none" => sent = <<>> /\ received = <<>> /\ usage = NoUsage /\ pipe = "open"
  /\ proxy \in {"close", "failed"} => ~ Streaming
  /\ (Streaming /\ answer.status # "upgrade") => (extractor = "none" <=> proxy = "modify")
  /\ (Streaming /\ answer.status # "upgrade" /\ proxy # "modify") =>
       trailer = IF query.metrics THEN "on" ELSE "off"
  /\ (answer.status = "upgrade") => proxy \in {"modify", "done"}
  /\ pipe = "ended" => extractor = "done"
  /\ (extractor # "none" /\ proxy \in {"trailer", "done"}) => pipe = "ended"
  /\ proxy = "trailer" => extractor # "none"
  /\ pipe = "reader_closed" => proxy = "aborted"
  /\ (Streaming /\ upstream = "ended") => extractor \in {"report", "close", "done"}

\* There is a last report, if there is any.
HasLast(lines) ==
  \A f \in DOMAIN NoUsage :
    ReportedAt(lines, f) = {} \/ \E i \in ReportedAt(lines, f) :
                                   \A j \in ReportedAt(lines, f) : j <= i

\* What the goroutine has recorded is what the stream has reported so far.
Recorded ==
  /\ HasLast(sent)
  /\ extractor \in {"none", "scan", "write", "report"} => usage = Reported(sent)

\* Nothing is billed nor noted before the report; afterwards the bill is for the
\* reported usage, and what is noted for the trailer is that usage.
StreamBill ==
  Streaming /\ answer.status # "upgrade" =>
    LET u == Reported(sent) IN
    /\ extractor \in {"none", "scan", "write", "report"} =>
         events = <<>> /\ ~ called /\ noted = NoUsage
    /\ extractor \in {"close", "done"} =>
         /\ called <=> Reports(u)
         /\ events = IF called THEN Billed(<<>>, Total(u)) ELSE <<>>
         /\ noted = IF called /\ query.metrics THEN Total(u) ELSE NoUsage
         /\ called => Total(u) # NoUsage
    /\ header = IF proxy = "done" /\ trailer = "on" THEN noted ELSE NoUsage

\* An answer that is not a stream is billed when its body has been read or closed.
BodyBill ==
  ~ (Streaming /\ answer.status # "upgrade") =>
    /\ noted = NoUsage
    /\ proxy \in {"modify", "copy", "close"} => events = <<>> /\ ~ called /\ header = NoUsage
    /\ proxy \in {"copy", "close"} => (Buffers => answer.body = "huge")
    /\ header # NoUsage => query.metrics /\ called /\ events = Billed(<<>>, header)
    /\ called /\ query.metrics => header # NoUsage
    /\ proxy \in {"done", "aborted", "failed"} /\ ~ Streaming =>
         /\ Len(events) <= 1
         /\ (answer.status = "error" \/ proxy = "failed") => events = <<>>
         /\ (/\ answer.status # "error" /\ proxy # "failed" /\ query.key = "set"
             /\ ~ (Buffers /\ answer.body = "huge")) => Len(events) = 1

\* Until the copy gives up, the client lacks only the line that is being written
\* or the one that is too long to be scanned.
Delivery ==
  /\ \E n \in 0..Len(sent) : Delivered(n)
  /\ extractor \in {"none", "scan", "write"} =>
       filtered = (sent # <<>> /\ Hidden(Last(sent)))
  /\ extractor = "write" => /\ sent # <<>> /\ line = Last(sent) /\ Len(sent) \in Shown(sent)
                            /\ pipe # "reader_closed" => Delivered(Len(sent) - 1)
  /\ (sent # <<>> /\ Last(sent).kind = "long") =>
       extractor \in {"report", "close", "done"} /\ (Streaming => upstream # "ended")
  /\ (extractor # "write" /\ pipe # "reader_closed"
      /\ ~ (sent # <<>> /\ Last(sent).kind = "long")) => Delivered(Len(sent))

IInv == TypeOK /\ Stages /\ Recorded /\ StreamBill /\ BodyBill /\ Delivery

=============================================================================
