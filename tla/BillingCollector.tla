--------------------------- MODULE BillingCollector ---------------------------
(***************************************************************************)
(* The collector of billing/events.go, the requests that add events to it  *)
(* and the shutdown of main.go that stops it.                              *)
(*                                                                         *)
(* A request adds at most one event, so a request stands for its event     *)
(* (ProxyResponse shows that it is at most one).  The event is added by    *)
(* the handler, or by the goroutine that copies a stream: when the client  *)
(* disconnects the handler returns and that goroutine is left behind.      *)
(* The queue is a set: the events of a batch carry their own time stamps.  *)
(***************************************************************************)
EXTENDS Integers, FiniteSets

CONSTANTS
  Requests,
  Mode  \* "submit", or "log" when no control plane is configured

ASSUME ModeAssumption == Mode \in {"submit", "log"}

VARIABLES
  queue,    \* Collector.events
  batch,    \* the copy that sendBatch submits
  sender,   \* processBatch: "waiting", "sending", "final", "exited" or "absent"
  ticker,   \* "idle" or "fired"
  quit,     \* "open" or "closed"
  main,     \* "serving", "draining", "stopping", "stopped" or "exited"
  handler,  \* of each request: "new", "active", "detached" or "ended"
  event,    \* of each request: "none" or "added"
  submitted, \* history: how often the control plane has received the event
  lost,     \* history: events of failed submissions
  outlived, \* history: requests that were not over when quit was closed
  drain     \* history: "pending", "clean" or "forced"

collector == <<queue, batch, sender, ticker, quit>>
history   == <<submitted, lost>>
ending    == <<outlived, drain>>
vars == <<collector, main, handler, event, history, ending>>

\* The type invariant: every variable has its type.
TypeOK ==
  /\ queue \subseteq Requests /\ batch \subseteq Requests
  /\ sender \in {"waiting", "sending", "final", "exited", "absent"}
  /\ ticker \in {"idle", "fired"} /\ quit \in {"open", "closed"}
  /\ main \in {"serving", "draining", "stopping", "stopped", "exited"}
  /\ handler \in [Requests -> {"new", "active", "detached", "ended"}]
  /\ event \in [Requests -> {"none", "added"}]
  /\ submitted \in [Requests -> Nat] /\ lost \subseteq Requests
  /\ outlived \subseteq Requests /\ drain \in {"pending", "clean", "forced"}

\* NewCollector starts the sender only if it has a control plane.
Init ==
  /\ queue = {} /\ batch = {}
  /\ sender = IF Mode = "submit" THEN "waiting" ELSE "absent"
  /\ ticker = "idle" /\ quit = "open" /\ main = "serving"
  /\ handler = [r \in Requests |-> "new"]
  /\ event = [r \in Requests |-> "none"]
  /\ submitted = [r \in Requests |-> 0] /\ lost = {}
  /\ outlived = {} /\ drain = "pending"

Running == main # "exited"
InProgress(r) == handler[r] \in {"active", "detached"}

----------------------------------------------------------------------------
(* Requests *)

Arrive(r) ==
  /\ main = "serving" /\ handler[r] = "new"
  /\ handler' = [handler EXCEPT ![r] = "active"]
  /\ UNCHANGED <<collector, main, event, history, ending>>

AddEvent(r) ==
  /\ Running /\ InProgress(r) /\ event[r] = "none"
  /\ queue' = queue \cup {r}
  /\ event' = [event EXCEPT ![r] = "added"]
  /\ UNCHANGED <<batch, sender, ticker, quit, main, handler, history, ending>>

\* The handler or the goroutine it left behind is over.
End(r) ==
  /\ Running /\ InProgress(r)
  /\ handler' = [handler EXCEPT ![r] = "ended"]
  /\ UNCHANGED <<collector, main, event, history, ending>>

\* The client disconnects: the handler returns, the goroutine that reads the
\* stream goes on until the upstream body fails.
Disconnect(r) ==
  /\ Running /\ handler[r] = "active"
  /\ handler' = [handler EXCEPT ![r] = "detached"]
  /\ UNCHANGED <<collector, main, event, history, ending>>

----------------------------------------------------------------------------
(* processBatch and sendBatch *)

TickerFires ==
  /\ Running /\ sender \in {"waiting", "sending", "final"} /\ ticker = "idle"
  /\ ticker' = "fired"
  /\ UNCHANGED <<queue, batch, sender, quit, main, handler, event, history, ending>>

\* Mutant of TakeBatch: the events are copied and stay in the queue.
TakeBatchKeeping(stage, idle) ==
  IF queue = {}
    THEN sender' = idle /\ UNCHANGED <<queue, batch>>
    ELSE batch' = queue /\ queue' = queue /\ sender' = stage

\* Copy the events and clear the queue; without events there is nothing to do.
TakeBatch(stage, idle) ==
  IF queue = {}
    THEN sender' = idle /\ UNCHANGED <<queue, batch>>
    ELSE /\ batch' = queue /\ queue' = {}
         /\ sender' = stage

OnTick ==
  /\ Running /\ sender = "waiting" /\ ticker = "fired"
  /\ ticker' = "idle"
  /\ TakeBatch("sending", "waiting")
  /\ UNCHANGED <<quit, main, handler, event, history, ending>>

\* Mutant of OnQuit: no final batch.
OnQuitAtOnce ==
  /\ Running /\ sender = "waiting" /\ quit = "closed"
  /\ sender' = "exited"
  /\ UNCHANGED <<queue, batch, ticker, quit, main, handler, event, history, ending>>

\* Mutant of OnQuit: the loop goes on after the final batch.
OnQuitLooping ==
  /\ Running /\ sender = "waiting" /\ quit = "closed"
  /\ TakeBatch("sending", "waiting")
  /\ UNCHANGED <<ticker, quit, main, handler, event, history, ending>>

OnQuit ==
  /\ Running /\ sender = "waiting" /\ quit = "closed"
  /\ TakeBatch("final", "exited")
  /\ UNCHANGED <<ticker, quit, main, handler, event, history, ending>>

\* Mutant of BatchDone: a state of its own after the final batch.
BatchDoneUntyped ==
  /\ batch' = {}
  /\ sender' = IF sender = "final" THEN "flushed" ELSE "waiting"
  /\ UNCHANGED <<queue, ticker, quit, main, handler, event, ending>>

BatchDone ==
  /\ batch' = {}
  /\ sender' = IF sender = "final" THEN "exited" ELSE "waiting"
  /\ UNCHANGED <<queue, ticker, quit, main, handler, event, ending>>

\* The control plane has the events; whether its answer arrives in time is
\* only logged.
Submit ==
  /\ Running /\ sender \in {"sending", "final"}
  /\ submitted' = [r \in Requests |-> submitted[r] + IF r \in batch THEN 1 ELSE 0]
  /\ UNCHANGED lost
  /\ BatchDone

\* No connection, a time-out before the request is read, a status other than
\* 200: logged, and the batch is dropped.
SubmitFails ==
  /\ Running /\ sender \in {"sending", "final"}
  /\ lost' = lost \cup batch
  /\ UNCHANGED submitted
  /\ BatchDone

----------------------------------------------------------------------------
(* Shutdown: main.go *)

Signal ==
  /\ main = "serving" /\ main' = "draining"
  /\ UNCHANGED <<collector, handler, event, history, ending>>

\* em.Shutdown calls Stop: close(quit), then wg.Wait.
CloseQuit(how) ==
  /\ main' = "stopping" /\ quit' = "closed" /\ drain' = how
  /\ outlived' = {r \in Requests : InProgress(r)}
  /\ UNCHANGED <<queue, batch, sender, ticker, handler, event, history>>

\* server.Shutdown waits for the connections, not for detached goroutines.
Drained ==
  /\ main = "draining" /\ \A r \in Requests : handler[r] # "active"
  /\ CloseQuit("clean")

\* The 10 s of its context are over.
DrainTimesOut ==
  /\ main = "draining" /\ \E r \in Requests : handler[r] = "active"
  /\ CloseQuit("forced")

StopReturns ==
  /\ main = "stopping" /\ sender \in {"exited", "absent"}
  /\ main' = "stopped"
  /\ UNCHANGED <<collector, handler, event, history, ending>>

\* The metrics pollers are stopped (EnclaveRegistry) and main returns.
Exit ==
  /\ main = "stopped" /\ main' = "exited"
  /\ UNCHANGED <<collector, handler, event, history, ending>>

----------------------------------------------------------------------------
Sender == OnTick \/ OnQuit \/ Submit \/ SubmitFails
Shutdown == Drained \/ DrainTimesOut \/ StopReturns \/ Exit

Next ==
  \/ \E r \in Requests : Arrive(r) \/ AddEvent(r) \/ End(r) \/ Disconnect(r)
  \/ TickerFires \/ OnTick \/ OnQuit \/ Submit \/ SubmitFails
  \/ Signal \/ Drained \/ DrainTimesOut \/ StopReturns \/ Exit

Spec == Init /\ [][Next]_vars

\* The Go scheduler runs the sender and main, the ticker keeps firing, and the
\* client's time-out of 10 s ends every submission.  OnQuit needs strong
\* fairness: select picks at random among a fired ticker and a closed quit.
FairSpec ==
  /\ Spec
  /\ WF_vars(TickerFires) /\ WF_vars(Sender) /\ SF_vars(OnQuit)
  /\ WF_vars(Shutdown)

----------------------------------------------------------------------------
(* Properties *)

Places(r) ==
  {p \in {"queue", "batch", "submitted", "lost"} :
     \/ p = "queue" /\ r \in queue
     \/ p = "batch" /\ r \in batch
     \/ p = "submitted" /\ submitted[r] > 0
     \/ p = "lost" /\ r \in lost}

\* Every event that was added is in one place only, and the control plane
\* gets none twice: whatever is appended while sendBatch copies, clears and
\* submits (events.go:152-162), the queue and the batch never share an event
\* and none vanishes between them.
Conserved ==
  \A r \in Requests :
    /\ submitted[r] <= 1
    /\ IF event[r] = "added" THEN \E p \in Places(r) : Places(r) = {p}
                             ELSE Places(r) = {}

\* When Stop has returned, no submission is under way and the queue holds at
\* most events of requests that were still in progress when quit was closed
\* (Stop, events.go:124-129, and the final sendBatch at 141-144).
StopFlushes ==
  (Mode = "submit" /\ main \in {"stopped", "exited"}) =>
     batch = {} /\ queue \subseteq outlived

\* An event does not stay in the queue of a running process; and Stop, which
\* waits for the sender, is not kept waiting by it, whatever select picks when
\* the ticker and quit are both ready (events.go:136-148).
SenderServes ==
  /\ \A r \in Requests : (r \in queue) ~> (r \notin queue \/ main = "exited")
  /\ (main = "stopping") ~> (main = "stopped")

\* The inductive strengthening of Conserved and StopFlushes.
Placement ==
  \A r \in Requests :
    /\ submitted[r] \in {0, 1}
    /\ r \in queue => r \notin batch /\ r \notin lost /\ submitted[r] = 0
    /\ r \in batch => r \notin lost /\ submitted[r] = 0
    /\ r \in lost => submitted[r] = 0
    /\ event[r] = "added" <=>
         (r \in queue \/ r \in batch \/ r \in lost \/ submitted[r] = 1)
    /\ event[r] = "added" => handler[r] # "new"

Phases ==
  /\ sender \notin {"sending", "final"} => batch = {}
  /\ quit = "closed" <=> main \in {"stopping", "stopped", "exited"}
  /\ sender \in {"final", "exited"} => quit = "closed" /\ queue \subseteq outlived
  /\ sender = "absent" <=> Mode = "log"
  /\ main \in {"stopped", "exited"} => sender \in {"exited", "absent"}
  /\ quit = "closed" =>
       \A r \in Requests : InProgress(r) => r \in outlived

IInv == TypeOK /\ Placement /\ Phases

=============================================================================
