---------------------------- MODULE SandboxSession ----------------------------
(***************************************************************************)
(* The container of one request that uses the code interpreter: the        *)
(* runtimes of builtins/codeinterpreter (tool.go, sandbox_manager.go,      *)
(* sandbox_bootstrapper.go, sandbox_controlplane_client.go, client.go) and *)
(* the handler of openaiapi that runs the tool calls and cleans up.        *)
(*                                                                         *)
(* mode "sandbox": every request gets a sandbox of its own from the        *)
(* control plane, which is attested and claimed before code runs in it.    *)
(* mode "direct": one interpreter service, with a context per request.     *)
(* mode "explicit": the client names the context of that service.          *)
(*                                                                         *)
(* A box is a sandbox or a context.  The handlers run the calls one after  *)
(* the other; the lock of SandboxManager is there for concurrent calls of  *)
(* one sandbox, which the mode "shared" models: "sandbox" with two calls   *)
(* at a time.                                                              *)
(***************************************************************************)
EXTENDS Integers, FiniteSets

CONSTANTS
  Calls,       \* tool calls of the request
  Boxes,       \* boxes the services may create
  NoBox,
  Named        \* the box an explicit session names

ASSUME ConstantsAssumption ==
  IsFiniteSet(Calls) /\ NoBox \notin Boxes /\ Named \in Boxes

VARIABLES
  mode,      \* "sandbox", "shared", "direct" or "explicit"; never changes
  handler,   \* "running", "closing" or "done"
  client,    \* the request's context: "live" or "cancelled"
  cleanup,   \* cleanupContext: "live", or "expired" 30 s after the request began
  call,      \* of each call: "idle", "creating", "polling", "attesting",
             \* "claiming", "deleting", "installing", "executing" or "over"
  mine,      \* of each call: the box it is setting up
  installed, \* SandboxManager.sandbox, Session.ContainerID
  gateway,   \* the box whose credential SandboxManager.gateway holds
  box,       \* at the service: "none", "deploying", "ready", "failed" or "gone"
  claims,    \* history: how often a box has been claimed
  ran,       \* history: the box each call has run its code in
  faults     \* history: kinds of faults that have occurred

svcVars == <<box, claims>>
ctxVars == <<mode, handler, client, cleanup>>
vars == <<ctxVars, call, mine, installed, gateway, svcVars, ran, faults>>

Modes == {"sandbox", "shared", "direct", "explicit"}
Sandboxed == mode \in {"sandbox", "shared"}
Explicit == mode = "explicit"
CallStates == {"idle", "creating", "polling", "attesting", "claiming", "deleting",
               "installing", "executing", "over"}
Faults == {"create", "lost_answer", "poll", "bootstrap", "delete", "cancel", "expired"}

\* The type invariant: every variable has its type.
TypeOK ==
  /\ mode \in Modes
  /\ handler \in {"running", "closing", "done"}
  /\ client \in {"live", "cancelled"} /\ cleanup \in {"live", "expired"}
  /\ call \in [Calls -> CallStates] /\ mine \in [Calls -> Boxes \cup {NoBox}]
  /\ installed \in Boxes \cup {NoBox} /\ gateway \in Boxes \cup {NoBox}
  /\ box \in [Boxes -> {"none", "deploying", "ready", "failed", "gone"}]
  /\ claims \in [Boxes -> Nat]
  /\ ran \in [Calls -> Boxes \cup {NoBox}]
  /\ faults \subseteq Faults

\* NewSession: an explicit session has its container already.
Init ==
  /\ mode \in Modes
  /\ handler = "running" /\ client = "live" /\ cleanup = "live"
  /\ call = [c \in Calls |-> "idle"] /\ mine = [c \in Calls |-> NoBox]
  /\ installed = IF Explicit THEN Named ELSE NoBox
  /\ gateway = NoBox
  /\ box = [b \in Boxes |-> IF Explicit /\ b = Named THEN "ready" ELSE "none"]
  /\ claims = [b \in Boxes |-> 0]
  /\ ran = [c \in Calls |-> NoBox] /\ faults = {}

Live(b) == box[b] \in {"deploying", "ready", "failed"}
InProgress(c) == call[c] \notin {"idle", "over"}
Step(c, s) == call' = [call EXCEPT ![c] = s]
SetBox(b, s) == box' = [box EXCEPT ![b] = s]
Fault(f) == faults' = faults \cup {f}

----------------------------------------------------------------------------
(* ensure and resolveContainerID *)

\* The check: a container that is there is used, otherwise one is created.
Begin(c) ==
  /\ handler = "running" /\ call[c] = "idle"
  /\ Cardinality({d \in Calls : InProgress(d)}) < IF mode = "shared" THEN 2 ELSE 1
  /\ Step(c, IF installed # NoBox THEN "executing" ELSE "creating")
  /\ UNCHANGED <<ctxVars, mine, installed, gateway, svcVars, ran, faults>>

\* POST /api/sandboxes/ or POST /contexts succeeds: a context is ready at
\* once and becomes the session's, a sandbox is deployed first.
Create(c, b) ==
  /\ call[c] = "creating" /\ client = "live" /\ box[b] = "none"
  /\ mine' = [mine EXCEPT ![c] = b]
  /\ IF Sandboxed
       THEN /\ SetBox(b, "deploying") /\ Step(c, "polling")
            /\ UNCHANGED installed
       ELSE /\ SetBox(b, "ready") /\ Step(c, "executing")
            /\ installed' = b
  /\ UNCHANGED <<ctxVars, gateway, claims, ran, faults>>

\* An error, a status of 400 or more, or a cancelled request.
CreateFails(c) ==
  /\ call[c] = "creating"
  /\ Step(c, "over")
  /\ Fault("create")
  /\ UNCHANGED <<ctxVars, mine, installed, gateway, svcVars, ran>>

\* The service creates the box, but its answer is lost, late (30 s) or not
\* understood: nobody knows the id.
CreateLost(c, b) ==
  /\ call[c] = "creating" /\ box[b] = "none"
  /\ SetBox(b, IF Sandboxed THEN "deploying" ELSE "ready")
  /\ Step(c, "over")
  /\ Fault("lost_answer")
  /\ UNCHANGED <<ctxVars, mine, installed, gateway, claims, ran>>

\* pollUntilReady
PollReady(c) ==
  /\ call[c] = "polling" /\ client = "live" /\ box[mine[c]] = "ready"
  /\ Step(c, "attesting")
  /\ UNCHANGED <<ctxVars, mine, installed, gateway, svcVars, ran, faults>>

\* Mutant of PollFails: the polling does not watch the context.
PollFailsUnlessCancelled(c) ==
  /\ call[c] = "polling" /\ client = "live"
  /\ Step(c, "over")
  /\ Fault("poll")
  /\ UNCHANGED <<ctxVars, mine, installed, gateway, svcVars, ran>>

\* The deployment has failed, a poll has failed, or the context is done: the
\* sandbox is left to the control plane.
PollFails(c) ==
  /\ call[c] = "polling"
  /\ Step(c, "over")
  /\ Fault("poll")
  /\ UNCHANGED <<ctxVars, mine, installed, gateway, svcVars, ran>>

----------------------------------------------------------------------------
(* Bootstrap *)

Attest(c) ==
  /\ call[c] = "attesting" /\ box[mine[c]] = "ready"
  /\ Step(c, "claiming")
  /\ UNCHANGED <<ctxVars, mine, installed, gateway, svcVars, ran, faults>>

Claim(c) ==
  /\ call[c] = "claiming" /\ client = "live" /\ box[mine[c]] = "ready"
  /\ claims' = [claims EXCEPT ![mine[c]] = @ + 1]
  /\ Step(c, "installing")
  /\ UNCHANGED <<ctxVars, mine, installed, gateway, box, ran, faults>>

\* Mutant of BootstrapFails: the sandbox that could not be claimed is not deleted.
BootstrapFailsForgetting(c) ==
  /\ call[c] \in {"attesting", "claiming"}
  /\ Step(c, "over")
  /\ Fault("bootstrap")
  /\ UNCHANGED <<ctxVars, mine, installed, gateway, svcVars, ran>>

BootstrapFails(c) ==
  /\ call[c] \in {"attesting", "claiming"}
  /\ Step(c, "deleting")
  /\ Fault("bootstrap")
  /\ UNCHANGED <<ctxVars, mine, installed, gateway, svcVars, ran>>

\* DeleteSandbox with a context of its own; the box may be gone already.
DeleteMine(c) ==
  /\ call[c] = "deleting"
  /\ SetBox(mine[c], "gone")
  /\ Step(c, "over")
  /\ UNCHANGED <<ctxVars, mine, installed, gateway, claims, ran, faults>>

DeleteMineFails(c) ==
  /\ call[c] = "deleting"
  /\ Step(c, "over")
  /\ Fault("delete")
  /\ UNCHANGED <<ctxVars, mine, installed, gateway, svcVars, ran>>

\* Mutant of Install: installs without the second look under the lock.
InstallAlways(c) ==
  /\ call[c] = "installing"
  /\ installed' = mine[c] /\ gateway' = mine[c]
  /\ Step(c, "executing")
  /\ UNCHANGED <<ctxVars, mine, svcVars, ran, faults>>

\* The first call to get here installs its sandbox; another one uses that
\* and forgets its own.
Install(c) ==
  /\ call[c] = "installing"
  /\ IF gateway = NoBox
       THEN installed' = mine[c] /\ gateway' = mine[c]
       ELSE UNCHANGED <<installed, gateway>>
  /\ Step(c, "executing")
  /\ UNCHANGED <<ctxVars, mine, svcVars, ran, faults>>

----------------------------------------------------------------------------
(* Execution *)

Execute(c) ==
  /\ call[c] = "executing" /\ client = "live" /\ box[installed] = "ready"
  /\ ran' = [ran EXCEPT ![c] = installed]
  /\ Step(c, "over")
  /\ UNCHANGED <<ctxVars, mine, installed, gateway, svcVars, faults>>

\* Mutant of ExecuteFails: a result of its own for a failed call.
ExecuteFailsUntyped(c) ==
  /\ call[c] = "executing"
  /\ Step(c, "failed")
  /\ UNCHANGED <<ctxVars, mine, installed, gateway, svcVars, ran, faults>>

\* Unreachable, cancelled, or past the execution timeout: a failed result,
\* and the container stays installed.
ExecuteFails(c) ==
  /\ call[c] = "executing"
  /\ Step(c, "over")
  /\ UNCHANGED <<ctxVars, mine, installed, gateway, svcVars, ran, faults>>

----------------------------------------------------------------------------
(* The handler and its deferred cleanup *)

\* The tool calls of the request are done, or the loop is left early.
Leave ==
  /\ handler = "running" /\ \A c \in Calls : ~ InProgress(c)
  /\ handler' = "closing"
  /\ UNCHANGED <<mode, client, cleanup, call, mine, installed, gateway, svcVars, ran, faults>>

\* Mutant of Owned: the container the client has named is deleted too.
OwnedThoughNamed == installed # NoBox

\* Close has something to delete: a sandbox, or a context it manages.
Owned == installed # NoBox /\ ~ Explicit

Finish == handler' = "done"

NothingToClose ==
  /\ handler = "closing" /\ ~ Owned
  /\ Finish
  /\ UNCHANGED <<mode, client, cleanup, call, mine, installed, gateway, svcVars, ran, faults>>

CloseDeletes ==
  /\ handler = "closing" /\ Owned /\ cleanup = "live"
  /\ SetBox(installed, "gone")
  /\ Finish
  /\ UNCHANGED <<mode, client, cleanup, call, mine, installed, gateway, claims, ran, faults>>

\* The request to delete is not sent with an expired context, or it fails;
\* the error is dropped.
CloseFails ==
  /\ handler = "closing" /\ Owned
  /\ Fault(IF cleanup = "expired" THEN "expired" ELSE "delete")
  /\ Finish
  /\ UNCHANGED <<mode, client, cleanup, call, mine, installed, gateway, svcVars, ran>>

\* The client disconnects: the request's context is done, the cleanup's not.
Disconnect ==
  /\ handler = "running" /\ client = "live"
  /\ client' = "cancelled"
  /\ Fault("cancel")
  /\ UNCHANGED <<mode, handler, cleanup, call, mine, installed, gateway, svcVars, ran>>

\* 30 s after the handler has begun, whatever it is doing.
CleanupExpires ==
  /\ handler # "done" /\ cleanup = "live"
  /\ cleanup' = "expired"
  /\ UNCHANGED <<mode, handler, client, call, mine, installed, gateway, svcVars, ran, faults>>

----------------------------------------------------------------------------
(* The control plane *)

Deploy(b) ==
  /\ box[b] = "deploying"
  /\ \E s \in {"ready", "failed"} : SetBox(b, s)
  /\ UNCHANGED <<ctxVars, call, mine, installed, gateway, claims, ran, faults>>

\* The time to live of a sandbox ends.
Expire(b) ==
  /\ Sandboxed /\ Live(b)
  /\ SetBox(b, "gone")
  /\ UNCHANGED <<ctxVars, call, mine, installed, gateway, claims, ran, faults>>

----------------------------------------------------------------------------
CallStep(c) ==
  \/ Begin(c) \/ (\E b \in Boxes : Create(c, b) \/ CreateLost(c, b)) \/ CreateFails(c)
  \/ PollReady(c) \/ PollFails(c)
  \/ Attest(c) \/ Claim(c) \/ BootstrapFails(c) \/ DeleteMine(c) \/ DeleteMineFails(c)
  \/ Install(c) \/ Execute(c) \/ ExecuteFails(c)

HandlerStep == Leave \/ NothingToClose \/ CloseDeletes \/ CloseFails

Next ==
  \/ \E c \in Calls : CallStep(c)
  \/ HandlerStep \/ Disconnect \/ CleanupExpires
  \/ \E b \in Boxes : Deploy(b) \/ Expire(b)

Spec == Init /\ [][Next]_vars

\* A goroutine that can take a step takes one: every request to a service has
\* a timeout but for two.  The polling ends with the client's context.  The
\* attestation gets neither the context nor a timeout (sandbox_bootstrapper.go:34,
\* client.go:115-120): nothing makes it end when the sandbox stays silent.
PollCancelled(c) == client = "cancelled" /\ PollFails(c)
FairSpec ==
  /\ Spec
  /\ \A c \in Calls :
       /\ WF_vars(CallStep(c) /\ call[c] \notin {"idle", "polling", "attesting"})
       /\ WF_vars(PollCancelled(c))
  /\ WF_vars(HandlerStep)

----------------------------------------------------------------------------
(* Properties *)

\* The code of one request runs in one container and, in a sandboxed mode,
\* only in one that was attested and claimed for this request, exactly once
\* ("It must be called exactly once", client.go:138), with the credential of
\* that very sandbox, however many calls set one up at a time
\* (sandbox_manager.go:41-87).
OneContainer ==
  /\ \A c \in Calls : ran[c] # NoBox => ran[c] = installed
  /\ Sandboxed =>
       /\ gateway = installed
       /\ installed # NoBox => claims[installed] = 1

\* The cleanup of one call never takes away the container of another: the
\* router deletes the installed container only after the last call has ended,
\* and one that the client has named never (sandbox_manager.go:74-102,
\* tool.go:170-175).  A sandbox that expires changes no call and no handler.
RouterKeepsInstalled ==
  [][ \A b \in Boxes :
        (b = installed /\ Live(b) /\ ~ Live(b)' /\ <<call, handler>>' # <<call, handler>>) =>
           /\ handler = "closing" /\ ~ Explicit
           /\ \A c \in Calls : ~ InProgress(c) ]_vars

\* A request whose calls run one after the other leaves no container behind,
\* also when the creation or the bootstrap of one has failed, execution has
\* failed or the client has left: only a lost answer of the control plane, a
\* failed poll, a failed deletion or an expired cleanup context does that
\* (sandbox_manager.go:69-78 and 89-102, tool.go:170-175).
NoLeak ==
  (/\ handler = "done" /\ mode \in {"sandbox", "direct"}
   /\ faults \cap {"lost_answer", "poll", "delete", "expired"} = {}) =>
     \A b \in Boxes : ~ Live(b)

\* A request whose client has left comes to its end, also while it polls for
\* a sandbox that never becomes ready (sandbox_controlplane_client.go:128-152),
\* unless one of its sandboxes keeps the attestation waiting for ever.
DisconnectEnds ==
  (\A c \in Calls : []<>(call[c] # "attesting")) => (client = "cancelled" ~> handler = "done")

\* "A managed session owns its lifecycle" (client.go:272): when no service
\* fails, the request deletes what it has created.  cleanupContext, however,
\* starts its 30 s when the handler begins (chat_runner.go:34 and 266-272).
SessionOwnsContainer ==
  (/\ handler = "done" /\ mode \in {"sandbox", "direct"} /\ faults \subseteq {"expired"}) =>
     \A b \in Boxes : ~ Live(b)

----------------------------------------------------------------------------
(* The invariant of the proofs *)

\* Calls with a sandbox of their own that is not yet the session's.
SettingUp(c) == call[c] \in {"polling", "attesting", "claiming", "deleting", "installing"}

\* Only the mode "shared" has two calls in progress, and none outlives the handler.
OneAtATime ==
  /\ mode # "shared" => \A c, d \in Calls : InProgress(c) /\ InProgress(d) => c = d
  /\ handler # "running" => \A c \in Calls : ~ InProgress(c)

\* A call sets up a box that the service has created for it alone.
OwnBox ==
  \A c \in Calls :
    /\ call[c] \in {"idle", "creating"} => mine[c] = NoBox
    /\ SettingUp(c) => mine[c] # NoBox /\ Sandboxed
    /\ mine[c] # NoBox => /\ box[mine[c]] # "none"
                          /\ \A d \in Calls : mine[d] = mine[c] => d = c

\* A sandbox is claimed by the call that set it up, before it is installed.
ClaimedBeforeInstalled ==
  /\ \A b \in Boxes : box[b] = "none" => claims[b] = 0
  /\ \A c \in Calls :
       /\ SettingUp(c) => claims[mine[c]] = IF call[c] = "installing" THEN 1 ELSE 0
       /\ call[c] = "executing" => installed # NoBox
  /\ Explicit => installed = Named
  /\ (mode # "shared" /\ \E c \in Calls : SettingUp(c) \/ call[c] = "creating") =>
       installed = NoBox

\* Without the faults that NoLeak excepts, what is left at the service is the
\* container installed or one that a call is setting up.
NothingForgotten ==
  (mode \in {"sandbox", "direct"} /\ faults \cap {"lost_answer", "poll", "delete", "expired"} = {}) =>
    /\ \A b \in Boxes : Live(b) =>
         b = installed \/ \E c \in Calls : SettingUp(c) /\ mine[c] = b
    /\ handler = "done" => \A b \in Boxes : ~ Live(b)

IInv == /\ TypeOK /\ OneAtATime /\ OwnBox
        /\ ClaimedBeforeInstalled /\ OneContainer /\ NothingForgotten

=============================================================================
