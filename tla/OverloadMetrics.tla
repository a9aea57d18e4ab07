-------------------------- MODULE OverloadMetrics --------------------------
(***************************************************************************)
(* The queue-depth pollers of manager/metrics.go, for one host of one      *)
(* model.  Every attested enclave at that host owns an enclaveMetrics      *)
(* object with a poller goroutine, a configuration and the latest sample;  *)
(* all objects share the Prometheus gauges, labelled by model and host.    *)
(* The sync goroutine of the model (EnclaveRegistry) creates, configures   *)
(* and shuts down the objects, one operation at a time under the model     *)
(* lock; requests ask the object of the enclave they picked.               *)
(*                                                                         *)
(* Time advances by poll intervals of 15 seconds.  A sample carries its    *)
(* age instead of a time stamp, so that behaviours are infinite and the    *)
(* state space is finite.                                                  *)
(***************************************************************************)
EXTENDS Integers, FiniteSets

CONSTANTS
  Objects,   \* enclaveMetrics objects the run may create
  Configs,   \* overload configurations: [max, minutes]
  NoConfig,  \* Overload = nil
  NoObject,
  Depths,    \* values of vllm:num_requests_waiting
  Requests,
  Ops        \* operations of the registry that the run allows

ASSUME ConstantsAssumption ==
  /\ Configs \subseteq [max : Int, minutes : Int]
  /\ NoConfig \notin Configs /\ NoObject \notin Objects
  /\ Depths \subseteq Nat
  /\ Ops \subseteq {"admit", "configure", "drop", "delist"}

StalenessLimit == 3                  \* sampleStalenessLimit, in poll intervals
Ages     == 0..(StalenessLimit + 2)  \* older ages are not told apart
Older(a) == IF a < StalenessLimit + 2 THEN a + 1 ELSE a
NoSample == [taken |-> FALSE, waiting |-> 0, age |-> 0]

VARIABLES
  settings,   \* Model.Overload
  current,    \* the object of the enclave in the pool
  created,    \* objects created so far
  op,         \* the registry operation in progress: [kind, obj]
  cfg, sample, overloaded,         \* fields of each object
  poller,     \* its goroutine: "none", "due", "inflight", "got" or "waiting"
  cancelled,  \* its context is cancelled
  pending,    \* its ticker has fired
  spanned,    \* its scrape has seen an interval end: the client gives up after 5 s
  got,        \* the value its scrape has read
  depth,      \* requests waiting at the backend
  lastSeen,   \* history: how long ago the backend had each depth
  gaugeDepth, gaugeOverloaded,
  reqpc, reqobj, reqcfg,
  verdict     \* history: [max, retry] of a rejection

objVars == <<cfg, sample, overloaded>>
polVars == <<poller, cancelled, pending, spanned, got>>
gauges  == <<gaugeDepth, gaugeOverloaded>>
reqVars == <<reqpc, reqobj, reqcfg, verdict>>
envVars == <<depth, lastSeen>>
regVars == <<settings, current, created, op>>
vars == <<regVars, objVars, polVars, envVars, gauges, reqVars>>

Idle == [kind |-> "idle", obj |-> NoObject]
NoVerdict == [max |-> 0, retry |-> 0]
AnyConfig == Configs \cup {NoConfig}

----------------------------------------------------------------------------
Init ==
  /\ settings \in AnyConfig
  /\ current = NoObject /\ created = {} /\ op = Idle
  /\ cfg = [o \in Objects |-> NoConfig]
  /\ sample = [o \in Objects |-> NoSample]
  /\ overloaded = [o \in Objects |-> FALSE]
  /\ poller = [o \in Objects |-> "none"]
  /\ cancelled = [o \in Objects |-> FALSE]
  /\ pending = [o \in Objects |-> FALSE]
  /\ spanned = [o \in Objects |-> FALSE]
  /\ got = [o \in Objects |-> 0]
  /\ depth \in Depths
  /\ lastSeen = [d \in Depths |-> IF d = depth THEN 0 ELSE StalenessLimit + 2]
  /\ gaugeDepth = 0 /\ gaugeOverloaded = 0
  /\ reqpc = [r \in Requests |-> "arrived"]
  /\ reqobj = [r \in Requests |-> NoObject]
  /\ reqcfg = [r \in Requests |-> NoConfig]
  /\ verdict = [r \in Requests |-> NoVerdict]

----------------------------------------------------------------------------
(* Operations of the registry *)

\* Mutant of Cancel: the poller is awaited without being cancelled.
CancelNothing(o) == cancelled' = [cancelled EXCEPT ![o] = @]

\* setConfig and shutdown first cancel the poller of the object, if it has one.
Cancel(o) == cancelled' = [cancelled EXCEPT ![o] = poller[o] # "none"]

RegistryStep(kind) ==
  /\ kind \in Ops /\ op = Idle
  /\ UNCHANGED <<objVars, poller, pending, spanned, got, envVars, gauges, reqVars>>

\* addEnclave: the new object takes the place of the old one, which is not
\* shut down, and is configured.
Admit(o) ==
  /\ RegistryStep("admit")
  /\ o \notin created
  /\ created' = created \cup {o} /\ current' = o
  /\ op' = [kind |-> "set", obj |-> o]
  /\ Cancel(o)
  /\ UNCHANGED settings

\* sync: the model gets the Overload of the config and hands it to the enclave.
Configure(s) ==
  /\ RegistryStep("configure")
  /\ settings' = s
  /\ IF current = NoObject
     THEN op' = op /\ cancelled' = cancelled
     ELSE op' = [kind |-> "set", obj |-> current] /\ Cancel(current)
  /\ UNCHANGED <<current, created>>

\* The host left the config, or a new release cleared the pool.
Drop ==
  /\ RegistryStep("drop")
  /\ current # NoObject
  /\ op' = [kind |-> "drop", obj |-> current] /\ Cancel(current)
  /\ UNCHANGED <<settings, current, created>>

\* The model left the config: the poller stops, the enclave stays.
Delist ==
  /\ RegistryStep("delist")
  /\ current # NoObject
  /\ op' = [kind |-> "stop", obj |-> current] /\ Cancel(current)
  /\ UNCHANGED <<settings, current, created>>

\* Mutant of FinishSet: setConfig does not wait for the poller it cancels.
FinishSetAtOnce ==
  /\ op.kind = "set"
  /\ op' = Idle
  /\ cfg' = [cfg EXCEPT ![op.obj] = settings]
  /\ cancelled' = [cancelled EXCEPT ![op.obj] = @ /\ settings = NoConfig]
  /\ IF settings = NoConfig
     THEN /\ overloaded' = [overloaded EXCEPT ![op.obj] = FALSE]
          /\ sample' = [sample EXCEPT ![op.obj] = NoSample]
          /\ gaugeDepth' = 0 /\ gaugeOverloaded' = 0
          /\ UNCHANGED poller
     ELSE /\ poller' = [poller EXCEPT ![op.obj] = IF @ = "none" THEN "due" ELSE @]
          /\ UNCHANGED <<overloaded, sample, gauges>>
  /\ UNCHANGED <<settings, current, created, pending, spanned, got, envVars, reqVars>>

\* wg.Wait has returned: the rest of setConfig.
FinishSet ==
  /\ op.kind = "set" /\ poller[op.obj] = "none"
  /\ op' = Idle
  /\ cfg' = [cfg EXCEPT ![op.obj] = settings]
  /\ cancelled' = [cancelled EXCEPT ![op.obj] = FALSE]
  /\ IF settings = NoConfig
     THEN /\ overloaded' = [overloaded EXCEPT ![op.obj] = FALSE]
          /\ sample' = [sample EXCEPT ![op.obj] = NoSample]
          /\ gaugeDepth' = 0 /\ gaugeOverloaded' = 0
          /\ UNCHANGED poller
     ELSE /\ poller' = [poller EXCEPT ![op.obj] = "due"]
          /\ UNCHANGED <<overloaded, sample, gauges>>
  /\ UNCHANGED <<settings, current, created, pending, spanned, got, envVars, reqVars>>

\* Mutant of FinishStop: shutdown does not wait for the poller it cancels.
FinishStopAtOnce ==
  /\ op.kind \in {"drop", "stop"}
  /\ op' = Idle
  /\ current' = IF op.kind = "drop" THEN NoObject ELSE current
  /\ UNCHANGED <<settings, created, cancelled, objVars, poller, pending, spanned, got, envVars, gauges, reqVars>>

\* The rest of shutdown: the configuration and the sample stay.
FinishStop ==
  /\ op.kind \in {"drop", "stop"} /\ poller[op.obj] = "none"
  /\ op' = Idle
  /\ cancelled' = [cancelled EXCEPT ![op.obj] = FALSE]
  /\ current' = IF op.kind = "drop" THEN NoObject ELSE current
  /\ UNCHANGED <<settings, created, objVars, poller, pending, spanned, got, envVars, gauges, reqVars>>

Registry ==
  \/ \E o \in Objects : Admit(o)
  \/ \E s \in AnyConfig : Configure(s)
  \/ Drop \/ Delist \/ FinishSet \/ FinishStop

----------------------------------------------------------------------------
(* The poller of object o: run, scrape and evaluateThresholds *)

PollerStep(o, from, to) ==
  /\ poller[o] = from
  /\ poller' = [poller EXCEPT ![o] = to]
  /\ UNCHANGED <<regVars, cfg, cancelled, envVars, reqVars>>

Send(o) ==
  /\ PollerStep(o, "due", "inflight")
  /\ UNCHANGED <<sample, overloaded, pending, spanned, got, gauges>>

\* The body was read; a cancellation may come too late to stop it.
Answer(o) ==
  /\ PollerStep(o, "inflight", "got")
  /\ got' = [got EXCEPT ![o] = depth]
  /\ UNCHANGED <<sample, overloaded, pending, spanned, gauges>>

\* The context is cancelled, the client times out, the host does not answer or
\* the metric cannot be read: nothing is written.
Fail(o) ==
  /\ PollerStep(o, "inflight", "waiting")
  /\ spanned' = [spanned EXCEPT ![o] = FALSE]
  /\ UNCHANGED <<sample, overloaded, pending, got, gauges>>

\* Mutant of Store: the gauge of the overload state gets the queue depth.
StoreDepthTwice(o) ==
  /\ PollerStep(o, "got", "waiting")
  /\ spanned' = [spanned EXCEPT ![o] = FALSE]
  /\ got' = [got EXCEPT ![o] = 0]
  /\ gaugeDepth' = got[o] /\ gaugeOverloaded' = got[o]
  /\ sample' = [sample EXCEPT ![o] = [taken |-> TRUE, waiting |-> got[o], age |-> 0]]
  /\ overloaded' = [overloaded EXCEPT ![o] = got[o] >= cfg[o].max]
  /\ UNCHANGED pending

\* The gauge, updateLatest and evaluateThresholds.
Store(o) ==
  /\ PollerStep(o, "got", "waiting")
  /\ spanned' = [spanned EXCEPT ![o] = FALSE]
  /\ got' = [got EXCEPT ![o] = 0]
  /\ gaugeDepth' = got[o]
  /\ sample' = [sample EXCEPT ![o] = [taken |-> TRUE, waiting |-> got[o], age |-> 0]]
  /\ IF cfg[o] = NoConfig \/ cfg[o].max <= 0
     THEN UNCHANGED <<overloaded, gaugeOverloaded>>
     ELSE /\ overloaded' = [overloaded EXCEPT ![o] = got[o] >= cfg[o].max]
          /\ gaugeOverloaded' = IF got[o] >= cfg[o].max THEN 1 ELSE 0
  /\ UNCHANGED pending

\* The select of run: with both channels ready, either case.
TickerFires(o) ==
  /\ PollerStep(o, "waiting", "due")
  /\ pending[o]
  /\ pending' = [pending EXCEPT ![o] = FALSE]
  /\ UNCHANGED <<sample, overloaded, spanned, got, gauges>>

Return(o) ==
  /\ cancelled[o]
  /\ PollerStep(o, "waiting", "none")
  /\ pending' = [pending EXCEPT ![o] = FALSE]
  /\ UNCHANGED <<sample, overloaded, spanned, got, gauges>>

Poll(o) == Send(o) \/ Answer(o) \/ Fail(o) \/ Store(o) \/ TickerFires(o)

----------------------------------------------------------------------------
(* Requests: shouldReject reads the configuration, then the sample. *)

RequestStep == UNCHANGED <<regVars, objVars, polVars, envVars, gauges>>

\* NextEnclave (the model lock is free between registry operations).
Pick(r) ==
  /\ RequestStep
  /\ reqpc[r] = "arrived" /\ op = Idle /\ current # NoObject
  /\ reqpc' = [reqpc EXCEPT ![r] = "picked"]
  /\ reqobj' = [reqobj EXCEPT ![r] = current]
  /\ UNCHANGED <<reqcfg, verdict>>

ReadConfig(r) ==
  /\ RequestStep
  /\ reqpc[r] = "picked"
  /\ LET c == cfg[reqobj[r]] IN
     /\ reqcfg' = [reqcfg EXCEPT ![r] = c]
     /\ reqpc' = [reqpc EXCEPT ![r] =
                    IF c = NoConfig \/ c.max <= 0 THEN "accepted" ELSE "checking"]
  /\ UNCHANGED <<reqobj, verdict>>

\* Mutant of Exceeds: the age of the sample does not matter.
ExceedsAtAnyAge(s, c) == s.taken /\ s.waiting >= c.max

Exceeds(s, c) == s.taken /\ s.age <= StalenessLimit /\ s.waiting >= c.max

Minutes(c) == IF c.minutes <= 0 THEN 1 ELSE c.minutes

ReadSample(r) ==
  /\ RequestStep
  /\ reqpc[r] = "checking"
  /\ IF Exceeds(sample[reqobj[r]], reqcfg[r])
     THEN /\ reqpc' = [reqpc EXCEPT ![r] = "rejected"]
          /\ verdict' = [verdict EXCEPT ![r] =
                           [max |-> reqcfg[r].max, retry |-> 60 * Minutes(reqcfg[r])]]
     ELSE /\ reqpc' = [reqpc EXCEPT ![r] = "accepted"]
          /\ UNCHANGED verdict
  /\ UNCHANGED <<reqobj, reqcfg>>

\* The answer has been sent; the client may come back with another request.
Answered(r) ==
  /\ RequestStep
  /\ reqpc[r] \in {"accepted", "rejected"}
  /\ reqpc' = [reqpc EXCEPT ![r] = "arrived"]
  /\ reqobj' = [reqobj EXCEPT ![r] = NoObject]
  /\ reqcfg' = [reqcfg EXCEPT ![r] = NoConfig]
  /\ verdict' = [verdict EXCEPT ![r] = NoVerdict]

Request(r) == Pick(r) \/ ReadConfig(r) \/ ReadSample(r) \/ Answered(r)

----------------------------------------------------------------------------
(* The backend and the clock *)

QueueChanges(d) ==
  /\ d # depth
  /\ depth' = d
  /\ lastSeen' = [lastSeen EXCEPT ![d] = 0]
  /\ UNCHANGED <<regVars, objVars, polVars, gauges, reqVars>>

Scraping(o) == poller[o] \in {"inflight", "got"}

\* An interval ends.  A scrape never spans a whole interval, and a request
\* decides within the interval in which it read the sample.
IntervalEnds ==
  /\ \A o \in Objects : ~(Scraping(o) /\ spanned[o])
  /\ \A r \in Requests : reqpc[r] # "rejected"
  /\ sample' = [o \in Objects |-> IF sample[o].taken
                                  THEN [sample[o] EXCEPT !.age = Older(@)] ELSE sample[o]]
  /\ lastSeen' = [d \in Depths |-> IF d = depth THEN 0 ELSE Older(lastSeen[d])]
  /\ pending' = [o \in Objects |-> poller[o] # "none"]
  /\ spanned' = [o \in Objects |-> Scraping(o)]
  /\ UNCHANGED <<regVars, cfg, overloaded, poller, cancelled, got, depth, gauges, reqVars>>

----------------------------------------------------------------------------
Next ==
  \/ Registry
  \/ \E o \in Objects : Poll(o) \/ Return(o)
  \/ \E r \in Requests : Request(r)
  \/ \E d \in Depths : QueueChanges(d)
  \/ IntervalEnds

Spec == Init /\ [][Next]_vars

\* Time passes, goroutines run, tickers fire, and a select that finds two channels ready
\* again and again does not always take the same one.
Fairness ==
  /\ SF_vars(IntervalEnds) /\ WF_vars(FinishSet \/ FinishStop)
  /\ \A o \in Objects : WF_vars(Poll(o)) /\ SF_vars(Return(o))
  /\ \A r \in Requests : WF_vars(Request(r))

FairSpec == Spec /\ Fairness

----------------------------------------------------------------------------
(* Properties *)

\* Types of the variables.
TypeOK ==
  /\ settings \in AnyConfig /\ current \in Objects \cup {NoObject}
  /\ created \subseteq Objects
  /\ op \in [kind : {"set", "drop", "stop"}, obj : Objects] \cup {Idle}
  /\ cfg \in [Objects -> AnyConfig]
  /\ sample \in [Objects -> [taken : BOOLEAN, waiting : Depths \cup {0}, age : Ages]]
  /\ overloaded \in [Objects -> BOOLEAN]
  /\ poller \in [Objects -> {"none", "due", "inflight", "got", "waiting"}]
  /\ cancelled \in [Objects -> BOOLEAN] /\ pending \in [Objects -> BOOLEAN]
  /\ spanned \in [Objects -> BOOLEAN] /\ got \in [Objects -> Depths \cup {0}]
  /\ depth \in Depths /\ lastSeen \in [Depths -> Ages]
  /\ gaugeDepth \in Depths \cup {0} /\ gaugeOverloaded \in 0..1
  /\ reqpc \in [Requests -> {"arrived", "picked", "checking", "accepted", "rejected"}]
  /\ reqobj \in [Requests -> Objects \cup {NoObject}]
  /\ reqcfg \in [Requests -> AnyConfig]
  /\ verdict \in [Requests -> [max : Int, retry : Int]]

\* An object whose polling is off remembers nothing a late scrape could have
\* left behind: setConfig waits for the old poller before it resets the sample
\* and the flag (metrics.go:57-76).  And the gauge, which has a lock of its own,
\* agrees with the flag while the host has had one object only.
DisabledIsClean ==
  \A o \in Objects :
    /\ (cfg[o] = NoConfig /\ ~(op.kind = "set" /\ op.obj = o)) =>
         sample[o] = NoSample /\ ~overloaded[o] /\ poller[o] = "none"
    /\ created = {o} => gaugeOverloaded = (IF overloaded[o] THEN 1 ELSE 0)

\* A client is turned away only if the backend really had a queue of the
\* configured length within the staleness limit plus the length of a scrape,
\* also when the configuration or the enclave changes between the steps of the
\* decision (metrics.go:245-273).
RejectionJustified ==
  \A r \in Requests : reqpc[r] = "rejected" =>
    /\ \E d \in Depths : d >= verdict[r].max /\ lastSeen[d] <= StalenessLimit + 1
    /\ verdict[r].max > 0 /\ verdict[r].retry >= 60

\* Once shutdown has returned for the enclave of a host, nothing writes its
\* sample or the gauges of the host: the last scrape was awaited (metrics.go:
\* 152-166).  Not so for a host with a second object: addEnclave replaces an
\* enclave without shutting it down (manager.go:169).
ShutdownIsQuiet ==
  [][\A o \in Objects :
       (created = {o} /\ current = NoObject /\ op = Idle) =>
         /\ UNCHANGED gauges
         /\ sample'[o] \in {sample[o], [sample[o] EXCEPT !.age = Older(@)]}]_vars

WouldReject(o) ==
  /\ cfg[o] # NoConfig
  /\ cfg[o].max > 0
  /\ Exceeds(sample[o], cfg[o])

Short(d) == \A c \in Configs : d < c.max \/ c.max <= 0

\* The enclave in the pool stops turning requests away for good when the queue
\* stays short; and also when from some time on no poll succeeds, or none but on
\* a short queue, however long the queue is (metrics.go:255-273).
RejectionsOver == <>[](current # NoObject => ~WouldReject(current))
RejectionEnds ==
  /\ <>[](Short(depth)) => RejectionsOver
  /\ <>[][\A o \in Objects : Store(o) => Short(got[o])]_vars => RejectionsOver

\* setConfig and shutdown return: the registry never waits for a poller forever.
OperationsReturn == op # Idle ~> op = Idle

----------------------------------------------------------------------------
(* The invariant of the proofs *)

\* A registry operation is about the enclave in the pool, and only the poller
\* of that operation is cancelled.
OneOperation ==
  /\ current # NoObject => current \in created
  /\ op # Idle => op.obj = current
  /\ \A o \in Objects : cancelled[o] => op # Idle /\ op.obj = o

\* An object without a configuration, one not created yet among them, is clean.
CleanUntilConfigured ==
  \A o \in Objects :
    /\ o \notin created => cfg[o] = NoConfig
    /\ cfg[o] = NoConfig => sample[o] = NoSample /\ ~overloaded[o] /\ poller[o] = "none"

\* The gauge of the overload state, until the host gets a second object.
GaugeAgrees ==
  /\ created = {} => gaugeOverloaded = 0
  /\ \A o \in Objects : created = {o} => gaugeOverloaded = (IF overloaded[o] THEN 1 ELSE 0)

\* Only a replaced object outlives its place in the pool with its poller.
PollsInPool ==
  \A o \in Objects : created = {o} => current = o \/ poller[o] = "none"

\* A value read but not stored is of this interval, or of the last one when the
\* scrape has seen an interval end; so a sample is one interval older at most
\* than its age says.
SamplesSeen ==
  /\ lastSeen[depth] = 0
  /\ \A o \in Objects :
       /\ poller[o] = "got" =>
            got[o] \in Depths /\ lastSeen[got[o]] <= (IF spanned[o] THEN 1 ELSE 0)
       /\ sample[o].taken =>
            sample[o].waiting \in Depths /\ lastSeen[sample[o].waiting] <= sample[o].age + 1

\* What a request has read before it decides.
Deciding ==
  \A r \in Requests :
    /\ reqpc[r] \in {"picked", "checking"} => reqobj[r] \in Objects
    /\ reqpc[r] = "checking" => reqcfg[r] # NoConfig /\ reqcfg[r].max > 0

IInv ==
  /\ TypeOK /\ OneOperation /\ CleanUntilConfigured /\ GaugeAgrees /\ PollsInPool
  /\ SamplesSeen /\ Deciding /\ RejectionJustified

=============================================================================
