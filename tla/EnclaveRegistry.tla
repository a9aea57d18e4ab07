-------------------------- MODULE EnclaveRegistry --------------------------
(***************************************************************************)
(* The model registry of manager/manager.go: the sync worker and its one   *)
(* goroutine per model, the attestation of enclaves under the model lock,  *)
(* the requests that pick an enclave from the pool, the status page and    *)
(* the shutdown of the process.                                            *)
(*                                                                         *)
(* The services the worker talks to (config URL, hardware measurements,    *)
(* GitHub releases) and the enclave hosts form the environment.  They      *)
(* change at most MaxChanges times, which bounds every counter.            *)
(***************************************************************************)
EXTENDS Naturals, FiniteSets

CONSTANTS
  Models,           \* model names of the initial config
  Hosts,            \* enclave host names
  Tags,             \* release tags of a repository
  Measurements,     \* code measurements
  MeasurementOf,    \* [Tags -> Measurements \cup {NoMeasurement}]: the verified
                    \* measurement of a release; NoMeasurement: it cannot be verified
  NoTag, NoMeasurement,
  Settings,         \* values of Model.Overload together with Model.RateLimit
  PolledSettings,   \* those whose Overload is not nil
  InitialSettings,  \* [Models -> Settings], from the initial config
  Configs,          \* contents the update URL may serve
  Statuses,         \* ways a host may answer that the environment uses
  Requests,         \* client requests, each served once
  StatusServed,     \* whether the status page is requested
  MaxChanges        \* bound on the changes of the environment

Services == {"config", "hardware", "github"}
Enclave  == [host : Hosts, boot : Nat, meas : Measurements,
             cfg : Settings, poller : {"running", "stopped"}]
HostState == [status : {"up", "unverified", "down", "hung"}, boot : Nat, meas : Measurements]
NoEnclave == [host |-> "none"]
ConfigType == [listed : SUBSET Models, sameRepo : SUBSET Models,
               hosts : [Models -> SUBSET Hosts], settings : [Models -> Settings]]
NoRound  == [listed |-> {}]

ASSUME ConstantsAssumption ==
  /\ MeasurementOf \in [Tags -> Measurements \cup {NoMeasurement}]
  /\ NoTag \notin Tags
  /\ NoMeasurement \notin Measurements
  /\ PolledSettings \subseteq Settings
  /\ InitialSettings \in [Models -> Settings]
  /\ Configs \subseteq ConfigType
  /\ Statuses \subseteq {"up", "unverified", "down", "hung"}
  /\ StatusServed \in BOOLEAN
  /\ MaxChanges \in Nat

VARIABLES
  (* environment *)
  config,      \* what the update URL serves
  service,     \* [Services -> BOOLEAN]: does the service answer
  release,     \* latest release tag of each model's repository
  host,        \* [Hosts -> [status, boot, meas]]: boot stands for the TLS key,
               \* generated inside the enclave each time it boots
  changes,     \* environment changes so far
  (* the sync worker and its goroutines *)
  worker,      \* "tick", "config", "hardware" or "models"
  round,       \* the config of the current or last round
  errors,      \* <<m, h>> for each host the round failed to add; <<"sync">> when
               \* sync itself returned an error
  syncpc,      \* control of each model's goroutine
  latest,      \* latestTag, local to updateModelMeasurements
  todo,        \* hostnames not yet handed to addEnclave
  current,     \* the host addEnclave works on, the model lock held
  (* the models *)
  tag, source, settings, pool,
  (* requests *)
  reqpc, picked,
  expected,    \* history: measurement of the model when NextEnclave chose
  answered,    \* measurement running behind the connection that answered
  (* status page and process *)
  encoding,    \* the models whose Enclaves map json.Encode is ranging over
  process,     \* "serving", "stopping", "exited" or "crashed"
  stopped      \* the models em.Shutdown is done with

envVars  == <<config, service, release, host, changes>>
syncVars == <<worker, round, errors, syncpc, latest, todo, current>>
modelVars == <<tag, source, settings, pool>>
reqVars  == <<reqpc, picked, expected, answered>>
vars == <<envVars, syncVars, modelVars, reqVars, encoding, process, stopped>>

SyncPC == {"done", "start", "digest", "install", "apply", "add", "probe", "attest"}
Running == process \in {"serving", "stopping"}

\* addEnclave keeps model.mu.Lock across its calls to the host; every other
\* critical section of the model lock is one step.
Locked(m) == syncpc[m] \in {"probe", "attest"}

EnclaveAt(m, h) == {e \in pool[m] : e.host = h}

\* Mutant of Poller: a third value for an enclave that is not polled.
PollerUntyped(s) == IF s \in PolledSettings THEN "running" ELSE "off"

\* enclave.shutdown() and enclave.updateOverloadConfig(cfg)
Poller(s)        == IF s \in PolledSettings THEN "running" ELSE "stopped"
Stopped(e)       == [e EXCEPT !.poller = "stopped"]
Configured(e, s) == [e EXCEPT !.cfg = s, !.poller = Poller(s)]

\* A write of a Go map while the status page ranges over it is undefined: the
\* runtime may detect it, and then the process dies.
MapWrite(m) ==
  process' \in IF m \in encoding THEN {process, "crashed"} ELSE {process}

----------------------------------------------------------------------------
Init ==
  /\ config \in Configs
  /\ service = [s \in Services |-> TRUE]
  /\ release \in [Models -> Tags]
  /\ \E meas \in [Hosts -> Measurements] :
       host = [h \in Hosts |-> [status |-> "up", boot |-> 0, meas |-> meas[h]]]
  /\ changes = 0
  /\ worker = "tick" /\ round = NoRound /\ errors = {}
  /\ syncpc = [m \in Models |-> "done"]
  /\ latest = [m \in Models |-> NoTag]
  /\ todo = [m \in Models |-> {}]
  /\ current = [m \in Models |-> {}]
  /\ tag = [m \in Models |-> NoTag]
  /\ source = [m \in Models |-> NoMeasurement]
  /\ settings = InitialSettings
  /\ pool = [m \in Models |-> {}]
  /\ reqpc = [r \in Requests |-> "arrived"]
  /\ picked = [r \in Requests |-> NoEnclave]
  /\ expected = [r \in Requests |-> NoMeasurement]
  /\ answered = [r \in Requests |-> NoMeasurement]
  /\ encoding = {}
  /\ process = "serving" /\ stopped = {}

----------------------------------------------------------------------------
(* Environment *)

EnvStep ==
  /\ Running
  /\ changes < MaxChanges
  /\ changes' = changes + 1
  /\ UNCHANGED <<syncVars, modelVars, reqVars, encoding, process, stopped>>

EditConfig ==
  /\ EnvStep
  /\ config' \in Configs \ {config}
  /\ UNCHANGED <<service, release, host>>

ToggleService(s) ==
  /\ EnvStep
  /\ service' = [service EXCEPT ![s] = ~@]
  /\ UNCHANGED <<config, release, host>>

PublishRelease(m, t) ==
  /\ EnvStep
  /\ t # release[m]
  /\ release' = [release EXCEPT ![m] = t]
  /\ UNCHANGED <<config, service, host>>

ChangeStatus(h, st) ==
  /\ EnvStep
  /\ st # host[h].status
  /\ host' = [host EXCEPT ![h].status = st]
  /\ UNCHANGED <<config, service, release>>

\* The enclave restarts, with the same or other code, and makes a new key.
Reboot(h, meas) ==
  /\ EnvStep
  /\ host' = [host EXCEPT ![h] = [status |-> @.status, boot |-> @.boot + 1, meas |-> meas]]
  /\ UNCHANGED <<config, service, release>>

Environment ==
  \/ EditConfig
  \/ \E s \in Services : ToggleService(s)
  \/ \E m \in Models, t \in Tags : PublishRelease(m, t)
  \/ \E h \in Hosts, st \in Statuses : ChangeStatus(h, st)
  \/ \E h \in Hosts, meas \in Measurements : Reboot(h, meas)

----------------------------------------------------------------------------
(* StartWorker and sync *)

StartRound ==
  /\ Running /\ worker = "tick"
  /\ worker' = "config" /\ errors' = {} /\ round' = NoRound
  /\ UNCHANGED <<envVars, syncpc, latest, todo, current, modelVars, reqVars, encoding, process, stopped>>

LoadConfig ==
  /\ Running /\ worker = "config"
  /\ IF service["config"]
     THEN worker' = "hardware" /\ round' = config /\ errors' = errors
     ELSE worker' = "tick" /\ round' = round /\ errors' = errors \cup {<<"sync">>}
  /\ UNCHANGED <<envVars, syncpc, latest, todo, current, modelVars, reqVars, encoding, process, stopped>>

\* LatestHardwareMeasurements, then one goroutine per model.
FetchHardware ==
  /\ Running /\ worker = "hardware"
  /\ IF service["hardware"]
     THEN /\ worker' = "models" /\ round' = round /\ errors' = errors
          /\ syncpc' = [m \in Models |-> "start"]
     ELSE /\ worker' = "tick" /\ round' = NoRound
          /\ errors' = errors \cup {<<"sync">>}
          /\ syncpc' = syncpc
  /\ UNCHANGED <<envVars, latest, todo, current, modelVars, reqVars, encoding, process, stopped>>

\* wg.Wait returns.
EndRound ==
  /\ Running /\ worker = "models"
  /\ \A m \in Models : syncpc[m] = "done"
  /\ worker' = "tick"
  /\ UNCHANGED <<envVars, round, errors, syncpc, latest, todo, current, modelVars, reqVars, encoding, process, stopped>>

----------------------------------------------------------------------------
(* The goroutine of model m *)

At(m, pc) == Running /\ syncpc[m] = pc
Goto(m, pc) == syncpc' = [syncpc EXCEPT ![m] = pc]
GoUnchanged == UNCHANGED <<envVars, worker, round, reqVars, encoding, stopped>>

\* The model left the config: its pollers stop, its enclaves stay.
Delisted(m) ==
  /\ At(m, "start") /\ m \notin round.listed
  /\ pool' = [pool EXCEPT ![m] = {Stopped(e) : e \in @}]
  /\ Goto(m, "done")
  /\ GoUnchanged /\ UNCHANGED <<errors, latest, todo, current, tag, source, settings, process>>

RepoChanged(m) ==
  /\ At(m, "start") /\ m \in round.listed \ round.sameRepo
  /\ Goto(m, "done")
  /\ GoUnchanged /\ UNCHANGED <<errors, latest, todo, current, modelVars, process>>

\* Mutant of FetchLatestTag: the comparison of the repositories is lost.
FetchLatestTagOfAnyRepo(m) ==
  /\ At(m, "start") /\ m \in round.listed
  /\ Goto(m, IF service["github"] /\ release[m] # tag[m] THEN "digest" ELSE "apply")
  /\ latest' = [latest EXCEPT ![m] = release[m]]
  /\ GoUnchanged /\ UNCHANGED <<errors, todo, current, modelVars, process>>

\* updateModelMeasurements up to its early return; a failure is only logged.
FetchLatestTag(m) ==
  /\ At(m, "start") /\ m \in round.listed \cap round.sameRepo
  /\ IF service["github"] /\ release[m] # tag[m]
     THEN Goto(m, "digest") /\ latest' = [latest EXCEPT ![m] = release[m]]
     ELSE Goto(m, "apply") /\ latest' = latest
  /\ GoUnchanged /\ UNCHANGED <<errors, todo, current, modelVars, process>>

\* Digest and bundle of latestTag, and the verification of the bundle: three
\* calls that write nothing; the first that fails leaves the function.
FetchMeasurement(m) ==
  /\ At(m, "digest")
  /\ Goto(m, IF service["github"] /\ MeasurementOf[latest[m]] # NoMeasurement
             THEN "install" ELSE "apply")
  /\ GoUnchanged /\ UNCHANGED <<errors, latest, todo, current, modelVars, process>>

\* Mutant of InstallMeasurement: the pool is not emptied.
InstallKeepingPool(m) ==
  /\ At(m, "install")
  /\ tag' = [tag EXCEPT ![m] = latest[m]]
  /\ source' = [source EXCEPT ![m] = MeasurementOf[latest[m]]]
  /\ Goto(m, "apply")
  /\ GoUnchanged /\ UNCHANGED <<errors, latest, todo, current, pool, settings, process>>

\* Tag, measurement and the emptied pool, in one critical section.
InstallMeasurement(m) ==
  /\ At(m, "install")
  /\ tag' = [tag EXCEPT ![m] = latest[m]]
  /\ source' = [source EXCEPT ![m] = MeasurementOf[latest[m]]]
  /\ pool' = [pool EXCEPT ![m] = {}]
  /\ Goto(m, "apply")
  /\ GoUnchanged /\ UNCHANGED <<errors, latest, todo, current, settings, process>>

\* Mutant of ApplyConfig: the settings do not reach the enclaves in the pool.
ApplyToModelOnly(m) ==
  /\ At(m, "apply")
  /\ settings' = [settings EXCEPT ![m] = round.settings[m]]
  /\ pool' = [pool EXCEPT ![m] = {e \in @ : e.host \in round.hosts[m]}]
  /\ todo' = [todo EXCEPT ![m] = round.hosts[m]]
  /\ Goto(m, "add")
  /\ GoUnchanged /\ UNCHANGED <<errors, latest, current, tag, source, process>>

\* Mutant of ApplyConfig: an enclave whose settings have not changed is left
\* alone, also when its poller has been stopped.
ApplyIfChanged(m) ==
  /\ At(m, "apply")
  /\ settings' = [settings EXCEPT ![m] = round.settings[m]]
  /\ pool' = [pool EXCEPT ![m] = {IF e.cfg = round.settings[m] THEN e ELSE Configured(e, round.settings[m]) :
                                  e \in {e \in @ : e.host \in round.hosts[m]}}]
  /\ todo' = [todo EXCEPT ![m] = round.hosts[m]]
  /\ Goto(m, "add")
  /\ IF \E e \in pool[m] : e.host \notin round.hosts[m] THEN MapWrite(m) ELSE process' = process
  /\ GoUnchanged /\ UNCHANGED <<errors, latest, current, tag, source>>

\* Overload and RateLimit, their propagation to the enclaves, and the removal
\* of the hosts the config no longer names.
ApplyConfig(m) ==
  /\ At(m, "apply")
  /\ settings' = [settings EXCEPT ![m] = round.settings[m]]
  /\ pool' = [pool EXCEPT ![m] = {Configured(e, round.settings[m]) :
                                  e \in {e \in @ : e.host \in round.hosts[m]}}]
  /\ todo' = [todo EXCEPT ![m] = round.hosts[m]]
  /\ Goto(m, "add")
  /\ IF \E e \in pool[m] : e.host \notin round.hosts[m] THEN MapWrite(m) ELSE process' = process
  /\ GoUnchanged /\ UNCHANGED <<errors, latest, current, tag, source>>

\* Mutant of BeginAdd: a host that is in the pool is not looked at again.
BeginAddUnknown(m, h) ==
  /\ At(m, "add") /\ h \in todo[m]
  /\ todo' = [todo EXCEPT ![m] = @ \ {h}]
  /\ IF EnclaveAt(m, h) # {}
     THEN UNCHANGED <<current, syncpc>>
     ELSE current' = [current EXCEPT ![m] = {h}] /\ Goto(m, "attest")
  /\ GoUnchanged /\ UNCHANGED <<errors, latest, modelVars, process>>

\* addEnclave takes the lock; hostnames come in the order of the config file,
\* any order here.
BeginAdd(m, h) ==
  /\ At(m, "add") /\ h \in todo[m]
  /\ todo' = [todo EXCEPT ![m] = @ \ {h}]
  /\ current' = [current EXCEPT ![m] = {h}]
  /\ Goto(m, IF EnclaveAt(m, h) # {} THEN "probe" ELSE "attest")
  /\ GoUnchanged /\ UNCHANGED <<errors, latest, modelVars, process>>

\* TLSPublicKey of a host already in the pool: the same key ends addEnclave, a
\* new key or an error goes on to attest the host again.
ProbeKey(m) ==
  /\ At(m, "probe")
  /\ \E h \in current[m], e \in pool[m] :
       /\ e.host = h
       /\ IF host[h].status \in {"up", "unverified"} /\ host[h].boot = e.boot
          THEN Goto(m, "add") /\ current' = [current EXCEPT ![m] = {}]
          ELSE Goto(m, "attest") /\ current' = current
  /\ GoUnchanged /\ UNCHANGED <<errors, latest, todo, modelVars, process>>

Attested(m, h) ==
  /\ host[h].status = "up"
  /\ source[m] # NoMeasurement
  /\ host[h].meas = source[m]

NewEnclave(m, h) ==
  [host |-> h, boot |-> host[h].boot, meas |-> host[h].meas,
   cfg |-> settings[m], poller |-> Poller(settings[m])]

\* Mutant of Attest: the error is not recorded for the status page.
AttestSilently(m) ==
  /\ At(m, "attest")
  /\ \E h \in current[m] :
       /\ host[h].status # "hung"
       /\ IF Attested(m, h)
          THEN pool' = [pool EXCEPT ![m] = (@ \ EnclaveAt(m, h)) \cup {NewEnclave(m, h)}]
          ELSE pool' = pool
  /\ current' = [current EXCEPT ![m] = {}]
  /\ Goto(m, "add")
  /\ GoUnchanged /\ UNCHANGED <<errors, latest, todo, tag, source, settings, process>>

\* Mutant of Attest: the path of the error leaves the model locked.
AttestKeepingLock(m) ==
  /\ At(m, "attest")
  /\ \E h \in current[m] :
       IF Attested(m, h)
       THEN /\ pool' = [pool EXCEPT ![m] = (@ \ EnclaveAt(m, h)) \cup {NewEnclave(m, h)}]
            /\ current' = [current EXCEPT ![m] = {}] /\ Goto(m, "add")
            /\ UNCHANGED errors
       ELSE /\ errors' = errors \cup {<<m, h>>}
            /\ UNCHANGED <<pool, current, syncpc>>
  /\ GoUnchanged /\ UNCHANGED <<latest, todo, tag, source, settings, process>>

\* attestationFetch (no client timeout: a hung host never returns), the checks
\* of the document, and the new entry of the map; or the error sync records.
Attest(m) ==
  /\ At(m, "attest")
  /\ \E h \in current[m] :
       /\ host[h].status # "hung"
       /\ IF Attested(m, h)
          THEN /\ pool' = [pool EXCEPT ![m] = (@ \ EnclaveAt(m, h)) \cup {NewEnclave(m, h)}]
               /\ MapWrite(m) /\ errors' = errors
          ELSE /\ errors' = errors \cup {<<m, h>>}
               /\ UNCHANGED <<pool, process>>
  /\ current' = [current EXCEPT ![m] = {}]
  /\ Goto(m, "add")
  /\ GoUnchanged /\ UNCHANGED <<latest, todo, tag, source, settings>>

EndModel(m) ==
  /\ At(m, "add") /\ todo[m] = {}
  /\ Goto(m, "done")
  /\ GoUnchanged /\ UNCHANGED <<errors, latest, todo, current, modelVars, process>>

SyncModel(m) ==
  \/ Delisted(m) \/ RepoChanged(m) \/ FetchLatestTag(m) \/ FetchMeasurement(m)
  \/ InstallMeasurement(m) \/ ApplyConfig(m) \/ (\E h \in Hosts : BeginAdd(m, h))
  \/ ProbeKey(m) \/ Attest(m) \/ EndModel(m)

----------------------------------------------------------------------------
(* Requests *)

ReqStep == Running /\ UNCHANGED <<envVars, syncVars, modelVars, encoding, process, stopped>>

\* NextEnclave copies the map, whose iteration order is random, and indexes the
\* copy with the counter: any enclave of the pool.
NextEnclave(r, m) ==
  /\ ReqStep /\ process = "serving"
  /\ reqpc[r] = "arrived" /\ ~Locked(m)
  /\ expected' = [expected EXCEPT ![r] = source[m]]
  /\ IF pool[m] = {}
     THEN /\ reqpc' = [reqpc EXCEPT ![r] = "unavailable"]
          /\ UNCHANGED picked
     ELSE /\ reqpc' = [reqpc EXCEPT ![r] = "picked"]
          /\ \E e \in pool[m] : picked' = [picked EXCEPT ![r] = e]
  /\ UNCHANGED answered

\* ShouldReject of the enclave that was picked (module OverloadMetrics).
Reject(r) ==
  /\ ReqStep
  /\ reqpc[r] = "picked" /\ picked[r].cfg \in PolledSettings
  /\ reqpc' = [reqpc EXCEPT ![r] = "rejected"]
  /\ UNCHANGED <<picked, expected, answered>>

\* Mutant of Serve: the transport accepts any key of the host.
ServeAnyKey(r) ==
  /\ ReqStep
  /\ reqpc[r] = "picked" /\ host[picked[r].host].status # "hung"
  /\ reqpc' = [reqpc EXCEPT ![r] = "served"]
  /\ answered' = [answered EXCEPT ![r] = host[picked[r].host].meas]
  /\ UNCHANGED <<picked, expected>>

\* The proxy's transport accepts only the key attested when the enclave was
\* added; the enclave may have left the pool since.
Serve(r) ==
  /\ ReqStep
  /\ reqpc[r] = "picked"
  /\ LET h == host[picked[r].host] IN
     /\ h.status # "hung"
     /\ IF h.status # "down" /\ h.boot = picked[r].boot
        THEN /\ reqpc' = [reqpc EXCEPT ![r] = "served"]
             /\ answered' = [answered EXCEPT ![r] = h.meas]
        ELSE /\ reqpc' = [reqpc EXCEPT ![r] = "failed"]
             /\ UNCHANGED answered
  /\ UNCHANGED <<picked, expected>>

Request(r) == (\E m \in Models : NextEnclave(r, m)) \/ Reject(r) \/ Serve(r)

----------------------------------------------------------------------------
(* Status page: json.Encode walks the models one after the other, no lock. *)

StatusBegin(m) ==
  /\ StatusServed /\ process = "serving" /\ encoding = {}
  /\ encoding' = {m}
  /\ UNCHANGED <<envVars, syncVars, modelVars, reqVars, process, stopped>>

StatusEnd ==
  /\ Running /\ encoding # {}
  /\ encoding' = {}
  /\ UNCHANGED <<envVars, syncVars, modelVars, reqVars, process, stopped>>

(* SIGTERM, then em.Shutdown: the read lock of each model, in any order. *)

Terminate ==
  /\ process = "serving"
  /\ process' = "stopping"
  /\ UNCHANGED <<envVars, syncVars, modelVars, reqVars, encoding, stopped>>

ShutdownModel(m) ==
  /\ process = "stopping" /\ m \notin stopped /\ ~Locked(m)
  /\ pool' = [pool EXCEPT ![m] = {Stopped(e) : e \in @}]
  /\ stopped' = stopped \cup {m}
  /\ UNCHANGED <<envVars, syncVars, tag, source, settings, reqVars, encoding, process>>

Exit ==
  /\ process = "stopping" /\ stopped = Models
  /\ process' = "exited"
  /\ UNCHANGED <<envVars, syncVars, modelVars, reqVars, encoding, stopped>>

----------------------------------------------------------------------------
System ==
  \/ StartRound \/ LoadConfig \/ FetchHardware \/ EndRound
  \/ \E m \in Models : SyncModel(m)

Next ==
  \/ Environment \/ System
  \/ \E r \in Requests : Request(r)
  \/ \E m \in Models : StatusBegin(m)
  \/ StatusEnd \/ Terminate
  \/ \E m \in Models : ShutdownModel(m)
  \/ Exit

Spec == Init /\ [][Next]_vars

\* The Go scheduler runs every goroutine that can run, the ticker of
\* StartWorker keeps firing and the calls to live services return.  An RWMutex
\* lets in the readers that wait when a writer leaves, so em.Shutdown is not
\* overtaken forever: strong fairness.  Nothing is assumed of clients, of the
\* environment or of the arrival of a signal.
Fairness ==
  /\ WF_vars(StartRound \/ LoadConfig \/ FetchHardware \/ EndRound)
  /\ \A m \in Models : WF_vars(SyncModel(m)) /\ SF_vars(ShutdownModel(m))
  /\ \A r \in Requests : WF_vars(Reject(r) \/ Serve(r))
  /\ WF_vars(StatusEnd) /\ WF_vars(Exit)

FairSpec == Spec /\ Fairness

----------------------------------------------------------------------------
(* Invariants *)

Source(m) == IF tag[m] = NoTag THEN NoMeasurement ELSE MeasurementOf[tag[m]]

\* Types of the variables.
TypeOK ==
  /\ config \in Configs
  /\ service \in [Services -> BOOLEAN]
  /\ release \in [Models -> Tags]
  /\ host \in [Hosts -> HostState]
  /\ changes \in Nat
  /\ worker \in {"tick", "config", "hardware", "models"}
  /\ round \in ConfigType \cup {NoRound}
  /\ errors \subseteq (Models \X Hosts) \cup {<<"sync">>}
  /\ syncpc \in [Models -> SyncPC]
  /\ latest \in [Models -> Tags \cup {NoTag}]
  /\ todo \in [Models -> SUBSET Hosts]
  /\ current \in [Models -> SUBSET Hosts]
  /\ tag \in [Models -> Tags \cup {NoTag}]
  /\ source \in [Models -> Measurements \cup {NoMeasurement}]
  /\ settings \in [Models -> Settings]
  /\ pool \in [Models -> SUBSET Enclave]
  /\ reqpc \in [Requests -> {"arrived", "picked", "unavailable", "rejected", "served", "failed"}]
  /\ picked \in [Requests -> Enclave \cup {NoEnclave}]
  /\ expected \in [Requests -> Measurements \cup {NoMeasurement}]
  /\ answered \in [Requests -> Measurements \cup {NoMeasurement}]
  /\ encoding \subseteq Models
  /\ process \in {"serving", "stopping", "exited", "crashed"}
  /\ stopped \subseteq Models

\* A pool holds only enclaves attested to the measurement of the release the
\* model is at, at most one per host: the critical sections of addEnclave and
\* updateModelMeasurements together (manager.go:132-177, 416-424).
PoolVerified ==
  \A m \in Models :
    /\ source[m] = Source(m)
    /\ \A e \in pool[m] : e.meas = source[m] /\ source[m] # NoMeasurement
    /\ \A e, f \in pool[m] : e.host = f.host => e = f

\* Every enclave in a pool runs with the overload settings of its model: the
\* ones that were there when sync changed them (manager.go:477-481) and the
\* ones added later (line 177).
SettingsApplied ==
  \A m \in Models : \A e \in pool[m] :
    /\ e.cfg = settings[m]
    /\ e.poller \in {Poller(e.cfg), "stopped"}

\* When a model's goroutine has ended, its pool has no host the config of the
\* round does not name, and every host it names is in the pool or has its
\* error on the status page (manager.go:487-506).
RoundAccounted ==
  \A m \in round.listed :
    (worker = "models" /\ syncpc[m] = "done" /\ m \in round.sameRepo) =>
      /\ \A e \in pool[m] : e.host \in round.hosts[m]
      /\ \A h \in round.hosts[m] : EnclaveAt(m, h) # {} \/ <<m, h>> \in errors

\* The answer a client gets comes from code with the measurement of the release
\* the model was at when NextEnclave chose, although the lock is not held from
\* there to the connection and the host may have restarted or left the pool
\* (README: "directs it to a verified secure inference enclave").
ServedVerified ==
  \A r \in Requests :
    reqpc[r] = "served" => /\ answered[r] = expected[r]
                           /\ answered[r] # NoMeasurement

\* What each goroutine relies on at each of its steps: the config of the round
\* while it works, a tag that was fetched before its measurement, an enclave
\* that was picked before it is asked.
LocalsLoaded ==
  /\ worker \in {"hardware", "models"} => round \in ConfigType
  /\ \A m \in Models : syncpc[m] # "done" => worker = "models"
  /\ \A m \in Models : syncpc[m] \notin {"done", "start"} =>
       m \in round.listed /\ m \in round.sameRepo
  /\ \A m \in Models : syncpc[m] \in {"digest", "install"} => latest[m] \in Tags
  /\ \A r \in Requests : reqpc[r] = "picked" => picked[r] \in Enclave

\* An attested key belongs to one boot of a host and so to one measurement,
\* for the enclaves in the pools and for those that requests still hold.
BootOf(e) == /\ e.boot <= host[e.host].boot
             /\ e.boot = host[e.host].boot => e.meas = host[e.host].meas
KeyBindsCode ==
  /\ \A m \in Models : \A e \in pool[m] : BootOf(e)
  /\ \A r \in Requests : reqpc[r] = "picked" =>
       /\ BootOf(picked[r])
       /\ picked[r].meas = expected[r]

\* The hosts addEnclave still has to see, the one it is at and the ones that
\* are in the pool or in the errors make up the hosts of the round's config:
\* the inductive form of RoundAccounted.
Accounting ==
  \A m \in Models :
    /\ syncpc[m] \notin {"probe", "attest"} => current[m] = {}
    /\ syncpc[m] \in {"probe", "attest"} => \E h \in Hosts : current[m] = {h}
    /\ syncpc[m] \notin {"add", "probe", "attest"} => todo[m] = {}
    /\ (syncpc[m] \in {"add", "probe", "attest"} \/
        (worker = "models" /\ syncpc[m] = "done" /\ m \in round.listed /\ m \in round.sameRepo)) =>
         /\ todo[m] \cup current[m] \subseteq round.hosts[m]
         /\ \A e \in pool[m] : e.host \in round.hosts[m]
         /\ \A h \in round.hosts[m] \ (todo[m] \cup current[m]) :
              EnclaveAt(m, h) # {} \/ <<m, h>> \in errors

\* The inductive invariant behind PoolVerified, SettingsApplied,
\* ServedVerified and RoundAccounted (module EnclaveRegistryProofs).
IInv == /\ TypeOK /\ LocalsLoaded /\ PoolVerified /\ SettingsApplied
        /\ KeyBindsCode /\ ServedVerified /\ Accounting

----------------------------------------------------------------------------
(* Action properties *)

\* A model the config of the round does not list, or lists with another
\* repository, keeps its release and exactly its enclaves for the whole round
\* (the early returns of manager.go:454-468).
FrozenUnlessListed ==
  [][\A m \in Models :
       (worker = "models" /\ m \notin round.listed) \/
       (worker = "models" /\ m \in round.listed \ round.sameRepo)
       => /\ tag'[m] = tag[m] /\ source'[m] = source[m] /\ settings'[m] = settings[m]
          /\ {<<e.host, e.boot>> : e \in pool'[m]} = {<<e.host, e.boot>> : e \in pool[m]}]_vars

----------------------------------------------------------------------------
(* Liveness *)

\* The environment has come to rest in a state where everything works.
Settled ==
  /\ process = "serving"
  /\ \A s \in Services : service[s]
  /\ \A h \in Hosts : host[h].status = "up"

UpToDate(m) ==
  /\ tag[m] = (IF MeasurementOf[release[m]] = NoMeasurement THEN tag[m] ELSE release[m])
  /\ \A e \in pool[m] : e.host \in config.hosts[m] /\ e.cfg = config.settings[m]
  /\ \A h \in config.hosts[m] : host[h].meas = source[m] =>
       \E e \in pool[m] : /\ e.host = h /\ e.boot = host[h].boot
                          /\ e.poller = Poller(e.cfg)

\* However the config, the releases, the hosts and the services changed, once
\* they stay up the worker brings every listed model to the latest release,
\* the settings of the config and all of its good hosts, for good.
Converges ==
  \A m \in Models :
    <>[](Settled /\ m \in config.listed \cap config.sameRepo) => <>[]UpToDate(m)

\* After SIGTERM the process exits (em.Shutdown needs every model's lock).
ShutdownEnds == (process = "stopping") ~> (process # "stopping")

\* "Metadata endpoints continue to work correctly" (tests/e2e/regression_test.go:
\* 5-6): a router that serves its status page is not ended by a fatal error.
NeverCrashes == process # "crashed"

=============================================================================
