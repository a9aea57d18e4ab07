----------------------- MODULE EnclaveRegistryProofs -----------------------
(* Proofs about EnclaveRegistry. *)
EXTENDS EnclaveRegistry, TLAPS

TypeInv == TypeOK /\ LocalsLoaded

\* The configuration and the clearing of the poller flag keep an enclave what
\* it is (updateOverloadConfig and shutdown of manager.go).
LEMMA EnclaveUpdates ==
  ASSUME NEW e \in Enclave, NEW s \in Settings
  PROVE  /\ Stopped(e) \in Enclave /\ Configured(e, s) \in Enclave
         /\ Stopped(e).host = e.host /\ Stopped(e).boot = e.boot
         /\ Stopped(e).meas = e.meas /\ Stopped(e).cfg = e.cfg
         /\ Stopped(e).poller = "stopped"
         /\ Configured(e, s).host = e.host /\ Configured(e, s).boot = e.boot
         /\ Configured(e, s).meas = e.meas /\ Configured(e, s).cfg = s
         /\ Configured(e, s).poller = Poller(s)
BY DEF Enclave, Stopped, Configured, Poller

LEMMA InitTypeInv == Init => TypeInv
BY ConstantsAssumption
   DEF Init, TypeInv, TypeOK, LocalsLoaded, SyncPC, Services, NoRound, NoEnclave, HostState

LEMMA EnvTypeInv == TypeInv /\ Environment => TypeInv'
<1> SUFFICES ASSUME TypeInv, Environment PROVE TypeInv' OBVIOUS
<1> USE DEF TypeInv, TypeOK, LocalsLoaded, EnvStep, syncVars, modelVars, reqVars
<1>1. CASE EditConfig BY <1>1 DEF EditConfig
<1>2. ASSUME NEW s \in Services, ToggleService(s) PROVE TypeInv'
  BY <1>2 DEF ToggleService
<1>3. ASSUME NEW m \in Models, NEW t \in Tags, PublishRelease(m, t) PROVE TypeInv'
  BY <1>3 DEF PublishRelease
<1>4. ASSUME NEW h \in Hosts, NEW st \in Statuses, ChangeStatus(h, st) PROVE TypeInv'
  <2>1. [host[h] EXCEPT !.status = st] \in HostState
    BY ConstantsAssumption DEF HostState
  <2>2. host' = [host EXCEPT ![h] = [host[h] EXCEPT !.status = st]]
    BY <1>4 DEF ChangeStatus
  <2>3. host' \in [Hosts -> HostState] BY <2>1, <2>2
  <2> QED BY <1>4, <2>3 DEF ChangeStatus
<1>5. ASSUME NEW h \in Hosts, NEW meas \in Measurements, Reboot(h, meas) PROVE TypeInv'
  <2>1. host[h] \in HostState OBVIOUS
  <2>2. [status |-> host[h].status, boot |-> host[h].boot + 1, meas |-> meas] \in HostState
    BY <2>1 DEF HostState
  <2>3. host' \in [Hosts -> HostState] BY <1>5, <2>2 DEF Reboot
  <2> QED BY <1>5, <2>3 DEF Reboot
<1> QED BY <1>1, <1>2, <1>3, <1>4, <1>5 DEF Environment

LEMMA WorkerTypeInv ==
  TypeInv /\ (StartRound \/ LoadConfig \/ FetchHardware \/ EndRound) => TypeInv'
<1> SUFFICES ASSUME TypeInv, StartRound \/ LoadConfig \/ FetchHardware \/ EndRound
             PROVE  TypeInv' OBVIOUS
<1> USE DEF TypeInv, TypeOK, LocalsLoaded, envVars, modelVars, reqVars, SyncPC
<1>1. CASE StartRound BY <1>1 DEF StartRound
<1>2. CASE LoadConfig BY <1>2, ConstantsAssumption DEF LoadConfig
<1>3. CASE FetchHardware BY <1>3 DEF FetchHardware
<1>4. CASE EndRound BY <1>4 DEF EndRound
<1> QED BY <1>1, <1>2, <1>3, <1>4

LEMMA NewEnclaveType ==
  ASSUME TypeOK, NEW m \in Models, NEW h \in Hosts
  PROVE  /\ NewEnclave(m, h) \in Enclave
         /\ NewEnclave(m, h).host = h /\ NewEnclave(m, h).boot = host[h].boot
         /\ NewEnclave(m, h).meas = host[h].meas
         /\ NewEnclave(m, h).cfg = settings[m]
         /\ NewEnclave(m, h).poller = Poller(settings[m])
BY DEF TypeOK, HostState, Enclave, NewEnclave, Poller

LEMMA SyncTypeInv ==
  ASSUME TypeInv, NEW m \in Models, SyncModel(m)
  PROVE  TypeInv'
<1> USE DEF TypeInv, LocalsLoaded, At, Goto, GoUnchanged, envVars, reqVars, SyncPC
<1>0. \A p \in SUBSET Enclave : \A s \in Settings :
        /\ {Stopped(e) : e \in p} \subseteq Enclave
        /\ \A q \in SUBSET p : {Configured(e, s) : e \in q} \subseteq Enclave
  BY EnclaveUpdates
<1>1. CASE Delisted(m)
  <2>1. pool' \in [Models -> SUBSET Enclave] BY <1>0, <1>1 DEF Delisted, TypeOK
  <2> QED BY <1>1, <2>1 DEF Delisted, TypeOK
<1>2. CASE RepoChanged(m) BY <1>2 DEF RepoChanged, TypeOK, modelVars
<1>3. CASE FetchLatestTag(m) BY <1>3 DEF FetchLatestTag, TypeOK, modelVars
<1>4. CASE FetchMeasurement(m) BY <1>4 DEF FetchMeasurement, TypeOK, modelVars
<1>5. CASE InstallMeasurement(m)
  BY <1>5, ConstantsAssumption DEF InstallMeasurement, TypeOK
<1>6. CASE ApplyConfig(m)
  <2>1. round \in ConfigType BY <1>6 DEF ApplyConfig
  <2>2. round.settings[m] \in Settings /\ round.hosts[m] \subseteq Hosts
    BY <2>1 DEF ConfigType
  <2>3. pool' \in [Models -> SUBSET Enclave]
    BY <1>0, <1>6, <2>2 DEF ApplyConfig, TypeOK
  <2>4. process' \in {"serving", "stopping", "exited", "crashed"}
    BY <1>6 DEF ApplyConfig, MapWrite, TypeOK
  <2> QED BY <1>6, <2>2, <2>3, <2>4 DEF ApplyConfig, TypeOK
<1>7. ASSUME NEW h \in Hosts, BeginAdd(m, h) PROVE TypeInv'
  BY <1>7 DEF BeginAdd, TypeOK, modelVars
<1>8. CASE ProbeKey(m) BY <1>8 DEF ProbeKey, TypeOK, modelVars
<1>9. CASE Attest(m)
  <2>1. PICK h \in current[m] :
          IF Attested(m, h)
          THEN /\ pool' = [pool EXCEPT ![m] = (@ \ EnclaveAt(m, h)) \cup {NewEnclave(m, h)}]
               /\ MapWrite(m) /\ errors' = errors
          ELSE /\ errors' = errors \cup {<<m, h>>}
               /\ UNCHANGED <<pool, process>>
    BY <1>9 DEF Attest
  <2>2. h \in Hosts BY DEF TypeOK
  <2>3. NewEnclave(m, h) \in Enclave BY <2>2, NewEnclaveType
  <2>4. /\ pool' \in [Models -> SUBSET Enclave]
        /\ process' \in {"serving", "stopping", "exited", "crashed"}
        /\ errors' \subseteq (Models \X Hosts) \cup {<<"sync">>}
    BY <2>1, <2>2, <2>3 DEF TypeOK, MapWrite
  <2> QED BY <1>9, <2>4 DEF Attest, TypeOK
<1>10. CASE EndModel(m) BY <1>10 DEF EndModel, TypeOK, modelVars
<1> QED BY <1>1, <1>2, <1>3, <1>4, <1>5, <1>6, <1>7, <1>8, <1>9, <1>10, SyncModel(m) DEF SyncModel

LEMMA OtherTypeInv ==
  ASSUME TypeInv,
         \/ \E r \in Requests : Request(r)
         \/ \E m \in Models : StatusBegin(m)
         \/ StatusEnd \/ Terminate
         \/ \E m \in Models : ShutdownModel(m)
         \/ Exit
  PROVE  TypeInv'
<1> USE DEF TypeInv, LocalsLoaded, envVars, syncVars, modelVars, reqVars
<1>1. ASSUME NEW r \in Requests, NEW m \in Models, NextEnclave(r, m) PROVE TypeInv'
  <2>0. expected' \in [Requests -> Measurements \cup {NoMeasurement}] BY <1>1 DEF NextEnclave, TypeOK
  <2>1. CASE pool[m] = {} BY <1>1, <2>0, <2>1 DEF NextEnclave, ReqStep, TypeOK
  <2>2. CASE pool[m] # {}
    <3>1. PICK e \in pool[m] : picked' = [picked EXCEPT ![r] = e]
      BY <1>1, <2>2 DEF NextEnclave
    <3>2. e \in Enclave BY DEF TypeOK
    <3> QED BY <1>1, <2>0, <2>2, <3>1, <3>2 DEF NextEnclave, ReqStep, TypeOK
  <2> QED BY <2>1, <2>2
<1>2. ASSUME NEW r \in Requests, Reject(r) PROVE TypeInv'
  BY <1>2 DEF Reject, ReqStep, TypeOK
<1>3. ASSUME NEW r \in Requests, Serve(r) PROVE TypeInv'
  <2>1. answered' \in [Requests -> Measurements \cup {NoMeasurement}]
    <3>1. CASE answered' = answered BY <3>1 DEF TypeOK
    <3>2. CASE answered' = [answered EXCEPT ![r] = host[picked[r].host].meas]
      <4>1. picked[r].host \in Hosts BY <1>3 DEF Serve, Enclave
      <4>2. host[picked[r].host].meas \in Measurements
        BY <4>1 DEF TypeOK, HostState
      <4> QED BY <3>2, <4>2 DEF TypeOK
    <3> QED BY <1>3, <3>1, <3>2 DEF Serve
  <2> QED BY <1>3, <2>1 DEF Serve, ReqStep, TypeOK
<1>4. ASSUME NEW m \in Models, StatusBegin(m) PROVE TypeInv'
  BY <1>4 DEF StatusBegin, TypeOK
<1>5. CASE StatusEnd BY <1>5 DEF StatusEnd, TypeOK
<1>6. CASE Terminate BY <1>6 DEF Terminate, TypeOK
<1>7. ASSUME NEW m \in Models, ShutdownModel(m) PROVE TypeInv'
  <2>1. {Stopped(e) : e \in pool[m]} \subseteq Enclave
    BY EnclaveUpdates, ConstantsAssumption DEF TypeOK
  <2> QED BY <1>7, <2>1 DEF ShutdownModel, TypeOK
<1>8. CASE Exit BY <1>8 DEF Exit, TypeOK
<1> QED BY <1>1, <1>2, <1>3, <1>4, <1>5, <1>6, <1>7, <1>8 DEF Request

LEMMA NextTypeInv == TypeInv /\ [Next]_vars => TypeInv'
<1> SUFFICES ASSUME TypeInv, [Next]_vars PROVE TypeInv' OBVIOUS
<1>1. CASE UNCHANGED vars
  BY <1>1 DEF vars, envVars, syncVars, modelVars, reqVars, TypeInv, TypeOK, LocalsLoaded
<1>2. ASSUME NEW m \in Models, SyncModel(m) PROVE TypeInv'
  BY <1>2, SyncTypeInv
<1> QED BY <1>1, <1>2, EnvTypeInv, WorkerTypeInv, OtherTypeInv DEF Next, System

\* Every variable keeps its type, and the locals of the goroutines and of the
\* requests hold what the next step of their code relies on.
THEOREM TypeCorrect == Spec => []TypeOK
<1>1. TypeInv => TypeOK BY DEF TypeInv
<1> QED BY <1>1, InitTypeInv, NextTypeInv, PTL DEF Spec

----------------------------------------------------------------------------
(* The safety invariants *)

Safe == PoolVerified /\ SettingsApplied /\ KeyBindsCode /\ ServedVerified

LEMMA InitSafe == Init => Safe
BY DEF Init, Safe, PoolVerified, SettingsApplied, KeyBindsCode, ServedVerified, Source

\* Most steps touch none of the variables the safety invariants speak of.
LEMMA QuietSafe ==
  ASSUME Safe, UNCHANGED <<host, tag, source, settings, pool, reqpc, picked, expected, answered>>
  PROVE  Safe'
BY DEF Safe, PoolVerified, SettingsApplied, KeyBindsCode, BootOf, ServedVerified, Source, EnclaveAt

LEMMA EnvSafe ==
  ASSUME TypeInv, Safe, Environment PROVE Safe'
<1> USE DEF EnvStep, syncVars, modelVars, reqVars
<1>1. CASE EditConfig BY <1>1, QuietSafe DEF EditConfig
<1>2. ASSUME NEW s \in Services, ToggleService(s) PROVE Safe'
  BY <1>2, QuietSafe DEF ToggleService
<1>3. ASSUME NEW m \in Models, NEW t \in Tags, PublishRelease(m, t) PROVE Safe'
  BY <1>3, QuietSafe DEF PublishRelease
<1>4. ASSUME UNCHANGED <<tag, source, settings, pool, reqpc, picked, expected, answered>>,
             \A e \in Enclave : BootOf(e) => BootOf(e)'
      PROVE  Safe'
  BY <1>4 DEF TypeInv, TypeOK, LocalsLoaded, Safe, PoolVerified, SettingsApplied,
              KeyBindsCode, ServedVerified, Source
<1>5. ASSUME NEW h \in Hosts, NEW st \in Statuses, ChangeStatus(h, st) PROVE Safe'
  <2>1. \A g \in Hosts : host'[g].boot = host[g].boot /\ host'[g].meas = host[g].meas
    BY <1>5 DEF ChangeStatus, TypeInv, TypeOK, HostState
  <2> QED BY <1>4, <1>5, <2>1 DEF ChangeStatus, BootOf, Enclave
<1>6. ASSUME NEW h \in Hosts, NEW meas \in Measurements, Reboot(h, meas) PROVE Safe'
  <2>1. \A e \in Enclave : BootOf(e) => BootOf(e)'
    <3>1. SUFFICES ASSUME NEW e \in Enclave, BootOf(e) PROVE BootOf(e)' OBVIOUS
    <3>2. e.host \in Hosts /\ e.boot \in Nat BY DEF Enclave
    <3>3. host[h].boot \in Nat /\ host[e.host].boot \in Nat
      BY <3>2 DEF TypeInv, TypeOK, HostState
    <3>4. CASE e.host = h
      <4>1. host'[h].boot = host[h].boot + 1 BY <1>6 DEF Reboot, TypeInv, TypeOK
      <4> QED BY <3>1, <3>2, <3>3, <3>4, <4>1 DEF BootOf
    <3>5. CASE e.host # h
      BY <1>6, <3>1, <3>2, <3>5 DEF Reboot, TypeInv, TypeOK, BootOf
    <3> QED BY <3>4, <3>5
  <2> QED BY <1>4, <1>6, <2>1 DEF Reboot
<1> QED BY <1>1, <1>2, <1>3, <1>5, <1>6, Environment DEF Environment

\* A goroutine that only updates the enclaves of its model, or drops some,
\* keeps the pool verified.
LEMMA UpdateSafe ==
  ASSUME TypeInv, Safe, NEW m \in Models, NEW p,
         pool' = [pool EXCEPT ![m] = p],
         UNCHANGED <<host, tag, source, reqVars>>,
         \A n \in Models \ {m} : settings'[n] = settings[n],
         \A f \in p : \E e \in pool[m] :
            /\ f.host = e.host /\ f.boot = e.boot /\ f.meas = e.meas
            /\ f.cfg = settings'[m] /\ f.poller \in {Poller(f.cfg), "stopped"},
         \A e, f \in p : e.host = f.host => e = f
  PROVE  Safe'
<1>1. \A n \in Models : pool'[n] = IF n = m THEN p ELSE pool[n] BY DEF TypeInv, TypeOK
<1>2. PoolVerified' BY <1>1 DEF Safe, PoolVerified, Source
<1>3. SettingsApplied' BY <1>1 DEF Safe, SettingsApplied
<1>4. KeyBindsCode'
  <2>1. \A f \in p : BootOf(f)' BY DEF Safe, KeyBindsCode, BootOf
  <2> QED BY <1>1, <2>1 DEF Safe, KeyBindsCode, BootOf, reqVars
<1>5. ServedVerified' BY DEF Safe, ServedVerified, reqVars
<1> QED BY <1>2, <1>3, <1>4, <1>5 DEF Safe

LEMMA SyncSafe ==
  ASSUME TypeInv, Safe, NEW m \in Models, SyncModel(m)
  PROVE  Safe'
<1> USE DEF GoUnchanged, envVars, reqVars, modelVars
<1>0. /\ pool[m] \subseteq Enclave /\ settings[m] \in Settings
      /\ \A e, f \in pool[m] : e.host = f.host => e = f
      /\ \A e \in pool[m] : e.cfg = settings[m] /\ e.poller \in {Poller(e.cfg), "stopped"}
  BY DEF TypeInv, TypeOK, Safe, PoolVerified, SettingsApplied
<1>1. CASE Delisted(m)
  <2> DEFINE p == {Stopped(e) : e \in pool[m]}
  <2>1. /\ pool' = [pool EXCEPT ![m] = p]
        /\ UNCHANGED <<host, tag, source, settings, reqpc, picked, expected, answered>>
    BY <1>1 DEF Delisted
  <2>2. \A f \in p : \E e \in pool[m] :
            /\ f = Stopped(e) /\ f.host = e.host /\ f.boot = e.boot /\ f.meas = e.meas
            /\ f.cfg = e.cfg /\ f.poller = "stopped"
    BY <1>0, EnclaveUpdates
  <2>3. \A f \in p : \E e \in pool[m] :
            /\ f.host = e.host /\ f.boot = e.boot /\ f.meas = e.meas
            /\ f.cfg = settings'[m] /\ f.poller \in {Poller(f.cfg), "stopped"}
    BY <1>0, <2>1, <2>2
  <2>4. \A e, f \in p : e.host = f.host => e = f BY <1>0, <2>2
  <2> HIDE DEF p
  <2> QED BY <2>1, <2>3, <2>4, UpdateSafe
<1>2. CASE RepoChanged(m) BY <1>2, QuietSafe DEF RepoChanged
<1>3. CASE FetchLatestTag(m) BY <1>3, QuietSafe DEF FetchLatestTag
<1>4. CASE FetchMeasurement(m) BY <1>4, QuietSafe DEF FetchMeasurement
<1>5. CASE InstallMeasurement(m)
  <2>1. latest[m] \in Tags /\ latest[m] # NoTag
    BY <1>5, ConstantsAssumption DEF InstallMeasurement, At, TypeInv, LocalsLoaded
  <2>2. \A n \in Models : n # m => tag'[n] = tag[n] /\ source'[n] = source[n] /\ pool'[n] = pool[n]
    BY <1>5 DEF InstallMeasurement, TypeInv, TypeOK
  <2>3. tag'[m] = latest[m] /\ source'[m] = MeasurementOf[latest[m]] /\ pool'[m] = {}
    BY <1>5 DEF InstallMeasurement, TypeInv, TypeOK
  <2>4. PoolVerified' BY <2>1, <2>2, <2>3 DEF Safe, PoolVerified, Source
  <2>5. SettingsApplied' BY <1>5, <2>2, <2>3 DEF InstallMeasurement, Safe, SettingsApplied
  <2>6. KeyBindsCode' BY <1>5, <2>2, <2>3 DEF InstallMeasurement, Safe, KeyBindsCode, BootOf
  <2>7. ServedVerified' BY <1>5 DEF InstallMeasurement, Safe, ServedVerified
  <2> QED BY <2>4, <2>5, <2>6, <2>7 DEF Safe
<1>6. CASE ApplyConfig(m)
  <2> DEFINE s == round.settings[m]
             kept == {e \in pool[m] : e.host \in round.hosts[m]}
             p == {Configured(e, s) : e \in kept}
  <2>1. s \in Settings
    BY <1>6 DEF ApplyConfig, At, TypeInv, TypeOK, LocalsLoaded, ConfigType
  <2>2. settings' = [settings EXCEPT ![m] = s] /\ pool' = [pool EXCEPT ![m] = p]
    BY <1>6 DEF ApplyConfig
  <2>3. settings'[m] = s /\ \A n \in Models \ {m} : settings'[n] = settings[n]
    BY <2>2 DEF TypeInv, TypeOK
  <2>4. \A f \in p : \E e \in pool[m] :
            /\ f = Configured(e, s) /\ f.host = e.host /\ f.boot = e.boot /\ f.meas = e.meas
            /\ f.cfg = settings'[m] /\ f.poller \in {Poller(f.cfg), "stopped"}
    BY <1>0, <2>1, <2>3, EnclaveUpdates
  <2>5. \A e, f \in p : e.host = f.host => e = f BY <1>0, <2>4
  <2>6. UNCHANGED <<host, tag, source, reqVars>> BY <1>6 DEF ApplyConfig
  <2>7. \A f \in p : \E e \in pool[m] :
            /\ f.host = e.host /\ f.boot = e.boot /\ f.meas = e.meas
            /\ f.cfg = settings'[m] /\ f.poller \in {Poller(f.cfg), "stopped"}
    BY <2>4
  <2>8. pool' = [pool EXCEPT ![m] = p] BY <2>2
  <2>9. \A n \in Models \ {m} : settings'[n] = settings[n] BY <2>3
  <2> HIDE DEF p, s
  <2> QED BY <2>5, <2>6, <2>7, <2>8, <2>9, UpdateSafe
<1>7. ASSUME NEW h \in Hosts, BeginAdd(m, h) PROVE Safe'
  BY <1>7, QuietSafe DEF BeginAdd
<1>8. CASE ProbeKey(m) BY <1>8, QuietSafe DEF ProbeKey
<1>9. CASE Attest(m)
  <2>1. PICK h \in current[m] :
          IF Attested(m, h)
          THEN pool' = [pool EXCEPT ![m] = (@ \ EnclaveAt(m, h)) \cup {NewEnclave(m, h)}]
          ELSE UNCHANGED pool
    BY <1>9 DEF Attest
  <2>2. CASE ~Attested(m, h) BY <1>9, <2>1, <2>2, QuietSafe DEF Attest
  <2>3. CASE Attested(m, h)
    <3>1. h \in Hosts BY DEF TypeInv, TypeOK
    <3>0. PICK new \in Enclave : new = NewEnclave(m, h)
      BY <3>1, NewEnclaveType DEF TypeInv
    <3>2. /\ new.host = h /\ new.boot = host[h].boot
          /\ new.meas = host[h].meas /\ new.cfg = settings[m]
          /\ new.poller = Poller(settings[m])
      BY <3>0, <3>1, NewEnclaveType DEF TypeInv
    <3>3. new.meas = source[m] /\ source[m] # NoMeasurement BY <2>3, <3>2 DEF Attested
    <3>4. UNCHANGED <<host, tag, source, settings, reqpc, picked, expected, answered>>
      BY <1>9 DEF Attest
    <3>5. \A n \in Models : n # m => pool'[n] = pool[n]
      BY <2>1, <2>3 DEF TypeInv, TypeOK
    <3>6. \A e \in pool'[m] : e = new \/ (e \in pool[m] /\ e.host # h)
      BY <2>1, <2>3, <3>0 DEF TypeInv, TypeOK, EnclaveAt
    <3>7. PoolVerified' BY <3>2, <3>3, <3>4, <3>5, <3>6 DEF Safe, PoolVerified, Source
    <3>8. SettingsApplied' BY <3>2, <3>4, <3>5, <3>6 DEF Safe, SettingsApplied
    <3>9. host[h].boot \in Nat BY <3>1 DEF TypeInv, TypeOK, HostState
    <3>10. KeyBindsCode'
      <4>1. BootOf(new)' BY <3>2, <3>4, <3>9 DEF BootOf
      <4>2. \A n \in Models : \A e \in pool'[n] : BootOf(e)'
        BY <3>4, <3>5, <3>6, <4>1 DEF Safe, KeyBindsCode, BootOf
      <4> QED BY <3>4, <4>2 DEF Safe, KeyBindsCode, BootOf
    <3>11. ServedVerified' BY <3>4 DEF Safe, ServedVerified
    <3> QED BY <3>7, <3>8, <3>10, <3>11 DEF Safe
  <2> QED BY <2>2, <2>3
<1>10. CASE EndModel(m) BY <1>10, QuietSafe DEF EndModel
<1> QED BY <1>1, <1>2, <1>3, <1>4, <1>5, <1>6, <1>7, <1>8, <1>9, <1>10, SyncModel(m) DEF SyncModel

LEMMA RequestSafe ==
  ASSUME TypeInv, Safe, NEW r \in Requests, Request(r)
  PROVE  Safe'
<1> USE DEF ReqStep, envVars, syncVars, modelVars
<1>0. ASSUME UNCHANGED <<host, tag, source, settings, pool>>
      PROVE  /\ PoolVerified' /\ SettingsApplied'
             /\ \A m \in Models : \A e \in pool'[m] : BootOf(e)'
             /\ \A e : BootOf(e)' <=> BootOf(e)
  BY <1>0 DEF Safe, PoolVerified, SettingsApplied, KeyBindsCode, BootOf, Source
<1>1. ASSUME NEW m \in Models, NextEnclave(r, m) PROVE Safe'
  <2>1. UNCHANGED <<host, tag, source, settings, pool>> /\ answered' = answered
    BY <1>1 DEF NextEnclave
  <2>2. expected'[r] = source[m] /\ \A q \in Requests : q # r => expected'[q] = expected[q]
    BY <1>1 DEF NextEnclave, TypeInv, TypeOK
  <2>3. \A q \in Requests : q # r => reqpc'[q] = reqpc[q] /\ picked'[q] = picked[q]
    BY <1>1 DEF NextEnclave, TypeInv, TypeOK
  <2>4. reqpc'[r] \in {"unavailable", "picked"}
    BY <1>1 DEF NextEnclave, TypeInv, TypeOK
  <2>5. reqpc'[r] = "picked" => picked'[r] \in pool[m]
    BY <1>1 DEF NextEnclave, TypeInv, TypeOK
  <2>6. KeyBindsCode'
    BY <1>0, <2>1, <2>2, <2>3, <2>5 DEF KeyBindsCode, Safe, PoolVerified
  <2>7. ServedVerified' BY <2>1, <2>2, <2>3, <2>4 DEF ServedVerified, Safe
  <2> QED BY <1>0, <2>1, <2>6, <2>7 DEF Safe
<1>2. CASE Reject(r)
  <2>1. /\ UNCHANGED <<host, tag, source, settings, pool, picked, expected, answered>>
        /\ reqpc'[r] = "rejected" /\ \A q \in Requests : q # r => reqpc'[q] = reqpc[q]
    BY <1>2 DEF Reject, TypeInv, TypeOK
  <2> QED BY <1>0, <2>1 DEF Safe, KeyBindsCode, ServedVerified
<1>3. CASE Serve(r)
  <2> DEFINE h == host[picked[r].host]
  <2>1. /\ UNCHANGED <<host, tag, source, settings, pool, picked, expected>>
        /\ reqpc'[r] \in {"served", "failed"}
        /\ \A q \in Requests : q # r => reqpc'[q] = reqpc[q] /\ answered'[q] = answered[q]
    BY <1>3 DEF Serve, TypeInv, TypeOK
  <2>2. reqpc'[r] = "served" => answered'[r] = h.meas /\ h.boot = picked[r].boot
    BY <1>3 DEF Serve, TypeInv, TypeOK
  <2>3. reqpc[r] = "picked" /\ picked[r] \in Enclave
    BY <1>3 DEF Serve, TypeInv, LocalsLoaded
  <2>4. reqpc'[r] = "served" => answered'[r] = expected[r]
    BY <2>2, <2>3 DEF Safe, KeyBindsCode, BootOf
  <2>5. picked[r].host \in Hosts BY <2>3 DEF Enclave
  <2>6. h.meas # NoMeasurement
    BY <2>5, ConstantsAssumption DEF TypeInv, TypeOK, HostState
  <2>7. ServedVerified' BY <2>1, <2>2, <2>4, <2>6 DEF Safe, ServedVerified
  <2>8. KeyBindsCode' BY <1>0, <2>1 DEF Safe, KeyBindsCode
  <2> QED BY <1>0, <2>1, <2>7, <2>8 DEF Safe
<1> QED BY <1>1, <1>2, <1>3, Request(r) DEF Request

LEMMA NextSafe == TypeInv /\ Safe /\ [Next]_vars => Safe'
<1> SUFFICES ASSUME TypeInv, Safe, [Next]_vars PROVE Safe' OBVIOUS
<1> USE DEF envVars, syncVars, modelVars, reqVars
<1>1. CASE UNCHANGED vars BY <1>1, QuietSafe DEF vars
<1>2. CASE StartRound \/ LoadConfig \/ FetchHardware \/ EndRound
  BY <1>2, QuietSafe DEF StartRound, LoadConfig, FetchHardware, EndRound
<1>3. ASSUME NEW m \in Models, SyncModel(m) PROVE Safe' BY <1>3, SyncSafe
<1>4. ASSUME NEW m \in Models, StatusBegin(m) PROVE Safe'
  BY <1>4, QuietSafe DEF StatusBegin
<1>5. CASE StatusEnd \/ Terminate \/ Exit
  BY <1>5, QuietSafe DEF StatusEnd, Terminate, Exit
<1>6. ASSUME NEW m \in Models, ShutdownModel(m) PROVE Safe'
  <2>0. /\ pool[m] \subseteq Enclave /\ settings[m] \in Settings
        /\ \A e, f \in pool[m] : e.host = f.host => e = f
        /\ \A e \in pool[m] : e.cfg = settings[m]
    BY DEF TypeInv, TypeOK, Safe, PoolVerified, SettingsApplied
  <2> DEFINE p == {Stopped(e) : e \in pool[m]}
  <2>1. \A f \in p : \E e \in pool[m] :
          /\ f = Stopped(e) /\ f.host = e.host /\ f.boot = e.boot /\ f.meas = e.meas
          /\ f.cfg = settings[m] /\ f.poller \in {Poller(f.cfg), "stopped"}
    BY <2>0, EnclaveUpdates
  <2>2. \A e, f \in p : e.host = f.host => e = f BY <2>0, <2>1
  <2>3. \A f \in p : \E e \in pool[m] :
          /\ f.host = e.host /\ f.boot = e.boot /\ f.meas = e.meas
          /\ f.cfg = settings'[m] /\ f.poller \in {Poller(f.cfg), "stopped"}
    BY <1>6, <2>1 DEF ShutdownModel
  <2>4. /\ pool' = [pool EXCEPT ![m] = p] /\ UNCHANGED <<host, tag, source, reqVars>>
        /\ \A n \in Models \ {m} : settings'[n] = settings[n]
    BY <1>6 DEF ShutdownModel
  <2> HIDE DEF p
  <2> QED BY <2>2, <2>3, <2>4, UpdateSafe
<1> QED BY <1>1, <1>2, <1>3, <1>4, <1>5, <1>6, EnvSafe, RequestSafe DEF Next, System

LEMMA Invariance == Spec => [](TypeInv /\ Safe)
BY InitTypeInv, InitSafe, NextTypeInv, NextSafe, PTL DEF Spec

\* A pool never holds an enclave whose attested code is not that of the release
\* its model is at, whatever the hosts, releases and configs do.
THEOREM PoolAlwaysVerified == Spec => []PoolVerified
<1>1. TypeInv /\ Safe => PoolVerified BY DEF Safe
<1> QED BY <1>1, Invariance, PTL

\* The settings of a model reach every enclave of its pool.
THEOREM SettingsAlwaysApplied == Spec => []SettingsApplied
<1>1. TypeInv /\ Safe => SettingsApplied BY DEF Safe
<1> QED BY <1>1, Invariance, PTL

\* Clients are answered by the code that was verified when their enclave was
\* chosen.
THEOREM AnswersAlwaysVerified == Spec => []ServedVerified
<1>1. TypeInv /\ Safe => ServedVerified BY DEF Safe
<1> QED BY <1>1, Invariance, PTL

----------------------------------------------------------------------------
(* The accounting of a round *)

LEMMA InitAccounting == Init => Accounting
BY DEF Init, Accounting

LEMMA QuietAccounting ==
  ASSUME Accounting, UNCHANGED <<worker, round, errors, syncpc, todo, current>>,
         \A m \in Models : {e.host : e \in pool'[m]} = {e.host : e \in pool[m]}
  PROVE  Accounting'
<1> SUFFICES ASSUME NEW m \in Models
             PROVE  /\ syncpc[m] \notin {"probe", "attest"} => current[m] = {}
                    /\ syncpc[m] \in {"probe", "attest"} => \E h \in Hosts : current[m] = {h}
                    /\ syncpc[m] \notin {"add", "probe", "attest"} => todo[m] = {}
                    /\ (syncpc[m] \in {"add", "probe", "attest"} \/
                        (worker = "models" /\ syncpc[m] = "done" /\ m \in round.listed /\ m \in round.sameRepo)) =>
                         /\ todo[m] \cup current[m] \subseteq round.hosts[m]
                         /\ \A e \in pool'[m] : e.host \in round.hosts[m]
                         /\ \A h \in round.hosts[m] \ (todo[m] \cup current[m]) :
                              EnclaveAt(m, h)' # {} \/ <<m, h>> \in errors
  BY DEF Accounting
<1>1. \A e \in pool'[m] : \E f \in pool[m] : f.host = e.host OBVIOUS
<1>2. \A f \in pool[m] : \E e \in pool'[m] : e.host = f.host OBVIOUS
<1>3. \A h : EnclaveAt(m, h) # {} => EnclaveAt(m, h)' # {} BY <1>2 DEF EnclaveAt
<1> QED BY <1>1, <1>3 DEF Accounting

LEMMA WorkerAccounting ==
  ASSUME TypeInv, Accounting, StartRound \/ LoadConfig \/ FetchHardware \/ EndRound
  PROVE  Accounting'
<1> USE DEF modelVars, EnclaveAt
<1>1. CASE StartRound BY <1>1 DEF StartRound, Accounting, TypeInv, LocalsLoaded
<1>2. CASE LoadConfig BY <1>2 DEF LoadConfig, Accounting, TypeInv, LocalsLoaded
<1>3. CASE FetchHardware BY <1>3 DEF FetchHardware, Accounting, TypeInv, LocalsLoaded
<1>4. CASE EndRound BY <1>4 DEF EndRound, Accounting, TypeInv, LocalsLoaded
<1> QED BY <1>1, <1>2, <1>3, <1>4

\* A step of the goroutine of m leaves the accounts of the other models alone.
LEMMA OthersAccounting ==
  ASSUME TypeInv, Accounting, NEW m \in Models, SyncModel(m), NEW n \in Models, n # m
  PROVE  /\ syncpc'[n] = syncpc[n] /\ todo'[n] = todo[n] /\ current'[n] = current[n]
         /\ pool'[n] = pool[n] /\ errors \subseteq errors'
         /\ worker' = worker /\ round' = round
<1> USE DEF TypeInv, TypeOK, Goto, GoUnchanged, modelVars
<1>1. CASE Delisted(m) BY <1>1 DEF Delisted
<1>2. CASE RepoChanged(m) BY <1>2 DEF RepoChanged
<1>3. CASE FetchLatestTag(m) BY <1>3 DEF FetchLatestTag
<1>4. CASE FetchMeasurement(m) BY <1>4 DEF FetchMeasurement
<1>5. CASE InstallMeasurement(m) BY <1>5 DEF InstallMeasurement
<1>6. CASE ApplyConfig(m) BY <1>6 DEF ApplyConfig
<1>7. ASSUME NEW h \in Hosts, BeginAdd(m, h)
      PROVE  /\ syncpc'[n] = syncpc[n] /\ todo'[n] = todo[n] /\ current'[n] = current[n]
             /\ pool'[n] = pool[n] /\ errors \subseteq errors'
             /\ worker' = worker /\ round' = round
  BY <1>7 DEF BeginAdd
<1>8. CASE ProbeKey(m) BY <1>8 DEF ProbeKey
<1>9. CASE Attest(m) BY <1>9 DEF Attest
<1>10. CASE EndModel(m) BY <1>10 DEF EndModel
<1> QED BY <1>1, <1>2, <1>3, <1>4, <1>5, <1>6, <1>7, <1>8, <1>9, <1>10, SyncModel(m) DEF SyncModel

\* The account of one model, the body of Accounting.
Account(m) ==
  /\ syncpc[m] \notin {"probe", "attest"} => current[m] = {}
  /\ syncpc[m] \in {"probe", "attest"} => \E h \in Hosts : current[m] = {h}
  /\ syncpc[m] \notin {"add", "probe", "attest"} => todo[m] = {}
  /\ (syncpc[m] \in {"add", "probe", "attest"} \/
      (worker = "models" /\ syncpc[m] = "done" /\ m \in round.listed /\ m \in round.sameRepo)) =>
       /\ todo[m] \cup current[m] \subseteq round.hosts[m]
       /\ \A e \in pool[m] : e.host \in round.hosts[m]
       /\ \A h \in round.hosts[m] \ (todo[m] \cup current[m]) :
            EnclaveAt(m, h) # {} \/ <<m, h>> \in errors

LEMMA SyncAccounting ==
  ASSUME TypeInv, Accounting, NEW m \in Models, SyncModel(m)
  PROVE  Accounting'
<1>1. ASSUME NEW n \in Models, n # m PROVE Account(n)'
  BY <1>1, OthersAccounting DEF Accounting, Account, EnclaveAt
<1>2. Account(m)'
  <2> USE DEF TypeInv, TypeOK, LocalsLoaded, At, Goto, GoUnchanged, modelVars, SyncPC
  <2>0. Account(m) BY DEF Accounting, Account
  <2>1. CASE Delisted(m)
    <3>1. /\ UNCHANGED <<todo, current, errors, round, worker>> /\ m \notin round.listed
          /\ syncpc[m] = "start" /\ syncpc'[m] = "done"
      BY <2>1 DEF Delisted
    <3> QED BY <2>0, <3>1 DEF Account
  <2>2. CASE RepoChanged(m) BY <2>0, <2>2 DEF RepoChanged, Account
  <2>3. CASE FetchLatestTag(m) BY <2>0, <2>3 DEF FetchLatestTag, Account
  <2>4. CASE FetchMeasurement(m) BY <2>0, <2>4 DEF FetchMeasurement, Account
  <2>5. CASE InstallMeasurement(m) BY <2>0, <2>5 DEF InstallMeasurement, Account
  <2>6. CASE ApplyConfig(m)
    <3>1. round \in ConfigType /\ round' = round BY <2>6 DEF ApplyConfig
    <3>2. round.settings[m] \in Settings /\ round.hosts[m] \subseteq Hosts
      BY <3>1 DEF ConfigType
    <3>3. syncpc'[m] = "add" /\ todo'[m] = round.hosts[m] /\ current'[m] = {}
      BY <2>0, <2>6 DEF ApplyConfig, Account
    <3>4. \A e \in pool'[m] : e.host \in round.hosts[m]
      <4> DEFINE kept == {e \in pool[m] : e.host \in round.hosts[m]}
      <4>1. pool'[m] = {Configured(e, round.settings[m]) : e \in kept} BY <2>6 DEF ApplyConfig
      <4>2. \A e \in kept : Configured(e, round.settings[m]).host \in round.hosts[m]
        BY <3>2, EnclaveUpdates
      <4> HIDE DEF kept
      <4> QED BY <4>1, <4>2
    <3> QED BY <3>1, <3>3, <3>4 DEF Account
  <2>7. ASSUME NEW h \in Hosts, BeginAdd(m, h) PROVE Account(m)'
    <3>1. /\ todo'[m] = todo[m] \ {h} /\ current'[m] = {h} /\ pool' = pool /\ h \in todo[m]
          /\ syncpc[m] = "add" /\ syncpc'[m] \in {"probe", "attest"}
          /\ round' = round /\ errors' = errors
      BY <2>7 DEF BeginAdd
    <3> QED BY <2>0, <3>1 DEF Account, EnclaveAt
  <2>8. CASE ProbeKey(m)
    <3>1. PICK h \in current[m], e \in pool[m] :
            /\ e.host = h
            /\ IF host[h].status \in {"up", "unverified"} /\ host[h].boot = e.boot
               THEN Goto(m, "add") /\ current' = [current EXCEPT ![m] = {}]
               ELSE Goto(m, "attest") /\ current' = current
      BY <2>8 DEF ProbeKey
    <3>2. current[m] = {h} BY <2>0, <2>8, <3>1 DEF ProbeKey, Account
    <3>3. EnclaveAt(m, h) # {} BY <3>1 DEF EnclaveAt
    <3>4. UNCHANGED <<pool, todo, errors, round>> /\ syncpc[m] = "probe" BY <2>8 DEF ProbeKey
    <3>5. \/ syncpc'[m] = "add" /\ current'[m] = {}
          \/ syncpc'[m] = "attest" /\ current'[m] = {h}
      BY <3>1, <3>2
    <3> QED BY <2>0, <3>2, <3>3, <3>4, <3>5 DEF Account, EnclaveAt
  <2>9. CASE Attest(m)
    <3>1. PICK h \in current[m] :
            IF Attested(m, h)
            THEN /\ pool' = [pool EXCEPT ![m] = (@ \ EnclaveAt(m, h)) \cup {NewEnclave(m, h)}]
                 /\ errors' = errors
            ELSE /\ errors' = errors \cup {<<m, h>>}
                 /\ UNCHANGED pool
      BY <2>9 DEF Attest
    <3>2. current[m] = {h} /\ h \in Hosts BY <2>0, <2>9, <3>1 DEF Attest, Account
    <3>3. NewEnclave(m, h).host = h BY <3>2, NewEnclaveType
    <3>4. /\ UNCHANGED <<todo, round>> /\ syncpc[m] = "attest"
          /\ syncpc'[m] = "add" /\ current'[m] = {}
      BY <2>9 DEF Attest
    <3>5. CASE Attested(m, h)
      <4>1. pool'[m] = (pool[m] \ EnclaveAt(m, h)) \cup {NewEnclave(m, h)}
        BY <3>1, <3>5
      <4>2. \A g \in round.hosts[m] : g # h => EnclaveAt(m, g) \subseteq EnclaveAt(m, g)'
        BY <4>1 DEF EnclaveAt
      <4>3. EnclaveAt(m, h)' # {} BY <3>3, <4>1 DEF EnclaveAt
      <4>4. \A e \in pool'[m] : e.host \in round.hosts[m]
        BY <2>0, <3>2, <3>3, <3>4, <4>1 DEF Account
      <4>5. errors' = errors BY <3>1, <3>5
      <4> QED BY <2>0, <3>2, <3>4, <4>2, <4>3, <4>4, <4>5 DEF Account
    <3>6. CASE ~Attested(m, h)
      BY <2>0, <3>1, <3>2, <3>4, <3>6 DEF Account, EnclaveAt
    <3> QED BY <3>5, <3>6
  <2>10. CASE EndModel(m)
    <3>1. /\ UNCHANGED <<pool, todo, current, errors, round, worker>> /\ todo[m] = {}
          /\ syncpc[m] = "add" /\ syncpc'[m] = "done"
      BY <2>10 DEF EndModel
    <3> QED BY <2>0, <3>1 DEF Account, EnclaveAt
  <2> QED BY <2>1, <2>2, <2>3, <2>4, <2>5, <2>6, <2>7, <2>8, <2>9, <2>10, SyncModel(m) DEF SyncModel
<1> QED BY <1>1, <1>2 DEF Accounting, Account

LEMMA NextAccounting == TypeInv /\ Accounting /\ [Next]_vars => Accounting'
<1> SUFFICES ASSUME TypeInv, Accounting, [Next]_vars PROVE Accounting' OBVIOUS
<1> USE DEF envVars, syncVars, modelVars, reqVars
<1>1. ASSUME UNCHANGED <<worker, round, errors, syncpc, todo, current, pool>> PROVE Accounting'
  BY <1>1, QuietAccounting
<1>2. CASE UNCHANGED vars BY <1>1, <1>2 DEF vars
<1>3. CASE Environment
  BY <1>1, <1>3 DEF Environment, EnvStep, EditConfig, ToggleService, PublishRelease, ChangeStatus, Reboot
<1>4. ASSUME NEW m \in Models, SyncModel(m) PROVE Accounting' BY <1>4, SyncAccounting
<1>5. ASSUME NEW r \in Requests, Request(r) PROVE Accounting'
  BY <1>1, <1>5 DEF Request, NextEnclave, Reject, Serve, ReqStep
<1>6. ASSUME NEW m \in Models, StatusBegin(m) PROVE Accounting' BY <1>1, <1>6 DEF StatusBegin
<1>7. CASE StatusEnd \/ Terminate \/ Exit BY <1>1, <1>7 DEF StatusEnd, Terminate, Exit
<1>8. ASSUME NEW m \in Models, ShutdownModel(m) PROVE Accounting'
  <2>1. \A n \in Models : {e.host : e \in pool'[n]} = {e.host : e \in pool[n]}
    <3>1. \A n \in Models : n # m => pool'[n] = pool[n] BY <1>8 DEF ShutdownModel, TypeInv, TypeOK
    <3>2. pool'[m] = {Stopped(e) : e \in pool[m]} /\ pool[m] \subseteq Enclave
      BY <1>8 DEF ShutdownModel, TypeInv, TypeOK
    <3>3. \A e \in pool[m] : Stopped(e).host = e.host BY <3>2 DEF Stopped, Enclave
    <3> QED BY <3>1, <3>2, <3>3
  <2> QED BY <1>8, <2>1, QuietAccounting DEF ShutdownModel
<1> QED BY <1>2, <1>3, <1>4, <1>5, <1>6, <1>7, <1>8, WorkerAccounting DEF Next, System

\* At the end of a round every host of the config is in the pool of its model or
\* has its error on the status page, and the pool has no other host.
THEOREM RoundsAlwaysAccounted == Spec => []RoundAccounted
<1>1. Accounting /\ TypeInv => RoundAccounted
  <2> SUFFICES ASSUME Accounting, TypeInv, NEW m \in round.listed,
                      worker = "models", syncpc[m] = "done", m \in round.sameRepo
               PROVE  /\ \A e \in pool[m] : e.host \in round.hosts[m]
                      /\ \A h \in round.hosts[m] : EnclaveAt(m, h) # {} \/ <<m, h>> \in errors
    BY DEF RoundAccounted
  <2>1. m \in Models BY DEF TypeInv, LocalsLoaded, ConfigType
  <2> QED BY <2>1 DEF Accounting
<1> QED BY <1>1, InitTypeInv, InitAccounting, NextTypeInv, NextAccounting, PTL DEF Spec

\* The strengthened invariant as a whole is an invariant of the specification.
THEOREM InductiveInvariant == Spec => []IInv
<1>1. TypeInv /\ Safe /\ Accounting => IInv BY DEF IInv, TypeInv, Safe
<1> QED BY <1>1, InitTypeInv, InitSafe, InitAccounting, NextTypeInv, NextSafe, NextAccounting, PTL DEF Spec

----------------------------------------------------------------------------
(* The models that a round leaves alone *)

\* The conclusion of FrozenUnlessListed for one model.
Keeps(m) ==
  /\ tag'[m] = tag[m] /\ source'[m] = source[m] /\ settings'[m] = settings[m]
  /\ {<<e.host, e.boot>> : e \in pool'[m]} = {<<e.host, e.boot>> : e \in pool[m]}

LEMMA StoppingKeeps ==
  ASSUME TypeInv, NEW m \in Models, NEW n \in Models,
         pool' = [pool EXCEPT ![n] = {Stopped(e) : e \in @}],
         UNCHANGED <<tag, source, settings>>
  PROVE  Keeps(m)
<1>1. pool[m] \subseteq Enclave /\ pool'[m] \in {pool[m], {Stopped(e) : e \in pool[m]}}
  BY DEF TypeInv, TypeOK
<1>2. \A e \in pool[m] : Stopped(e).host = e.host /\ Stopped(e).boot = e.boot
  BY <1>1 DEF Stopped, Enclave
<1> QED BY <1>1, <1>2 DEF Keeps

\* The goroutine of a model works on that model.
LEMMA OthersKept ==
  ASSUME TypeInv, NEW n \in Models, SyncModel(n), NEW m \in Models, m # n
  PROVE  Keeps(m)
<1> USE DEF TypeInv, TypeOK, GoUnchanged, modelVars, Keeps
<1>1. CASE Delisted(n) BY <1>1 DEF Delisted
<1>2. CASE RepoChanged(n) BY <1>2 DEF RepoChanged
<1>3. CASE FetchLatestTag(n) BY <1>3 DEF FetchLatestTag
<1>4. CASE FetchMeasurement(n) BY <1>4 DEF FetchMeasurement
<1>5. CASE InstallMeasurement(n) BY <1>5 DEF InstallMeasurement
<1>6. CASE ApplyConfig(n) BY <1>6 DEF ApplyConfig
<1>7. ASSUME NEW h \in Hosts, BeginAdd(n, h) PROVE Keeps(m) BY <1>7 DEF BeginAdd
<1>8. CASE ProbeKey(n) BY <1>8 DEF ProbeKey
<1>9. CASE Attest(n) BY <1>9 DEF Attest
<1>10. CASE EndModel(n) BY <1>10 DEF EndModel
<1> QED BY <1>1, <1>2, <1>3, <1>4, <1>5, <1>6, <1>7, <1>8, <1>9, <1>10 DEF SyncModel

LEMMA FrozenStep ==
  ASSUME TypeInv, [Next]_vars, NEW m \in Models,
         worker = "models", m \notin round.listed \/ m \in round.listed \ round.sameRepo
  PROVE  Keeps(m)
<1> USE DEF envVars, syncVars, modelVars, reqVars
<1>1. ASSUME UNCHANGED modelVars PROVE Keeps(m) BY <1>1 DEF Keeps
<1>2. syncpc[m] \in {"done", "start"} BY DEF TypeInv, LocalsLoaded
<1>3. CASE SyncModel(m)
  <2>1. Delisted(m) \/ RepoChanged(m)
    BY <1>2, <1>3
    DEF SyncModel, FetchLatestTag, FetchMeasurement, InstallMeasurement, ApplyConfig, BeginAdd,
        ProbeKey, Attest, EndModel, At
  <2>2. CASE Delisted(m) BY <2>2, StoppingKeeps DEF Delisted
  <2>3. CASE RepoChanged(m) BY <1>1, <2>3 DEF RepoChanged
  <2> QED BY <2>1, <2>2, <2>3
<1>4. ASSUME NEW n \in Models, SyncModel(n), n # m PROVE Keeps(m) BY <1>4, OthersKept
<1>5. CASE UNCHANGED vars BY <1>1, <1>5 DEF vars
<1>6. CASE Environment
  BY <1>1, <1>6 DEF Environment, EnvStep, EditConfig, ToggleService, PublishRelease, ChangeStatus, Reboot
<1>7. CASE StartRound \/ LoadConfig \/ FetchHardware \/ EndRound
  BY <1>1, <1>7 DEF StartRound, LoadConfig, FetchHardware, EndRound
<1>8. ASSUME NEW r \in Requests, Request(r) PROVE Keeps(m)
  BY <1>1, <1>8 DEF Request, NextEnclave, Reject, Serve, ReqStep
<1>9. ASSUME NEW n \in Models, StatusBegin(n) PROVE Keeps(m) BY <1>1, <1>9 DEF StatusBegin
<1>10. CASE StatusEnd \/ Terminate \/ Exit BY <1>1, <1>10 DEF StatusEnd, Terminate, Exit
<1>11. ASSUME NEW n \in Models, ShutdownModel(n) PROVE Keeps(m)
  BY <1>11, StoppingKeeps DEF ShutdownModel
<1> QED BY <1>3, <1>4, <1>5, <1>6, <1>7, <1>8, <1>9, <1>10, <1>11 DEF Next, System

\* A model that the config of the round does not list, or lists with another
\* repository, keeps its release, its settings and its enclaves for the whole
\* round, whatever the other goroutines, the requests and a shutdown do.
THEOREM UnlistedStaysFrozen == Spec => FrozenUnlessListed
<1>1. ASSUME TypeInv, [Next]_vars
      PROVE  [\A m \in Models :
               (worker = "models" /\ m \notin round.listed) \/
               (worker = "models" /\ m \in round.listed \ round.sameRepo)
               => /\ tag'[m] = tag[m] /\ source'[m] = source[m] /\ settings'[m] = settings[m]
                  /\ {<<e.host, e.boot>> : e \in pool'[m]} = {<<e.host, e.boot>> : e \in pool[m]}]_vars
  BY <1>1, FrozenStep DEF Keeps
<1> QED BY <1>1, InitTypeInv, NextTypeInv, PTL DEF Spec, FrozenUnlessListed

=============================================================================
