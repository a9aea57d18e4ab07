----------------------- MODULE OverloadMetricsProofs -----------------------
(***************************************************************************)
(* Proofs about OverloadMetrics, for any number of objects, requests,      *)
(* queue depths and configurations: a client is turned away for a queue    *)
(* that the backend really had, a configuration that is taken away leaves  *)
(* nothing behind, and an enclave that has been shut down is silent.       *)
(***************************************************************************)
EXTENDS OverloadMetrics, TLAPS

\* The history of the queue grows older by one interval, up to the oldest age.
LEMMA OlderType == \A a \in Ages : Older(a) \in Ages /\ a <= Older(a) /\ Older(a) <= a + 1
BY DEF Ages, Older, StalenessLimit

LEMMA NoSampleType ==
  NoSample \in [taken : BOOLEAN, waiting : Depths \cup {0}, age : Ages]
BY DEF NoSample, Ages, StalenessLimit

\* The fields of the samples and of the configurations.
LEMMA FieldTypes ==
  ASSUME TypeOK
  PROVE  /\ \A o \in Objects : sample[o].waiting \in Nat /\ sample[o].age \in Ages
         /\ \A c \in AnyConfig : c # NoConfig => c.max \in Int /\ c.minutes \in Int
         /\ \A d \in Depths : lastSeen[d] \in Int
<1>1. ASSUME NEW o \in Objects PROVE sample[o].waiting \in Nat /\ sample[o].age \in Ages
  <2>1. sample[o] \in [taken : BOOLEAN, waiting : Depths \cup {0}, age : Ages]
    BY DEF TypeOK
  <2>2. QED
    BY <2>1, ConstantsAssumption
<1>2. \A c \in AnyConfig : c # NoConfig => c.max \in Int /\ c.minutes \in Int
  BY ConstantsAssumption DEF AnyConfig
<1>3. ASSUME NEW d \in Depths PROVE lastSeen[d] \in Int
  <2>1. lastSeen[d] \in Ages
    BY DEF TypeOK
  <2>2. QED
    BY <2>1 DEF Ages
<1>4. QED
  BY <1>1, <1>2, <1>3

LEMMA InitInvariant == Init => IInv
<1> SUFFICES ASSUME Init PROVE IInv
  OBVIOUS
<1> USE ConstantsAssumption DEF Init
<1>1. TypeOK
  BY DEF TypeOK, AnyConfig, NoSample, NoVerdict, Ages, StalenessLimit
<1>2. OneOperation /\ CleanUntilConfigured /\ GaugeAgrees /\ PollsInPool
  BY DEF OneOperation, CleanUntilConfigured, GaugeAgrees, PollsInPool
<1>3. SamplesSeen /\ Deciding /\ RejectionJustified
  BY DEF SamplesSeen, Deciding, RejectionJustified, NoSample
<1>4. QED
  BY <1>1, <1>2, <1>3 DEF IInv

\* The registry's operations: a new object is clean, and the poller of the object
\* has returned before its configuration is taken away.
LEMMA RegistrySteps ==
  ASSUME IInv,
         (\E o \in Objects : Admit(o)) \/ (\E s \in AnyConfig : Configure(s)) \/ Drop \/ Delist \/ FinishSet \/ FinishStop
  PROVE  IInv'
<1> USE ConstantsAssumption DEF objVars, polVars, gauges, reqVars, envVars, regVars
<1>0. /\ TypeOK /\ OneOperation /\ CleanUntilConfigured /\ GaugeAgrees /\ PollsInPool
      /\ SamplesSeen /\ Deciding /\ RejectionJustified
  BY DEF IInv
<1>1. CASE \E o \in Objects : Admit(o)
  <2>1. TypeOK'
    BY <1>0, <1>1 DEF Admit, RegistryStep, Cancel, TypeOK
  <2>2. OneOperation'
    BY <1>0, <1>1 DEF Admit, RegistryStep, Cancel, OneOperation, Idle
  <2>3. CleanUntilConfigured'
    BY <1>0, <1>1 DEF Admit, RegistryStep, CleanUntilConfigured
  <2>4. GaugeAgrees'
    BY <1>0, <1>1 DEF Admit, RegistryStep, CleanUntilConfigured, GaugeAgrees
  <2>5. PollsInPool'
    BY <1>1 DEF Admit, PollsInPool
  <2>6. SamplesSeen'
    BY <1>0, <1>1 DEF Admit, RegistryStep, SamplesSeen
  <2>7. Deciding' /\ RejectionJustified'
    BY <1>0, <1>1 DEF Admit, RegistryStep, Deciding, RejectionJustified
  <2>8. QED
    BY <2>1, <2>2, <2>3, <2>4, <2>5, <2>6, <2>7 DEF IInv
<1>2. CASE \E s \in AnyConfig : Configure(s)
  <2>1. TypeOK'
    <3>1. PICK s \in AnyConfig : Configure(s)
      BY <1>2
    <3>2. /\ op' \in [kind : {"set", "drop", "stop"}, obj : Objects] \cup {Idle}
          /\ cancelled' \in [Objects -> BOOLEAN]
      <4>1. CASE current = NoObject
        BY <1>0, <3>1, <4>1 DEF Configure, TypeOK
      <4>2. CASE current # NoObject
        <5>1. current \in Objects
          BY <1>0, <4>2 DEF TypeOK
        <5>2. op' = [kind |-> "set", obj |-> current] /\ Cancel(current)
          BY <3>1, <4>2 DEF Configure
        <5>3. QED
          BY <1>0, <5>1, <5>2 DEF Cancel, TypeOK
      <4>3. QED
        BY <4>1, <4>2
    <3>3. QED
      BY <1>0, <3>1, <3>2 DEF Configure, RegistryStep, TypeOK
  <2>2. OneOperation'
    BY <1>0, <1>2 DEF Configure, Cancel, TypeOK, OneOperation, Idle
  <2>3. CleanUntilConfigured'
    BY <1>0, <1>2 DEF Configure, RegistryStep, CleanUntilConfigured
  <2>4. GaugeAgrees'
    BY <1>0, <1>2 DEF Configure, RegistryStep, Cancel, TypeOK, OneOperation, CleanUntilConfigured, GaugeAgrees, Idle
  <2>5. PollsInPool'
    BY <1>0, <1>2 DEF Configure, RegistryStep, Cancel, TypeOK, OneOperation, CleanUntilConfigured, PollsInPool, Idle
  <2>6. SamplesSeen'
    BY <1>0, <1>2 DEF Configure, RegistryStep, Cancel, TypeOK, SamplesSeen, NoSample, Ages, StalenessLimit
  <2>7. Deciding' /\ RejectionJustified'
    BY <1>0, <1>2 DEF Configure, RegistryStep, Cancel, TypeOK, Deciding, RejectionJustified
  <2>8. QED
    BY <2>1, <2>2, <2>3, <2>4, <2>5, <2>6, <2>7 DEF IInv
<1>3. CASE Drop
  <2>1. TypeOK'
    BY <1>0, <1>3 DEF Drop, RegistryStep, Cancel, TypeOK, AnyConfig, Idle, OneOperation, NoSample, Ages, StalenessLimit
  <2>2. OneOperation'
    BY <1>0, <1>3 DEF Drop, RegistryStep, Cancel, TypeOK, OneOperation, Idle
  <2>3. CleanUntilConfigured'
    BY <1>0, <1>3 DEF Drop, RegistryStep, Cancel, TypeOK, OneOperation, CleanUntilConfigured, Idle, AnyConfig, NoSample
  <2>4. GaugeAgrees'
    BY <1>0, <1>3 DEF Drop, RegistryStep, Cancel, TypeOK, OneOperation, CleanUntilConfigured, GaugeAgrees, Idle
  <2>5. PollsInPool'
    BY <1>0, <1>3 DEF Drop, RegistryStep, Cancel, TypeOK, OneOperation, CleanUntilConfigured, PollsInPool, Idle
  <2>6. SamplesSeen'
    BY <1>0, <1>3 DEF Drop, RegistryStep, Cancel, TypeOK, SamplesSeen, NoSample, Ages, StalenessLimit
  <2>7. Deciding' /\ RejectionJustified'
    BY <1>0, <1>3 DEF Drop, RegistryStep, Cancel, TypeOK, Deciding, RejectionJustified
  <2>8. QED
    BY <2>1, <2>2, <2>3, <2>4, <2>5, <2>6, <2>7 DEF IInv
<1>4. CASE Delist
  <2>1. TypeOK'
    BY <1>0, <1>4 DEF Delist, RegistryStep, Cancel, TypeOK, AnyConfig, Idle, OneOperation, NoSample, Ages, StalenessLimit
  <2>2. OneOperation'
    BY <1>0, <1>4 DEF Delist, RegistryStep, Cancel, TypeOK, OneOperation, Idle
  <2>3. CleanUntilConfigured'
    BY <1>0, <1>4 DEF Delist, RegistryStep, Cancel, TypeOK, OneOperation, CleanUntilConfigured, Idle, AnyConfig, NoSample
  <2>4. GaugeAgrees'
    BY <1>0, <1>4 DEF Delist, RegistryStep, Cancel, TypeOK, OneOperation, CleanUntilConfigured, GaugeAgrees, Idle
  <2>5. PollsInPool'
    BY <1>0, <1>4 DEF Delist, RegistryStep, Cancel, TypeOK, OneOperation, CleanUntilConfigured, PollsInPool, Idle
  <2>6. SamplesSeen'
    BY <1>0, <1>4 DEF Delist, RegistryStep, Cancel, TypeOK, SamplesSeen, NoSample, Ages, StalenessLimit
  <2>7. Deciding' /\ RejectionJustified'
    BY <1>0, <1>4 DEF Delist, RegistryStep, Cancel, TypeOK, Deciding, RejectionJustified
  <2>8. QED
    BY <2>1, <2>2, <2>3, <2>4, <2>5, <2>6, <2>7 DEF IInv
<1>5. CASE FinishSet
  <2>1. TypeOK'
    <3>1. op.obj \in Objects
      BY <1>0, <1>5 DEF FinishSet, TypeOK, Idle
    <3>2. QED
      <4>1. CASE settings = NoConfig
        <5>1. sample' \in [Objects -> [taken : BOOLEAN, waiting : Depths \cup {0}, age : Ages]]
          <6>1. sample' = [sample EXCEPT ![op.obj] = NoSample]
            BY <1>5, <4>1 DEF FinishSet
          <6>2. sample \in [Objects -> [taken : BOOLEAN, waiting : Depths \cup {0}, age : Ages]]
            BY <1>0 DEF TypeOK
          <6>3. QED
            BY <3>1, <6>1, <6>2, NoSampleType
        <5>2. cfg' \in [Objects -> AnyConfig]
          BY <1>0, <1>5, <3>1 DEF FinishSet, TypeOK
        <5>3. overloaded' \in [Objects -> BOOLEAN] /\ cancelled' \in [Objects -> BOOLEAN]
          BY <1>0, <1>5, <3>1, <4>1 DEF FinishSet, TypeOK
        <5>4. gaugeDepth' \in Depths \cup {0} /\ gaugeOverloaded' \in 0..1
          BY <1>5, <4>1 DEF FinishSet
        <5>5. QED
          BY <1>0, <1>5, <4>1, <5>1, <5>2, <5>3, <5>4 DEF FinishSet, TypeOK
      <4>2. CASE settings # NoConfig
        BY <1>0, <1>5, <3>1, <4>2 DEF FinishSet, TypeOK
      <4>3. QED
        BY <4>1, <4>2
  <2>2. OneOperation'
    BY <1>0, <1>5 DEF FinishSet, RegistryStep, Cancel, TypeOK, OneOperation, Idle
  <2>3. CleanUntilConfigured'
    BY <1>0, <1>5 DEF FinishSet, TypeOK, OneOperation, CleanUntilConfigured, Idle
  <2>4. GaugeAgrees'
    BY <1>0, <1>5, SMTT(30) DEF FinishSet, RegistryStep, Cancel, TypeOK, OneOperation, CleanUntilConfigured, GaugeAgrees, Idle
  <2>5. PollsInPool'
    BY <1>0, <1>5 DEF FinishSet, RegistryStep, Cancel, TypeOK, OneOperation, CleanUntilConfigured, PollsInPool, Idle
  <2>6. SamplesSeen'
    BY <1>0, <1>5 DEF FinishSet, RegistryStep, Cancel, TypeOK, SamplesSeen, NoSample, Ages, StalenessLimit
  <2>7. Deciding' /\ RejectionJustified'
    BY <1>0, <1>5 DEF FinishSet, RegistryStep, Cancel, TypeOK, Deciding, RejectionJustified
  <2>8. QED
    BY <2>1, <2>2, <2>3, <2>4, <2>5, <2>6, <2>7 DEF IInv
<1>6. CASE FinishStop
  <2>1. TypeOK'
    BY <1>0, <1>6 DEF FinishStop, RegistryStep, Cancel, TypeOK, AnyConfig, Idle, OneOperation, NoSample, Ages, StalenessLimit
  <2>2. OneOperation'
    BY <1>0, <1>6 DEF FinishStop, RegistryStep, Cancel, TypeOK, OneOperation, Idle
  <2>3. CleanUntilConfigured'
    BY <1>0, <1>6 DEF FinishStop, RegistryStep, Cancel, TypeOK, OneOperation, CleanUntilConfigured, Idle, AnyConfig, NoSample
  <2>4. GaugeAgrees'
    BY <1>0, <1>6 DEF FinishStop, RegistryStep, Cancel, TypeOK, OneOperation, CleanUntilConfigured, GaugeAgrees, Idle
  <2>5. PollsInPool'
    BY <1>0, <1>6 DEF FinishStop, RegistryStep, Cancel, TypeOK, OneOperation, CleanUntilConfigured, PollsInPool, Idle
  <2>6. SamplesSeen'
    BY <1>0, <1>6 DEF FinishStop, RegistryStep, Cancel, TypeOK, SamplesSeen, NoSample, Ages, StalenessLimit
  <2>7. Deciding' /\ RejectionJustified'
    BY <1>0, <1>6 DEF FinishStop, RegistryStep, Cancel, TypeOK, Deciding, RejectionJustified
  <2>8. QED
    BY <2>1, <2>2, <2>3, <2>4, <2>5, <2>6, <2>7 DEF IInv
<1>7. QED
  BY <1>1, <1>2, <1>3, <1>4, <1>5, <1>6

\* The poller of an object: a value is stored in the interval in which it was
\* read, or in the next one.
LEMMA PollerSteps ==
  ASSUME IInv, NEW o \in Objects,
         Send(o) \/ Answer(o) \/ Fail(o) \/ Store(o) \/ TickerFires(o) \/ Return(o)
  PROVE  IInv'
<1> USE ConstantsAssumption DEF objVars, polVars, gauges, reqVars, envVars, regVars
<1>0. /\ TypeOK /\ OneOperation /\ CleanUntilConfigured /\ GaugeAgrees /\ PollsInPool
      /\ SamplesSeen /\ Deciding /\ RejectionJustified
  BY DEF IInv
<1>1. CASE Send(o)
  <2>1. TypeOK'
    BY <1>0, <1>1 DEF Send, PollerStep, TypeOK, AnyConfig, Idle, OneOperation, Ages, StalenessLimit
  <2>2. OneOperation'
    BY <1>0, <1>1 DEF Send, PollerStep, TypeOK, OneOperation, Idle
  <2>3. CleanUntilConfigured'
    BY <1>0, <1>1 DEF Send, PollerStep, TypeOK, OneOperation, CleanUntilConfigured, Idle, AnyConfig, NoSample
  <2>4. GaugeAgrees'
    BY <1>0, <1>1 DEF Send, PollerStep, TypeOK, OneOperation, CleanUntilConfigured, GaugeAgrees, Idle
  <2>5. PollsInPool'
    BY <1>0, <1>1 DEF Send, PollerStep, TypeOK, OneOperation, CleanUntilConfigured, PollsInPool, Idle
  <2>6. SamplesSeen'
    BY <1>0, <1>1 DEF Send, PollerStep, TypeOK, SamplesSeen, Ages, StalenessLimit
  <2>7. Deciding' /\ RejectionJustified'
    BY <1>0, <1>1 DEF Send, PollerStep, TypeOK, Deciding, RejectionJustified
  <2>8. QED
    BY <2>1, <2>2, <2>3, <2>4, <2>5, <2>6, <2>7 DEF IInv
<1>2. CASE Answer(o)
  <2>1. TypeOK'
    BY <1>0, <1>2 DEF Answer, PollerStep, TypeOK, AnyConfig, Idle, OneOperation, Ages, StalenessLimit
  <2>2. OneOperation'
    BY <1>0, <1>2 DEF Answer, PollerStep, TypeOK, OneOperation, Idle
  <2>3. CleanUntilConfigured'
    BY <1>0, <1>2 DEF Answer, PollerStep, TypeOK, OneOperation, CleanUntilConfigured, Idle, AnyConfig, NoSample
  <2>4. GaugeAgrees'
    BY <1>0, <1>2 DEF Answer, PollerStep, TypeOK, OneOperation, CleanUntilConfigured, GaugeAgrees, Idle
  <2>5. PollsInPool'
    BY <1>0, <1>2 DEF Answer, PollerStep, TypeOK, OneOperation, CleanUntilConfigured, PollsInPool, Idle
  <2>6. SamplesSeen'
    BY <1>0, <1>2 DEF Answer, PollerStep, TypeOK, SamplesSeen, Ages, StalenessLimit
  <2>7. Deciding' /\ RejectionJustified'
    BY <1>0, <1>2 DEF Answer, PollerStep, TypeOK, Deciding, RejectionJustified
  <2>8. QED
    BY <2>1, <2>2, <2>3, <2>4, <2>5, <2>6, <2>7 DEF IInv
<1>3. CASE Fail(o)
  <2>1. TypeOK'
    BY <1>0, <1>3 DEF Fail, PollerStep, TypeOK, AnyConfig, Idle, OneOperation, Ages, StalenessLimit
  <2>2. OneOperation'
    BY <1>0, <1>3 DEF Fail, PollerStep, TypeOK, OneOperation, Idle
  <2>3. CleanUntilConfigured'
    BY <1>0, <1>3 DEF Fail, PollerStep, TypeOK, OneOperation, CleanUntilConfigured, Idle, AnyConfig, NoSample
  <2>4. GaugeAgrees'
    BY <1>0, <1>3 DEF Fail, PollerStep, TypeOK, OneOperation, CleanUntilConfigured, GaugeAgrees, Idle
  <2>5. PollsInPool'
    BY <1>0, <1>3 DEF Fail, PollerStep, TypeOK, OneOperation, CleanUntilConfigured, PollsInPool, Idle
  <2>6. SamplesSeen'
    BY <1>0, <1>3 DEF Fail, PollerStep, TypeOK, SamplesSeen, Ages, StalenessLimit
  <2>7. Deciding' /\ RejectionJustified'
    BY <1>0, <1>3 DEF Fail, PollerStep, TypeOK, Deciding, RejectionJustified
  <2>8. QED
    BY <2>1, <2>2, <2>3, <2>4, <2>5, <2>6, <2>7 DEF IInv
<1>4. CASE Store(o)
  <2> DEFINE new == [taken |-> TRUE, waiting |-> got[o], age |-> 0]
  <2>0. /\ new \in [taken : BOOLEAN, waiting : Depths \cup {0}, age : Ages]
        /\ got[o] \in Int
        /\ cfg[o] # NoConfig => cfg[o].max \in Int
    <3>1. got[o] \in Depths \cup {0} /\ cfg[o] \in AnyConfig
      BY <1>0 DEF TypeOK
    <3>2. new \in [taken : BOOLEAN, waiting : Depths \cup {0}, age : Ages]
      BY <3>1 DEF Ages, StalenessLimit
    <3>3. got[o] \in Nat
      <4>1. got[o] = 0 \/ got[o] \in Depths
        BY <3>1
      <4>2. \A d \in Depths : d \in Nat
        BY ConstantsAssumption
      <4>3. CASE got[o] = 0
        BY <4>3
      <4>4. CASE got[o] \in Depths
        BY <4>2, <4>4
      <4>5. QED
        BY <4>1, <4>3, <4>4
    <3>4. cfg[o] # NoConfig => cfg[o].max \in Int
      BY <1>0, <3>1, FieldTypes
    <3>5. QED
      BY <3>2, <3>3, <3>4
  <2> HIDE DEF new
  <2>1. TypeOK'
    <3>1. /\ sample' \in [Objects -> [taken : BOOLEAN, waiting : Depths \cup {0}, age : Ages]]
          /\ got' \in [Objects -> Depths \cup {0}]
      BY <1>0, <1>4, <2>0 DEF Store, TypeOK, new
    <3>2. overloaded' \in [Objects -> BOOLEAN] /\ gaugeOverloaded' \in 0..1
      <4>1. CASE cfg[o] = NoConfig \/ cfg[o].max <= 0
        BY <1>0, <1>4, <4>1 DEF Store, TypeOK
      <4>2. CASE ~ (cfg[o] = NoConfig \/ cfg[o].max <= 0)
        <5>1. (got[o] >= cfg[o].max) \in BOOLEAN
          BY <2>0, <4>2
        <5>2. overloaded' \in [Objects -> BOOLEAN]
          BY <1>0, <1>4, <4>2, <5>1 DEF Store, TypeOK
        <5>3. gaugeOverloaded' \in 0..1
          BY <1>4, <4>2 DEF Store
        <5>4. QED
          BY <5>2, <5>3
      <4>3. QED
        BY <4>1, <4>2
    <3>3. QED
      BY <1>0, <1>4, <3>1, <3>2 DEF Store, PollerStep, TypeOK
  <2>2. OneOperation'
    BY <1>0, <1>4 DEF Store, PollerStep, OneOperation
  <2>3. CleanUntilConfigured'
    BY <1>0, <1>4 DEF Store, PollerStep, TypeOK, CleanUntilConfigured
  <2>4. GaugeAgrees'
    <3>1. o \in created
      BY <1>0, <1>4 DEF Store, PollerStep, CleanUntilConfigured
    <3>2. CASE cfg[o] = NoConfig \/ cfg[o].max <= 0
      BY <1>0, <1>4, <3>2 DEF Store, PollerStep, GaugeAgrees
    <3>3. CASE ~ (cfg[o] = NoConfig \/ cfg[o].max <= 0)
      <4>1. overloaded'[o] = (got[o] >= cfg[o].max)
        BY <1>0, <1>4, <3>3 DEF Store, TypeOK
      <4>2. gaugeOverloaded' = (IF overloaded'[o] THEN 1 ELSE 0)
        BY <1>4, <3>3, <4>1 DEF Store
      <4>3. QED
        BY <1>4, <3>1, <4>2 DEF Store, PollerStep, GaugeAgrees
    <3>4. QED
      BY <3>2, <3>3
  <2>5. PollsInPool'
    BY <1>0, <1>4 DEF Store, PollerStep, TypeOK, PollsInPool
  <2>6. SamplesSeen'
    <3>1. /\ \A p \in Objects : sample'[p] = IF p = o THEN new ELSE sample[p]
          /\ \A p \in Objects : poller'[p] = "got" =>
               p # o /\ poller[p] = "got" /\ got'[p] = got[p] /\ spanned'[p] = spanned[p]
          /\ UNCHANGED <<depth, lastSeen>>
      BY <1>0, <1>4 DEF Store, PollerStep, TypeOK, new
    <3>2. new.waiting \in Depths /\ lastSeen[new.waiting] <= new.age + 1
      <4>1. poller[o] = "got" /\ new.waiting = got[o] /\ new.age = 0
        BY <1>4 DEF Store, PollerStep, new
      <4>2. got[o] \in Depths /\ lastSeen[got[o]] <= 1
        <5>1. got[o] \in Depths /\ lastSeen[got[o]] <= (IF spanned[o] THEN 1 ELSE 0)
          BY <1>0, <4>1 DEF SamplesSeen
        <5>2. lastSeen[got[o]] \in Ages
          BY <1>0, <5>1 DEF TypeOK
        <5>3. QED
          BY <5>1, <5>2 DEF Ages, StalenessLimit
      <4>3. QED
        BY <4>1, <4>2
    <3>3. QED
      BY <1>0, <3>1, <3>2 DEF SamplesSeen
  <2>7. Deciding' /\ RejectionJustified'
    BY <1>0, <1>4 DEF Store, PollerStep, Deciding, RejectionJustified
  <2>8. QED
    BY <2>1, <2>2, <2>3, <2>4, <2>5, <2>6, <2>7 DEF IInv
<1>5. CASE TickerFires(o)
  <2>1. TypeOK'
    BY <1>0, <1>5 DEF TickerFires, PollerStep, TypeOK, AnyConfig, Idle, OneOperation, Ages, StalenessLimit
  <2>2. OneOperation'
    BY <1>0, <1>5 DEF TickerFires, PollerStep, TypeOK, OneOperation, Idle
  <2>3. CleanUntilConfigured'
    BY <1>0, <1>5 DEF TickerFires, PollerStep, TypeOK, OneOperation, CleanUntilConfigured, Idle, AnyConfig, NoSample
  <2>4. GaugeAgrees'
    BY <1>0, <1>5 DEF TickerFires, PollerStep, TypeOK, OneOperation, CleanUntilConfigured, GaugeAgrees, Idle
  <2>5. PollsInPool'
    BY <1>0, <1>5 DEF TickerFires, PollerStep, TypeOK, OneOperation, CleanUntilConfigured, PollsInPool, Idle
  <2>6. SamplesSeen'
    BY <1>0, <1>5 DEF TickerFires, PollerStep, TypeOK, SamplesSeen, Ages, StalenessLimit
  <2>7. Deciding' /\ RejectionJustified'
    BY <1>0, <1>5 DEF TickerFires, PollerStep, TypeOK, Deciding, RejectionJustified
  <2>8. QED
    BY <2>1, <2>2, <2>3, <2>4, <2>5, <2>6, <2>7 DEF IInv
<1>6. CASE Return(o)
  <2>1. TypeOK'
    BY <1>0, <1>6 DEF Return, PollerStep, TypeOK, AnyConfig, Idle, OneOperation, Ages, StalenessLimit
  <2>2. OneOperation'
    BY <1>0, <1>6 DEF Return, PollerStep, TypeOK, OneOperation, Idle
  <2>3. CleanUntilConfigured'
    BY <1>0, <1>6 DEF Return, PollerStep, TypeOK, OneOperation, CleanUntilConfigured, Idle, AnyConfig, NoSample
  <2>4. GaugeAgrees'
    BY <1>0, <1>6 DEF Return, PollerStep, TypeOK, OneOperation, CleanUntilConfigured, GaugeAgrees, Idle
  <2>5. PollsInPool'
    BY <1>0, <1>6 DEF Return, PollerStep, TypeOK, OneOperation, CleanUntilConfigured, PollsInPool, Idle
  <2>6. SamplesSeen'
    BY <1>0, <1>6 DEF Return, PollerStep, TypeOK, SamplesSeen, Ages, StalenessLimit
  <2>7. Deciding' /\ RejectionJustified'
    BY <1>0, <1>6 DEF Return, PollerStep, TypeOK, Deciding, RejectionJustified
  <2>8. QED
    BY <2>1, <2>2, <2>3, <2>4, <2>5, <2>6, <2>7 DEF IInv
<1>7. QED
  BY <1>1, <1>2, <1>3, <1>4, <1>5, <1>6

\* A request decides on the sample it reads; its configuration was in force.
LEMMA RequestSteps ==
  ASSUME IInv, NEW r \in Requests,
         Pick(r) \/ ReadConfig(r) \/ ReadSample(r) \/ Answered(r)
  PROVE  IInv'
<1> USE ConstantsAssumption DEF RequestStep, objVars, polVars, gauges, envVars, regVars
<1>0. /\ TypeOK /\ OneOperation /\ CleanUntilConfigured /\ GaugeAgrees /\ PollsInPool
      /\ SamplesSeen /\ Deciding /\ RejectionJustified
  BY DEF IInv
<1>1. UNCHANGED <<regVars, objVars, polVars, envVars, gauges>>
  BY DEF Pick, ReadConfig, ReadSample, Answered
<1>2. OneOperation' /\ CleanUntilConfigured' /\ GaugeAgrees' /\ PollsInPool' /\ SamplesSeen'
  BY <1>0, <1>1
  DEF OneOperation, CleanUntilConfigured, GaugeAgrees, PollsInPool, SamplesSeen
<1>3. CASE Pick(r)
  <2>1. TypeOK'
    BY <1>0, <1>3 DEF Pick, TypeOK
  <2>2. Deciding' /\ RejectionJustified'
    BY <1>0, <1>3 DEF Pick, TypeOK, Deciding, RejectionJustified
  <2>3. QED
    BY <1>2, <2>1, <2>2 DEF IInv
<1>4. CASE ReadConfig(r)
  <2>1. TypeOK'
    BY <1>0, <1>4 DEF ReadConfig, TypeOK, Deciding
  <2>2. Deciding' /\ RejectionJustified'
    <3>1. cfg[reqobj[r]] \in AnyConfig
      BY <1>0, <1>4 DEF ReadConfig, TypeOK, Deciding
    <3>2. QED
      BY <1>0, <1>4, <3>1 DEF ReadConfig, TypeOK, Deciding, RejectionJustified, AnyConfig
  <2>3. QED
    BY <1>2, <2>1, <2>2 DEF IInv
\* The sample that condemns the request is three intervals old at most, so the
\* backend had that queue four intervals ago at most.
<1>5. CASE ReadSample(r)
  <2> DEFINE s == sample[reqobj[r]]
             c == reqcfg[r]
             v == [max |-> c.max, retry |-> 60 * Minutes(c)]
  <2>0. /\ reqobj[r] \in Objects
        /\ c \in [max : Int, minutes : Int] /\ c.max > 0
        /\ s.waiting \in Nat /\ s.age \in Int
    <3>1. /\ reqobj[r] \in Objects
          /\ c \in AnyConfig /\ c # NoConfig /\ c.max > 0
      BY <1>0, <1>5 DEF ReadSample, TypeOK, Deciding
    <3>2. QED
      BY <1>0, <3>1, FieldTypes DEF Ages, AnyConfig
  <2>1. v \in [max : Int, retry : Int] /\ v.max = c.max /\ v.retry >= 60
    BY <2>0 DEF Minutes
  <2>2. TypeOK'
    <3>1. verdict' \in [Requests -> [max : Int, retry : Int]]
      BY <1>0, <1>5, <2>1 DEF ReadSample, TypeOK
    <3>2. reqpc' \in [Requests -> {"arrived", "picked", "checking", "accepted", "rejected"}]
      BY <1>0, <1>5 DEF ReadSample, TypeOK
    <3>3. QED
      BY <1>0, <1>5, <3>1, <3>2 DEF ReadSample, TypeOK
  <2>3. Deciding'
    BY <1>0, <1>5 DEF ReadSample, TypeOK, Deciding
  <2>4. Exceeds(s, c) =>
          \E d \in Depths : d >= v.max /\ lastSeen[d] <= StalenessLimit + 1
    <3>1. SUFFICES ASSUME Exceeds(s, c)
                   PROVE  s.waiting \in Depths /\ s.waiting >= c.max
                          /\ lastSeen[s.waiting] <= StalenessLimit + 1
      BY <2>1
    <3>2. s.waiting \in Depths /\ lastSeen[s.waiting] <= s.age + 1
      BY <1>0, <2>0, <3>1 DEF Exceeds, SamplesSeen
    <3>3. lastSeen[s.waiting] \in Int
      BY <1>0, <3>2, FieldTypes
    <3>4. QED
      BY <2>0, <3>1, <3>2, <3>3 DEF Exceeds, StalenessLimit
  <2>5. RejectionJustified'
    <3>1. /\ lastSeen' = lastSeen
          /\ \A q \in Requests \ {r} : reqpc'[q] = reqpc[q] /\ verdict'[q] = verdict[q]
      BY <1>0, <1>5 DEF ReadSample, TypeOK
    <3>2. reqpc'[r] = "rejected" => Exceeds(s, c) /\ verdict'[r] = v
      BY <1>0, <1>5 DEF ReadSample, TypeOK
    <3>3. QED
      BY <1>0, <2>0, <2>1, <2>4, <3>1, <3>2 DEF RejectionJustified
  <2>6. QED
    BY <1>2, <2>2, <2>3, <2>5 DEF IInv
<1>6. CASE Answered(r)
  <2>1. TypeOK'
    BY <1>0, <1>6 DEF Answered, TypeOK, AnyConfig, NoVerdict
  <2>2. Deciding' /\ RejectionJustified'
    BY <1>0, <1>6 DEF Answered, TypeOK, Deciding, RejectionJustified
  <2>3. QED
    BY <1>2, <2>1, <2>2 DEF IInv
<1>7. QED
  BY <1>3, <1>4, <1>5, <1>6

\* The queue changes: what has been seen is only seen again.
LEMMA QueueStep == ASSUME IInv, NEW d \in Depths, QueueChanges(d) PROVE IInv'
<1> USE ConstantsAssumption DEF objVars, polVars, gauges, reqVars, regVars
<1>0. /\ TypeOK /\ OneOperation /\ CleanUntilConfigured /\ GaugeAgrees /\ PollsInPool
      /\ SamplesSeen /\ Deciding /\ RejectionJustified
  BY DEF IInv
<1>1. TypeOK'
  BY <1>0 DEF QueueChanges, TypeOK, Ages, StalenessLimit
<1>2. OneOperation' /\ CleanUntilConfigured' /\ GaugeAgrees' /\ PollsInPool' /\ Deciding'
  BY <1>0
  DEF QueueChanges, OneOperation, CleanUntilConfigured, GaugeAgrees, PollsInPool, Deciding
<1>3. /\ \A e \in Depths : lastSeen[e] \in 0..5 /\ lastSeen'[e] \in Int /\ lastSeen'[e] <= lastSeen[e]
      /\ depth' = d /\ lastSeen'[d] = 0
  BY <1>0 DEF QueueChanges, TypeOK, Ages, StalenessLimit
<1>4. SamplesSeen'
  <2>1. UNCHANGED <<poller, got, spanned, sample>>
    BY DEF QueueChanges
  <2>2. \A o \in Objects : sample[o].age \in Int
    BY <1>0, FieldTypes DEF Ages
  <2>3. ASSUME NEW o \in Objects, poller[o] = "got"
        PROVE  got[o] \in Depths /\ lastSeen'[got[o]] <= (IF spanned[o] THEN 1 ELSE 0)
    BY <1>0, <1>3, <2>3 DEF SamplesSeen
  <2>4. ASSUME NEW o \in Objects, sample[o].taken
        PROVE  sample[o].waiting \in Depths /\ lastSeen'[sample[o].waiting] <= sample[o].age + 1
    <3>1. sample[o].waiting \in Depths /\ lastSeen[sample[o].waiting] <= sample[o].age + 1
      BY <1>0, <2>4 DEF SamplesSeen
    <3> DEFINE w == sample[o].waiting
    <3>2. lastSeen[w] \in Int /\ lastSeen'[w] \in Int /\ lastSeen'[w] <= lastSeen[w]
      BY <1>0, <1>3, <3>1, FieldTypes
    <3>3. lastSeen'[w] <= sample[o].age + 1
      BY <2>2, <3>1, <3>2
    <3>4. QED
      BY <3>1, <3>3
  <2>5. QED
    BY <1>3, <2>1, <2>3, <2>4 DEF SamplesSeen
<1>5. RejectionJustified'
  <2>1. UNCHANGED <<reqpc, verdict>>
    BY DEF QueueChanges
  <2>2. QED
    BY <1>0, <1>3, <2>1 DEF RejectionJustified, StalenessLimit
<1>6. QED
  BY <1>1, <1>2, <1>4, <1>5 DEF IInv

\* An interval ends: samples and memory grow older together, and no request that
\* has been turned away still waits for its answer.
LEMMA IntervalStep == ASSUME IInv, IntervalEnds PROVE IInv'
<1> USE ConstantsAssumption DEF gauges, reqVars, regVars
<1>0. /\ TypeOK /\ OneOperation /\ CleanUntilConfigured /\ GaugeAgrees /\ PollsInPool
      /\ SamplesSeen /\ Deciding /\ RejectionJustified
  BY DEF IInv
<1>1. \A o \in Objects :
        /\ sample'[o] \in [taken : BOOLEAN, waiting : Depths \cup {0}, age : Ages]
        /\ sample'[o].taken = sample[o].taken /\ sample'[o].waiting = sample[o].waiting
        /\ sample[o].taken => sample'[o].age = Older(sample[o].age)
        /\ ~ sample[o].taken => sample'[o] = sample[o]
  <2> TAKE o \in Objects
  <2>1. sample[o] \in [taken : BOOLEAN, waiting : Depths \cup {0}, age : Ages]
    BY <1>0 DEF TypeOK
  <2>2. sample'[o] = IF sample[o].taken
                     THEN [sample[o] EXCEPT !.age = Older(sample[o].age)] ELSE sample[o]
    BY DEF IntervalEnds
  <2>3. Older(sample[o].age) \in Ages
    BY <2>1, OlderType
  <2>4. QED
    BY <2>1, <2>2, <2>3
<1>2. /\ lastSeen' = [d \in Depths |-> IF d = depth THEN 0 ELSE Older(lastSeen[d])]
      /\ \A d \in Depths : lastSeen'[d] \in Ages
  BY <1>0, OlderType, SMTT(30) DEF IntervalEnds, TypeOK, Ages, StalenessLimit
<1>3. TypeOK'
  <2>1. sample' \in [Objects -> [taken : BOOLEAN, waiting : Depths \cup {0}, age : Ages]]
    BY <1>1 DEF IntervalEnds
  <2>2. lastSeen' \in [Depths -> Ages]
    BY <1>2
  <2>3. pending' \in [Objects -> BOOLEAN] /\ spanned' \in [Objects -> BOOLEAN]
    BY DEF IntervalEnds, Scraping
  <2>4. QED
    BY <1>0, <2>1, <2>2, <2>3 DEF IntervalEnds, TypeOK
<1>4. OneOperation' /\ GaugeAgrees' /\ PollsInPool' /\ Deciding'
  BY <1>0 DEF IntervalEnds, OneOperation, GaugeAgrees, PollsInPool, Deciding
<1>5. CleanUntilConfigured'
  BY <1>0, <1>1 DEF IntervalEnds, CleanUntilConfigured, NoSample
<1>6. SamplesSeen'
  <2>1. lastSeen'[depth'] = 0
    BY <1>0, <1>2 DEF IntervalEnds, TypeOK
  <2>2. ASSUME NEW o \in Objects, poller'[o] = "got"
        PROVE  got'[o] \in Depths /\ lastSeen'[got'[o]] <= (IF spanned'[o] THEN 1 ELSE 0)
    <3>1. poller[o] = "got" /\ ~ spanned[o] /\ got'[o] = got[o] /\ spanned'[o] = TRUE
      BY <2>2 DEF IntervalEnds, Scraping
    <3>2. got[o] \in Depths /\ lastSeen[got[o]] \in Ages /\ lastSeen[got[o]] <= 0
      BY <1>0, <3>1 DEF SamplesSeen, TypeOK
    <3>3. lastSeen'[got[o]] <= 1
      BY <1>2, <3>2, OlderType DEF Ages
    <3>4. QED
      BY <3>1, <3>2, <3>3
  <2>3. ASSUME NEW o \in Objects, sample'[o].taken
        PROVE  /\ sample'[o].waiting \in Depths
               /\ lastSeen'[sample'[o].waiting] <= sample'[o].age + 1
    <3> DEFINE w == sample[o].waiting
    <3>1. /\ sample[o].taken /\ w \in Depths /\ sample'[o].waiting = w
          /\ lastSeen[w] <= sample[o].age + 1
          /\ lastSeen[w] \in Ages /\ lastSeen'[w] \in Ages /\ sample[o].age \in Ages
      BY <1>0, <1>1, <1>2, <2>3 DEF SamplesSeen, TypeOK
    <3>2. sample'[o].age = Older(sample[o].age)
      BY <1>1, <3>1
    <3>3. lastSeen'[w] <= sample'[o].age + 1
      <4>1. lastSeen'[w] <= Older(lastSeen[w])
        BY <1>2, <3>1, OlderType DEF Ages, StalenessLimit
      <4>2. QED
        BY <3>1, <3>2, <4>1 DEF Older, Ages, StalenessLimit
    <3>4. QED
      BY <3>1, <3>3
  <2>4. QED
    BY <2>1, <2>2, <2>3 DEF SamplesSeen
<1>7. RejectionJustified'
  BY DEF IntervalEnds, RejectionJustified
<1>8. QED
  BY <1>3, <1>4, <1>5, <1>6, <1>7 DEF IInv

LEMMA StutteringStep == ASSUME IInv, UNCHANGED vars PROVE IInv'
BY DEF vars, objVars, polVars, gauges, reqVars, envVars, regVars, IInv, TypeOK, OneOperation,
       CleanUntilConfigured, GaugeAgrees, PollsInPool, SamplesSeen, Deciding, RejectionJustified

\* The inductive invariant: the operation in progress, what an object may hold,
\* the gauge, and how old the samples really are.
THEOREM InvariantHolds == Spec => []IInv
<1>1. Init => IInv
  BY InitInvariant
<1>2. IInv /\ [Next]_vars => IInv'
  <2> SUFFICES ASSUME IInv, [Next]_vars PROVE IInv'
    OBVIOUS
  <2>1. CASE Registry
    BY <2>1, RegistrySteps DEF Registry
  <2>2. CASE \E o \in Objects : Poll(o) \/ Return(o)
    BY <2>2, PollerSteps DEF Poll
  <2>3. CASE \E r \in Requests : Request(r)
    BY <2>3, RequestSteps DEF Request
  <2>4. CASE (\E d \in Depths : QueueChanges(d)) \/ IntervalEnds
    BY <2>4, QueueStep, IntervalStep
  <2>5. CASE UNCHANGED vars
    BY <2>5, StutteringStep
  <2>6. QED
    BY <2>1, <2>2, <2>3, <2>4, <2>5 DEF Next
<1>3. QED
  BY <1>1, <1>2, PTL DEF Spec

\* Every variable has its type, for every value of the constants.
THEOREM TypeCorrect == Spec => []TypeOK
<1>1. IInv => TypeOK
  BY DEF IInv
<1>2. QED
  BY <1>1, InvariantHolds, PTL

\* An object whose polling is off remembers nothing a late scrape could have left
\* behind, and the gauge agrees with the flag while the host has had one object:
\* setConfig waits for the poller before it resets the sample (metrics.go:57-76).
THEOREM DisabledAlwaysClean == Spec => []DisabledIsClean
<1>1. IInv => DisabledIsClean
  BY DEF IInv, DisabledIsClean, CleanUntilConfigured, GaugeAgrees
<1>2. QED
  BY <1>1, InvariantHolds, PTL

\* A client is turned away only for a queue of the configured length that the
\* backend had within the staleness limit and one scrape (metrics.go:245-273).
THEOREM RejectionsJustified == Spec => []RejectionJustified
<1>1. IInv => RejectionJustified
  BY DEF IInv
<1>2. QED
  BY <1>1, InvariantHolds, PTL

\* Once the only enclave a host has had is shut down, no step writes its sample
\* or the gauges of the host (metrics.go:152-166).
LEMMA QuietStep ==
  ASSUME IInv, [Next]_vars, NEW o \in Objects,
         created = {o}, current = NoObject, op = Idle
  PROVE  /\ UNCHANGED gauges
         /\ sample'[o] \in {sample[o], [sample[o] EXCEPT !.age = Older(@)]}
<1> USE DEF gauges, objVars, polVars, envVars, regVars, reqVars
<1>1. /\ op.kind \notin {"set", "drop", "stop"}
      /\ \A p \in Objects : poller[p] = "none"
  BY ConstantsAssumption DEF IInv, Idle, CleanUntilConfigured, PollsInPool
<1>2. CASE Registry
  BY <1>1, <1>2
  DEF Registry, Admit, Configure, Drop, Delist, FinishSet, FinishStop, RegistryStep
<1>3. CASE \E p \in Objects : Poll(p) \/ Return(p)
  BY <1>1, <1>3
  DEF Poll, Send, Answer, Fail, Store, TickerFires, Return, PollerStep
<1>4. CASE \E r \in Requests : Request(r)
  BY <1>4 DEF Request, Pick, ReadConfig, ReadSample, Answered, RequestStep
<1>5. CASE \E d \in Depths : QueueChanges(d)
  BY <1>5 DEF QueueChanges
<1>6. CASE IntervalEnds
  BY <1>6 DEF IntervalEnds
<1>7. CASE UNCHANGED vars
  BY <1>7 DEF vars
<1>8. QED
  BY <1>2, <1>3, <1>4, <1>5, <1>6, <1>7 DEF Next

\* After shutdown nothing writes the gauges of the host, nor its sample but for
\* the age, as long as the host has had one object only.
THEOREM ShutdownStaysQuiet == Spec => ShutdownIsQuiet
<1>1. ASSUME IInv, [Next]_vars
      PROVE  [\A o \in Objects :
               (created = {o} /\ current = NoObject /\ op = Idle) =>
                 /\ UNCHANGED gauges
                 /\ sample'[o] \in {sample[o], [sample[o] EXCEPT !.age = Older(@)]}]_vars
  BY <1>1, QuietStep
<1>2. QED
  BY <1>1, InvariantHolds, PTL DEF Spec, ShutdownIsQuiet

=============================================================================
