------------------------ MODULE RequestTrackerProofs ------------------------
(***************************************************************************)
(* Proofs about RequestTracker, for every set of calls, keys and limits,   *)
(* every stall and every clock.  IInv is inductive; with its help every    *)
(* step is shown to be a step of FixedWindow or a stutter.                 *)
(***************************************************************************)
EXTENDS RequestTracker, TLAPS

\* Counting a call yields a bucket of a window that is not ahead of the clock.
LEMMA CountedBucket ==
  ASSUME TypeOK, BucketsNotAhead, NEW k \in Keys, NEW t \in Time, t.minute <= minute
  PROVE  /\ Counted(k, t) \in Bucket
         /\ Counted(k, t).window <= minute
         /\ t.minute <= Counted(k, t).window
BY DEF TypeOK, BucketsNotAhead, Counted, Bucket, Time

\* Storing the counted bucket changes that entry and no other.
LEMMA StoredTable ==
  ASSUME TypeOK, BucketsNotAhead, NEW k \in Keys, NEW t \in Time, t.minute <= minute
  PROVE  /\ DOMAIN Stored(k, t) = DOMAIN buckets \cup {k}
         /\ DOMAIN Stored(k, t) \subseteq Keys
         /\ Stored(k, t)[k] = Counted(k, t)
         /\ \A x \in DOMAIN buckets : x # k => Stored(k, t)[x] = buckets[x]
         /\ \A x \in DOMAIN Stored(k, t) :
              Stored(k, t)[x] \in Bucket /\ Stored(k, t)[x].window <= minute
<1>1. DOMAIN Stored(k, t) = DOMAIN buckets \cup {k}
  BY DEF Stored
<1>2. DOMAIN Stored(k, t) \subseteq Keys
  BY <1>1 DEF TypeOK
<1>3. Stored(k, t)[k] = Counted(k, t)
  BY DEF Stored
<1>4. \A x \in DOMAIN buckets : x # k => Stored(k, t)[x] = buckets[x]
  BY DEF Stored
<1>5. \A x \in DOMAIN buckets : buckets[x] \in Bucket /\ buckets[x].window <= minute
  BY DEF TypeOK, BucketsNotAhead
<1>6. \A x \in DOMAIN Stored(k, t) :
        Stored(k, t)[x] \in Bucket /\ Stored(k, t)[x].window <= minute
  BY <1>1, <1>3, <1>4, <1>5, CountedBucket
<1>7. QED
  BY <1>1, <1>2, <1>3, <1>4, <1>6

\* A cleanup never deletes a bucket of the present minute.
LEMMA CurrentNotStale ==
  ASSUME minute \in Nat, NEW b \in Bucket, NEW t \in Time,
         t.minute <= minute, b.window = minute
  PROVE  ~ Stale(b, t)
BY DEF Stale, Bucket, Time

\* What Record does to the buckets, whether or not it cleans up.
LEMMA RecordEffect ==
  ASSUME IInv, NEW r \in Requests, Record(r)
  PROVE  /\ key[r] \in Keys /\ now[r] \in Time /\ now[r].minute <= minute
         /\ limit[r] \in Limits
         /\ DOMAIN buckets' \subseteq Keys
         /\ buckets' \in [DOMAIN buckets' -> Bucket]
         /\ \A x \in DOMAIN buckets' : buckets'[x].window <= minute
         /\ lastCleanup' \in Time
         /\ Counted(key[r], now[r]).window = minute =>
              key[r] \in DOMAIN buckets' /\ buckets'[key[r]] = Counted(key[r], now[r])
         /\ Counted(key[r], now[r]).window # minute =>
              (key[r] \in DOMAIN buckets' => buckets'[key[r]].window # minute)
         /\ \A x \in Keys \ {key[r]} :
              /\ x \in DOMAIN buckets' => x \in DOMAIN buckets /\ buckets'[x] = buckets[x]
              /\ x \in DOMAIN buckets /\ buckets[x].window = minute => x \in DOMAIN buckets'
<1> DEFINE k == key[r]
           t == now[r]
           S == Stored(k, t)
<1>1. k \in Keys /\ t \in Time /\ t.minute <= minute /\ limit[r] \in Limits
  BY DEF IInv, TypeOK, CallsNotAhead, Record
<1>2. /\ minute \in Nat /\ lastCleanup \in Time
      /\ TypeOK /\ BucketsNotAhead
  BY DEF IInv, TypeOK
<1>3. /\ DOMAIN S = DOMAIN buckets \cup {k}
      /\ DOMAIN S \subseteq Keys
      /\ S[k] = Counted(k, t)
      /\ \A x \in DOMAIN buckets : x # k => S[x] = buckets[x]
      /\ \A x \in DOMAIN S : S[x] \in Bucket /\ S[x].window <= minute
  BY <1>1, <1>2, StoredTable
<1>4. \A x \in DOMAIN S : S[x].window = minute => ~ Stale(S[x], t)
  BY <1>1, <1>2, <1>3, CurrentNotStale
<1>5. S = [x \in DOMAIN S |-> S[x]]
  BY DEF Stored
<1>6. \/ buckets' = S /\ lastCleanup' = lastCleanup
      \/ buckets' = Cleaned(S, t) /\ lastCleanup' = t
  BY DEF Record
<1>7. /\ DOMAIN buckets' \subseteq DOMAIN S
      /\ \A x \in DOMAIN buckets' : buckets'[x] = S[x]
      /\ \A x \in DOMAIN S : S[x].window = minute => x \in DOMAIN buckets'
      /\ buckets' = [x \in DOMAIN buckets' |-> buckets'[x]]
  <2>1. CASE buckets' = S
    BY <2>1, <1>5
  <2>2. CASE buckets' = Cleaned(S, t)
    <3>1. DOMAIN Cleaned(S, t) = {y \in DOMAIN S : ~ Stale(S[y], t)}
      BY DEF Cleaned
    <3>2. \A x \in DOMAIN Cleaned(S, t) : Cleaned(S, t)[x] = S[x]
      BY DEF Cleaned
    <3>3. Cleaned(S, t) = [x \in DOMAIN Cleaned(S, t) |-> Cleaned(S, t)[x]]
      BY DEF Cleaned
    <3>4. QED
      BY <2>2, <3>1, <3>2, <3>3, <1>4
  <2>3. QED
    BY <2>1, <2>2, <1>6
<1> HIDE DEF S
<1>8. DOMAIN buckets' \subseteq Keys
  BY <1>3, <1>7
<1>9. \A x \in DOMAIN buckets' : buckets'[x] \in Bucket /\ buckets'[x].window <= minute
  BY <1>3, <1>7
<1>10. buckets' \in [DOMAIN buckets' -> Bucket]
  BY <1>7, <1>9
<1>11. lastCleanup' \in Time
  BY <1>1, <1>2, <1>6
<1>12. Counted(k, t).window = minute =>
         k \in DOMAIN buckets' /\ buckets'[k] = Counted(k, t)
  BY <1>3, <1>7
<1>13. Counted(k, t).window # minute =>
         (k \in DOMAIN buckets' => buckets'[k].window # minute)
  BY <1>3, <1>7
<1>14. \A x \in Keys \ {k} :
         /\ x \in DOMAIN buckets' => x \in DOMAIN buckets /\ buckets'[x] = buckets[x]
         /\ x \in DOMAIN buckets /\ buckets[x].window = minute => x \in DOMAIN buckets'
  BY <1>3, <1>7
<1>15. QED
  BY <1>1, <1>8, <1>9, <1>10, <1>11, <1>12, <1>13, <1>14

\* Record counts the call in the present minute, or leaves the counters of
\* the present minute as they are if the call is late.
LEMMA RecordUsed ==
  ASSUME IInv, NEW r \in Requests, Record(r)
  PROVE  /\ Counted(key[r], now[r]).window = minute =>
              /\ Counted(key[r], now[r]).count = Used(key[r]) + 1
              /\ Used(key[r])' = Used(key[r]) + 1
         /\ Counted(key[r], now[r]).window # minute =>
              /\ now[r].minute # minute
              /\ Used(key[r])' = Used(key[r])
         /\ \A x \in Keys \ {key[r]} : Used(x)' = Used(x)
<1> DEFINE k == key[r]
           t == now[r]
<1>1. /\ TypeOK /\ BucketsNotAhead /\ minute \in Nat
      /\ k \in Keys /\ t \in Time /\ t.minute <= minute
      /\ minute' = minute /\ key' = key
  BY RecordEffect DEF IInv, TypeOK, Record, clock
<1>2. k \in DOMAIN buckets => buckets[k] \in Bucket /\ buckets[k].window <= minute
  BY <1>1 DEF TypeOK, BucketsNotAhead
<1>3. /\ Counted(k, t).window = minute => Counted(k, t).count = Used(k) + 1
      /\ Counted(k, t).window # minute => t.minute # minute /\ Used(k) = 0
  BY <1>1, <1>2 DEF Counted, Used, Bucket, Time
<1>4. Counted(k, t).window = minute => Used(k)' = Counted(k, t).count
  BY <1>1, RecordEffect DEF Used
<1>5. Counted(k, t).window # minute => Used(k)' = 0
  BY <1>1, RecordEffect DEF Used
<1>6. \A x \in Keys \ {k} : Used(x)' = Used(x)
  BY <1>1, RecordEffect DEF Used
<1>7. QED
  BY <1>3, <1>4, <1>5, <1>6

\* The counters of the present minute are natural numbers.
LEMMA UsedNat ==
  ASSUME TypeOK, NEW k \in Keys
  PROVE  Used(k) \in Nat
BY DEF TypeOK, Used, Bucket

LEMMA InitInvariant == Init => IInv
<1> SUFFICES ASSUME Init PROVE IInv
  OBVIOUS
<1> USE ConstantsAssumption DEF Init
<1>1. TypeOK
  BY DEF TypeOK, Bucket, Time
<1>2. BucketsNotAhead /\ CallsNotAhead
  BY DEF BucketsNotAhead, CallsNotAhead
<1>3. GrantedIsUsed /\ BudgetRespected
  BY DEF GrantedIsUsed, BudgetRespected, Used
<1>4. QED
  BY <1>1, <1>2, <1>3 DEF IInv

\* Every step keeps IInv.
LEMMA StepInvariant == IInv /\ [Next]_vars => IInv'
<1> SUFFICES ASSUME IInv, [Next]_vars PROVE IInv'
  OBVIOUS
<1> USE ConstantsAssumption
<1>0. TypeOK /\ BucketsNotAhead /\ CallsNotAhead /\ GrantedIsUsed /\ BudgetRespected
  BY DEF IInv
<1>1. CASE UNCHANGED vars
  <2>1. TypeOK' /\ BucketsNotAhead' /\ CallsNotAhead'
    BY <1>0, <1>1 DEF vars, tracker, clock, calls, TypeOK, BucketsNotAhead, CallsNotAhead
  <2>2. GrantedIsUsed' /\ BudgetRespected'
    BY <1>0, <1>1 DEF vars, tracker, clock, calls, GrantedIsUsed, BudgetRespected, Used
  <2>3. QED
    BY <2>1, <2>2 DEF IInv
<1>2. CASE Tick
  <2>1. TypeOK'
    BY <1>0, <1>2 DEF Tick, TypeOK, tracker, calls
  <2>2. minute' \in {minute, minute + 1} /\ minute \in Nat
    BY <1>0, <1>2 DEF Tick, TypeOK
  <2>3. BucketsNotAhead'
    BY <1>0, <1>2, <2>2 DEF Tick, TypeOK, tracker, BucketsNotAhead, Bucket
  <2>4. CallsNotAhead'
    BY <1>0, <1>2, <2>2 DEF Tick, TypeOK, calls, CallsNotAhead, Time
  <2>5. GrantedIsUsed' /\ BudgetRespected'
    <3>1. CASE minute' = minute /\ granted' = granted
      BY <1>0, <1>2, <3>1 DEF Tick, tracker, GrantedIsUsed, BudgetRespected, Used
    <3>2. CASE granted' = [k \in Keys |-> [l \in Limits |-> 0]]
      <4>1. \A k \in Keys : Used(k)' \in Nat
        BY <2>1 DEF TypeOK, Used, Bucket
      <4>2. QED
        BY <3>2, <4>1 DEF GrantedIsUsed, BudgetRespected
    <3>3. QED
      BY <1>2, <3>1, <3>2 DEF Tick
  <2>6. QED
    BY <2>1, <2>3, <2>4, <2>5 DEF IInv
<1>3. ASSUME NEW k \in Keys, NEW l \in Limits \cup {NoLimit}, ChangeLimit(k, l)
      PROVE  IInv'
  BY <1>0, <1>3 DEF ChangeLimit, tracker, clock, calls, IInv, TypeOK,
     BucketsNotAhead, CallsNotAhead, GrantedIsUsed, BudgetRespected, Used
<1>4. ASSUME NEW r \in Requests, NEW k \in Keys, Arrive(r, k)
      PROVE  IInv'
  <2>1. configured[k] \in Limits
    BY <1>0, <1>4 DEF Arrive, TypeOK
  <2>2. TypeOK'
    BY <1>0, <1>4, <2>1 DEF Arrive, tracker, clock, TypeOK
  <2>3. CallsNotAhead'
    BY <1>0, <1>4, <2>1 DEF Arrive, tracker, clock, TypeOK, CallsNotAhead
  <2>4. BucketsNotAhead' /\ GrantedIsUsed' /\ BudgetRespected'
    BY <1>0, <1>4 DEF Arrive, tracker, clock, BucketsNotAhead, GrantedIsUsed,
       BudgetRespected, Used
  <2>5. QED
    BY <2>2, <2>3, <2>4 DEF IInv
<1>5. ASSUME NEW r \in Requests, ArriveUnlimited(r)
      PROVE  IInv'
  <2>1. TypeOK' /\ CallsNotAhead'
    BY <1>0, <1>5 DEF ArriveUnlimited, tracker, clock, TypeOK, CallsNotAhead
  <2>2. BucketsNotAhead' /\ GrantedIsUsed' /\ BudgetRespected'
    BY <1>0, <1>5 DEF ArriveUnlimited, tracker, clock, BucketsNotAhead, GrantedIsUsed,
       BudgetRespected, Used
  <2>3. QED
    BY <2>1, <2>2 DEF IInv
<1>6. ASSUME NEW r \in Requests, ReadClock(r)
      PROVE  IInv'
  <2>1. TypeOK'
    BY <1>0, <1>6 DEF ReadClock, tracker, clock, TypeOK, Clock, Time
  <2>2. CallsNotAhead'
    BY <1>0, <1>6 DEF ReadClock, clock, TypeOK, CallsNotAhead, Clock, Time
  <2>3. BucketsNotAhead' /\ GrantedIsUsed' /\ BudgetRespected'
    BY <1>0, <1>6 DEF ReadClock, tracker, clock, BucketsNotAhead, GrantedIsUsed,
       BudgetRespected, Used
  <2>4. QED
    BY <2>1, <2>2, <2>3 DEF IInv
<1>7. ASSUME NEW r \in Requests, Record(r)
      PROVE  IInv'
  <2> DEFINE k == key[r]
             b == Counted(k, now[r])
             l == limit[r]
  <2>1. /\ k \in Keys /\ l \in Limits /\ l \in Int
        /\ DOMAIN buckets' \subseteq Keys
        /\ buckets' \in [DOMAIN buckets' -> Bucket]
        /\ \A x \in DOMAIN buckets' : buckets'[x].window <= minute
        /\ lastCleanup' \in Time
    BY <1>7, RecordEffect
  <2>2. /\ UNCHANGED <<minute, tick, configured, changes, key, limit, now>>
        /\ pc' = [pc EXCEPT ![r] = "done"]
        /\ answer' = [answer EXCEPT ![r] =
             IF Limited(b.count, l) THEN "demote" ELSE "keep"]
        /\ \/ granted' = granted
           \/ /\ granted' = [granted EXCEPT ![k][l] = @ + 1]
              /\ ~ Limited(b.count, l) /\ now[r].minute = minute
    BY <1>7 DEF Record, clock
  <2>3. \A x \in Keys : Used(x) \in Nat /\ Used(x)' >= Used(x)
    <3>1. \A x \in Keys : Used(x) \in Nat
      BY <1>0, UsedNat
    <3>2. /\ Used(k)' = Used(k) \/ Used(k)' = Used(k) + 1
          /\ \A x \in Keys \ {k} : Used(x)' = Used(x)
      BY <1>7, RecordUsed
    <3>3. \A x \in Keys : x = k => Used(x)' = Used(k)'
      BY <2>2
    <3>4. QED
      BY <3>1, <3>2, <3>3, <2>1
  <2>4. granted' \in [Keys -> [Limits -> Nat]]
    <3>1. granted \in [Keys -> [Limits -> Nat]]
      BY <1>0 DEF TypeOK
    <3>2. granted[k] \in [Limits -> Nat] /\ granted[k][l] + 1 \in Nat
      BY <3>1, <2>1
    <3>3. [granted[k] EXCEPT ![l] = @ + 1] \in [Limits -> Nat]
      BY <3>2
    <3>4. [granted EXCEPT ![k][l] = @ + 1] =
            [granted EXCEPT ![k] = [granted[k] EXCEPT ![l] = @ + 1]]
      OBVIOUS
    <3>5. [granted EXCEPT ![k] = [granted[k] EXCEPT ![l] = @ + 1]] \in [Keys -> [Limits -> Nat]]
      BY <3>1, <3>3
    <3>6. QED
      BY <2>2, <3>1, <3>4, <3>5
  <2>5. TypeOK'
    BY <1>0, <2>1, <2>2, <2>4 DEF TypeOK
  <2>6. BucketsNotAhead' /\ CallsNotAhead'
    BY <1>0, <2>1, <2>2 DEF BucketsNotAhead, CallsNotAhead, TypeOK
  <2>7. GrantedIsUsed' /\ BudgetRespected'
    <3>1. CASE granted' = granted
      <4>1. \A x \in Keys, m \in Limits : granted[x][m] \in Nat /\ granted[x][m] <= Used(x)
        BY <1>0 DEF TypeOK, GrantedIsUsed
      <4>2. GrantedIsUsed'
        <5> SUFFICES ASSUME NEW x \in Keys, NEW m \in Limits
                     PROVE  granted'[x][m] <= Used(x)'
          BY DEF GrantedIsUsed
        <5>1. Used(x) \in Nat /\ Used(x)' \in Nat /\ Used(x)' >= Used(x)
          BY <2>3, <2>5 DEF TypeOK, Used, Bucket
        <5>2. QED
          BY <3>1, <4>1, <5>1
      <4>3. BudgetRespected'
        BY <1>0, <3>1 DEF BudgetRespected
      <4>4. QED
        BY <4>2, <4>3
    <3>2. CASE /\ granted' = [granted EXCEPT ![k][l] = @ + 1]
               /\ ~ Limited(b.count, l) /\ now[r].minute = minute
      <4>1. b.window = minute
        BY <3>2, <1>7, RecordUsed
      <4>2. b.count = Used(k) + 1 /\ Used(k)' = Used(k) + 1
        BY <4>1, <1>7, RecordUsed
      <4>3. \A x \in Keys, m \in Limits :
              /\ granted[x][m] \in Nat
              /\ granted'[x][m] = IF x = k /\ m = l THEN granted[x][m] + 1 ELSE granted[x][m]
        BY <1>0, <3>2, <2>1 DEF TypeOK
      <4>4. granted[k][l] <= Used(k) /\ Used(k) \in Nat
        BY <1>0, <2>1, <2>3 DEF GrantedIsUsed
      <4>5. GrantedIsUsed'
        <5> SUFFICES ASSUME NEW x \in Keys, NEW m \in Limits
                     PROVE  granted'[x][m] <= Used(x)'
          BY DEF GrantedIsUsed
        <5>1. granted[x][m] <= Used(x)
          BY <1>0 DEF GrantedIsUsed
        <5>2. Used(x) \in Nat /\ Used(x)' \in Nat /\ Used(x)' >= Used(x)
          BY <2>3, <2>5 DEF TypeOK, Used, Bucket
        <5>3. x = k => Used(x)' = Used(x) + 1
          BY <4>2, <2>2
        <5>4. QED
          BY <4>3, <5>1, <5>2, <5>3
      <4>6. BudgetRespected'
        <5> SUFFICES ASSUME NEW x \in Keys, NEW m \in Limits, m > 0
                     PROVE  granted'[x][m] < m
          BY DEF BudgetRespected
        <5>1. granted[x][m] < m
          BY <1>0 DEF BudgetRespected
        <5>2. x = k /\ m = l => granted[k][l] + 1 < l
          BY <3>2, <4>2, <4>3, <4>4, <2>1 DEF Limited
        <5>3. QED
          BY <4>3, <5>1, <5>2
      <4>7. QED
        BY <4>5, <4>6
    <3>3. QED
      BY <2>2, <3>1, <3>2
  <2>8. QED
    BY <2>5, <2>6, <2>7 DEF IInv
<1>8. QED
  BY <1>1, <1>2, <1>3, <1>4, <1>5, <1>6, <1>7 DEF Next

\* The inductive invariant holds in every reachable state.
THEOREM InvariantHolds == Spec => []IInv
<1>1. Init => IInv
  BY InitInvariant
<1>2. IInv /\ [Next]_vars => IInv'
  BY StepInvariant
<1>3. QED
  BY <1>1, <1>2, PTL DEF Spec

\* Every variable keeps its type.
THEOREM TypeCorrect == Spec => []TypeOK
<1>1. IInv => TypeOK
  BY DEF IInv
<1>2. QED
  BY <1>1, InvariantHolds, PTL

\* Under a limit of l at most l - 1 calls of a key keep their priority in a
\* minute (RecordAndCheck), whatever the interleaving.
THEOREM BudgetAlwaysRespected == Spec => []BudgetRespected
<1>1. IInv => BudgetRespected
  BY DEF IInv
<1>2. QED
  BY <1>1, InvariantHolds, PTL

----------------------------------------------------------------------------
(* Refinement *)

LEMMA InitRefines == Init => Limiter!Init
BY DEF Init, Limiter!Init, Used, Stage

\* Every step is a step of the fixed-window counter or leaves it unchanged.
LEMMA StepRefines == IInv /\ [Next]_vars => [Limiter!Next]_Limiter!vars
<1> SUFFICES ASSUME IInv, [Next]_vars PROVE [Limiter!Next]_Limiter!vars
  OBVIOUS
<1> USE ConstantsAssumption
<1>0. TypeOK /\ BucketsNotAhead /\ CallsNotAhead
  BY DEF IInv
<1>a. ASSUME UNCHANGED <<buckets, minute>> PROVE [k \in Keys |-> Used(k)]' = [k \in Keys |-> Used(k)]
  BY <1>a DEF Used
<1>1. CASE UNCHANGED vars
  BY <1>1 DEF vars, tracker, clock, calls, Limiter!vars, Used, Stage
<1>2. CASE Tick
  <2>1. CASE minute' = minute
    <3>1. [k \in Keys |-> Used(k)]' = [k \in Keys |-> Used(k)]
      BY <1>a, <1>2, <2>1 DEF Tick, tracker
    <3>2. [r \in Requests |-> Stage(r)]' = [r \in Requests |-> Stage(r)]
      BY <1>2, <2>1 DEF Tick, calls, Stage
    <3>3. QED
      BY <1>2, <3>1, <3>2 DEF Tick, calls, Limiter!vars
  <2>2. CASE minute' = minute + 1
    <3>1. [k \in Keys |-> Used(k)]' = [k \in Keys |-> 0]
      <4>1. \A k \in DOMAIN buckets : buckets[k].window <= minute /\ buckets[k].window \in Nat
        BY <1>0 DEF TypeOK, BucketsNotAhead, Bucket
      <4>2. \A k \in Keys : Used(k)' = 0
        BY <1>0, <1>2, <2>2, <4>1 DEF Tick, tracker, Used, TypeOK
      <4>3. QED
        BY <4>2
    <3>2. [r \in Requests |-> Stage(r)]' = [r \in Requests |->
            IF [q \in Requests |-> Stage(q)][r] = "current" THEN "earlier"
            ELSE [q \in Requests |-> Stage(q)][r]]
      <4>1. \A r \in Requests : Stage(r)' =
              IF Stage(r) = "current" THEN "earlier" ELSE Stage(r)
        <5> SUFFICES ASSUME NEW r \in Requests
                     PROVE  Stage(r)' = IF Stage(r) = "current" THEN "earlier" ELSE Stage(r)
          OBVIOUS
        <5>1. /\ pc[r] \in {"new", "ready", "timed", "done"} /\ pc' = pc /\ now' = now
              /\ now[r].minute <= minute /\ now[r].minute \in Nat /\ minute \in Nat
          BY <1>0, <1>2 DEF Tick, calls, TypeOK, CallsNotAhead, Time
        <5>2. QED
          BY <5>1, <2>2 DEF Stage
      <4>2. QED
        BY <4>1
    <3>3. Limiter!NewMinute
      BY <1>2, <3>1, <3>2 DEF Tick, calls, Limiter!NewMinute
    <3>4. QED
      BY <3>3 DEF Limiter!Next
  <2>3. QED
    BY <1>2, <2>1, <2>2 DEF Tick
<1>3. ASSUME NEW k \in Keys, NEW l \in Limits \cup {NoLimit}, ChangeLimit(k, l)
      PROVE  [Limiter!Next]_Limiter!vars
  BY <1>3, <1>a DEF ChangeLimit, tracker, clock, calls, Limiter!vars, Stage
<1>4. ASSUME NEW r \in Requests, NEW k \in Keys, Arrive(r, k)
      PROVE  [Limiter!Next]_Limiter!vars
  <2>1. configured[k] \in Limits
    BY <1>0, <1>4 DEF Arrive, TypeOK
  <2>2. [x \in Keys |-> Used(x)]' = [x \in Keys |-> Used(x)]
    BY <1>a, <1>4 DEF Arrive, tracker, clock
  <2>3. [q \in Requests |-> Stage(q)]' = [[q \in Requests |-> Stage(q)] EXCEPT ![r] = "asked"]
    BY <1>0, <1>4 DEF Arrive, clock, Stage, TypeOK
  <2>4. Stage(r) = "idle"
    BY <1>4 DEF Arrive, Stage
  <2>5. Limiter!Ask(r, k, configured[k])
    BY <1>4, <2>2, <2>3, <2>4 DEF Arrive, Limiter!Ask
  <2>6. QED
    BY <2>1, <2>5 DEF Limiter!Next
<1>5. ASSUME NEW r \in Requests, ArriveUnlimited(r)
      PROVE  [Limiter!Next]_Limiter!vars
  <2>2. [x \in Keys |-> Used(x)]' = [x \in Keys |-> Used(x)]
    BY <1>a, <1>5 DEF ArriveUnlimited, tracker, clock
  <2>3. [q \in Requests |-> Stage(q)]' = [[q \in Requests |-> Stage(q)] EXCEPT ![r] = "answered"]
    BY <1>0, <1>5 DEF ArriveUnlimited, clock, Stage, TypeOK
  <2>4. Stage(r) = "idle"
    BY <1>5 DEF ArriveUnlimited, Stage
  <2>5. Limiter!Skip(r)
    BY <1>5, <2>2, <2>3, <2>4 DEF ArriveUnlimited, Limiter!Skip
  <2>6. QED
    BY <2>5 DEF Limiter!Next
<1>6. ASSUME NEW r \in Requests, ReadClock(r)
      PROVE  [Limiter!Next]_Limiter!vars
  <2>2. [x \in Keys |-> Used(x)]' = [x \in Keys |-> Used(x)]
    BY <1>a, <1>6 DEF ReadClock, tracker, clock
  <2>3. [q \in Requests |-> Stage(q)]' = [[q \in Requests |-> Stage(q)] EXCEPT ![r] = "current"]
    BY <1>0, <1>6 DEF ReadClock, clock, Clock, Stage, TypeOK
  <2>4. Stage(r) = "asked"
    BY <1>6 DEF ReadClock, Stage
  <2>5. Limiter!Begin(r)
    BY <1>6, <2>2, <2>3, <2>4 DEF ReadClock, Limiter!Begin
  <2>6. QED
    BY <2>5 DEF Limiter!Next
<1>7. ASSUME NEW r \in Requests, Record(r)
      PROVE  [Limiter!Next]_Limiter!vars
  <2> DEFINE k == key[r]
             b == Counted(k, now[r])
             U == [x \in Keys |-> Used(x)]
  <2>1. k \in Keys
    BY <1>7, RecordEffect
  <2>2. /\ UNCHANGED <<minute, key, limit, now>>
        /\ pc[r] = "timed" /\ pc' = [pc EXCEPT ![r] = "done"]
        /\ answer' = [answer EXCEPT ![r] =
             IF Limited(b.count, limit[r]) THEN "demote" ELSE "keep"]
    BY <1>7 DEF Record, clock
  <2>3. [q \in Requests |-> Stage(q)]' = [[q \in Requests |-> Stage(q)] EXCEPT ![r] = "answered"]
    BY <1>0, <2>2 DEF Stage, TypeOK
  <2>4. Stage(r) = IF now[r].minute = minute THEN "current" ELSE "earlier"
    BY <2>2 DEF Stage
  <2>5. \A x \in Keys \ {k} : Used(x)' = Used(x)
    BY <1>7, RecordUsed
  <2>6. CASE b.window = minute
    <3>1. b.count = Used(k) + 1 /\ Used(k)' = Used(k) + 1
      BY <1>7, <2>6, RecordUsed
    <3>2. U' = [U EXCEPT ![k] = @ + 1]
      <4>1. \A x \in Keys : Used(x)' = IF x = k THEN Used(k) + 1 ELSE Used(x)
        BY <3>1, <2>5, <2>2
      <4>2. QED
        BY <4>1, <2>1
    <3>3. answer' = [answer EXCEPT ![r] = Limiter!Verdict(limit[r], U[k] + 1)]
      BY <2>1, <2>2, <3>1 DEF Limited, Limiter!Verdict
    <3>4. Limiter!Count(r)
      BY <2>2, <2>3, <2>4, <3>2, <3>3 DEF Limiter!Count
    <3>5. QED
      BY <3>4 DEF Limiter!Next
  <2>7. CASE b.window # minute
    <3>1. now[r].minute # minute /\ Used(k)' = Used(k)
      BY <1>7, <2>7, RecordUsed
    <3>2. U' = U
      <4>1. \A x \in Keys : Used(x)' = Used(x)
        BY <3>1, <2>5, <2>2
      <4>2. QED
        BY <4>1
    <3>3. Limiter!CountLate(r)
      BY <2>2, <2>3, <2>4, <3>1, <3>2 DEF Limiter!CountLate
    <3>4. QED
      BY <3>3 DEF Limiter!Next
  <2>8. QED
    BY <2>6, <2>7
<1>8. QED
  BY <1>1, <1>2, <1>3, <1>4, <1>5, <1>6, <1>7 DEF Next

\* RequestTracker implements FixedWindow: buckets, lazy cleanup and calls
\* that wait for the lock are invisible to the callers.
THEOREM TrackerImplementsFixedWindow == Spec => ImplementsFixedWindow
<1>1. Init => Limiter!Init
  BY InitRefines
<1>2. IInv /\ [Next]_vars => [Limiter!Next]_Limiter!vars
  BY StepRefines
<1>3. QED
  BY <1>1, <1>2, InvariantHolds, PTL DEF Spec, ImplementsFixedWindow, Limiter!Spec

----------------------------------------------------------------------------
(* Memory *)

\* A call that has waited no more than a minute is of this minute or the last.
LEMMA WaitInMinutes ==
  ASSUME NEW d \in Nat, NEW a \in 0..LastTick, NEW b \in 0..LastTick,
         d * (LastTick + 1) + a - b <= LastTick + 1
  PROVE  d <= 1
<1> USE ConstantsAssumption
<1> SUFFICES ASSUME d >= 2 PROVE FALSE
  OBVIOUS
<1>1. PICK e \in Nat : d = e + 2
  <2>1. d - 2 \in Nat /\ d = (d - 2) + 2
    OBVIOUS
  <2>2. QED
    BY <2>1
<1>2. d * (LastTick + 1) = e * (LastTick + 1) + 2 * (LastTick + 1)
  BY <1>1
<1>3. e * (LastTick + 1) \in Nat
  BY <1>1
<1> DEFINE waited == e * (LastTick + 1)
<1> HIDE DEF waited
<1>4. QED
  BY <1>2, <1>3 DEF waited

\* The last tick of a minute and the first of the next are one tick apart.
LEMMA MinutePasses ==
  ASSUME NEW d \in Int, NEW last \in Nat, NEW t \in Int
  PROVE  (d + 1) * (last + 1) + 0 - t = d * (last + 1) + last - t + 1
<1>1. (d + 1) * (last + 1) = d * (last + 1) + (last + 1)
  OBVIOUS
<1>2. d * (last + 1) \in Int /\ (d + 1) * (last + 1) \in Int
  OBVIOUS
<1> DEFINE a == d * (last + 1)
           b == (d + 1) * (last + 1)
<1> HIDE DEF a, b
<1>3. a \in Int /\ b = a + (last + 1)
  BY <1>1, <1>2 DEF a, b
<1>4. b + 0 - t = a + last - t + 1
  BY <1>3
<1>5. QED
  BY <1>4 DEF a, b

\* The clock of the waiting calls after a tick.
LEMMA TickWaits ==
  ASSUME IInv, Tick, NEW r \in Requests, pc[r] = "timed"
  PROVE  Waited(r)' = Waited(r) + 1
<1>0. /\ now[r].minute \in Int /\ now[r].tick \in Int /\ minute \in Int /\ tick \in 0..LastTick
      /\ LastTick \in Nat
  BY ConstantsAssumption DEF IInv, TypeOK, Time
<1>1. now' = now
  BY DEF Tick, calls
<1>2. CASE tick < LastTick
  <2> DEFINE whole == (minute - now[r].minute) * (LastTick + 1)
  <2>1. whole \in Int
    BY <1>0
  <2>2. tick' = tick + 1 /\ minute' = minute
    BY <1>2 DEF Tick
  <2>3. Waited(r) = whole + tick - now[r].tick /\ Waited(r)' = whole + (tick + 1) - now[r].tick
    BY <1>1, <2>2 DEF Waited
  <2> HIDE DEF whole
  <2>4. QED
    BY <1>0, <2>1, <2>3
<1>3. CASE ~ tick < LastTick
  <2>1. tick = LastTick
    BY <1>0, <1>3
  <2>2. tick' = 0 /\ minute' = minute + 1
    BY <1>3 DEF Tick
  <2> DEFINE d == minute - now[r].minute
  <2>3. d \in Int /\ minute' - now[r].minute = d + 1
    BY <1>0, <2>2
  <2>4. Waited(r) = d * (LastTick + 1) + LastTick - now[r].tick
    BY <2>1 DEF Waited
  <2>5. Waited(r)' = (minute' - now[r].minute) * (LastTick + 1) + 0 - now[r].tick
    BY <1>1, <2>2 DEF Waited
  <2> HIDE DEF d
  <2>6. Waited(r)' = (d + 1) * (LastTick + 1) + 0 - now[r].tick
    BY <2>3, <2>5
  <2>7. QED
    BY <1>0, <2>3, <2>4, <2>6, MinutePasses
<1>4. QED
  BY <1>2, <1>3

\* What a call stores is not stale at the last cleanup.
LEMMA StoredFresh ==
  ASSUME MaxStall <= LastTick + 1, IInv, NothingTooLate, NEW r \in Requests, pc[r] = "timed",
         NEW k \in DOMAIN Stored(key[r], now[r])
  PROVE  ~ Stale(Stored(key[r], now[r])[k], lastCleanup)
<1> USE ConstantsAssumption
<1> DEFINE t == now[r]
<1>1. /\ t \in Time /\ t.minute <= minute /\ minute \in Nat /\ tick \in 0..LastTick
      /\ lastCleanup \in Time /\ lastCleanup.minute <= minute
      /\ minute - t.minute \in Nat
  BY DEF IInv, TypeOK, CallsNotAhead, NothingTooLate, Time
<1>2. (minute - t.minute) * (LastTick + 1) + tick - t.tick <= LastTick + 1
  <2>1. Waited(r) <= MaxStall /\ MaxStall \in Nat /\ LastTick \in Nat
    BY DEF NothingTooLate
  <2>2. (minute - t.minute) * (LastTick + 1) \in Int
    BY <1>1
  <2>3. Waited(r) \in Int
    BY <1>1, <2>2 DEF Waited, Time
  <2>4. Waited(r) <= LastTick + 1
    BY <2>1, <2>3
  <2>5. QED
    BY <2>4 DEF Waited
<1>3. minute - t.minute <= 1
  BY <1>1, <1>2, WaitInMinutes DEF Time
<1>4. CASE k = key[r]
  <2>1. Stored(key[r], t)[k] = Counted(key[r], t)
    BY <1>4 DEF Stored
  <2>2. Counted(key[r], t).window >= t.minute /\ Counted(key[r], t).window \in Nat
    BY <1>1 DEF Counted, IInv, TypeOK, Bucket, Time
  <2>3. QED
    BY <1>1, <1>3, <2>1, <2>2 DEF Stale, Time
<1>5. CASE k # key[r]
  BY <1>5 DEF Stored, NothingTooLate, BucketsExpire
<1>6. QED
  BY <1>4, <1>5

LEMMA NothingTooLateStep ==
  ASSUME MaxStall <= LastTick + 1, IInv, NothingTooLate, [Next]_vars
  PROVE  NothingTooLate'
<1> USE ConstantsAssumption DEF tracker, clock, calls
<1>1. CASE Tick
  <2>1. ASSUME NEW r \in Requests, pc'[r] = "timed" PROVE Waited(r)' <= MaxStall
    <3>1. pc[r] = "timed" /\ Waited(r) < MaxStall
      BY <1>1, <2>1 DEF Tick, StallAllowed
    <3>2. Waited(r)' = Waited(r) + 1
      BY <1>1, <3>1, TickWaits
    <3>3. (minute - now[r].minute) * (LastTick + 1) \in Int
      BY DEF IInv, TypeOK, Time
    <3>4. Waited(r) \in Int
      BY <3>3 DEF Waited, IInv, TypeOK, Time
    <3>5. QED
      BY <3>1, <3>2, <3>4
  <2>2. lastCleanup'.minute <= minute'
    BY <1>1 DEF Tick, NothingTooLate, IInv, TypeOK, Time
  <2>3. BucketsExpire'
    BY <1>1 DEF Tick, NothingTooLate, BucketsExpire, Stale
  <2>4. QED
    BY <2>1, <2>2, <2>3 DEF NothingTooLate
<1>2. ASSUME NEW r \in Requests, ReadClock(r) PROVE NothingTooLate'
  <2>1. Waited(r)' = 0
    BY <1>2 DEF ReadClock, Waited, Clock, IInv, TypeOK
  <2>2. ASSUME NEW s \in Requests, s # r, pc'[s] = "timed"
        PROVE  pc[s] = "timed" /\ Waited(s)' = Waited(s)
    BY <1>2, <2>2 DEF ReadClock, Waited, IInv, TypeOK
  <2>3. ASSUME NEW s \in Requests, pc'[s] = "timed" PROVE Waited(s)' <= MaxStall
    BY <2>1, <2>2, <2>3 DEF NothingTooLate
  <2>4. QED
    BY <1>2, <2>3 DEF ReadClock, NothingTooLate, BucketsExpire, Stale
<1>3. ASSUME NEW r \in Requests, Record(r) PROVE NothingTooLate'
  <2>1. pc[r] = "timed"
    BY <1>3 DEF Record
  <2>2. ASSUME NEW s \in Requests, pc'[s] = "timed" PROVE Waited(s)' <= MaxStall
    <3>1. pc[s] = "timed" /\ Waited(s)' = Waited(s)
      BY <1>3, <2>2 DEF Record, Waited, IInv, TypeOK
    <3>2. QED
      BY <3>1 DEF NothingTooLate
  <2>3. lastCleanup'.minute <= minute'
    BY <1>3 DEF Record, NothingTooLate, IInv, CallsNotAhead
  <2>4. CASE MinutesApart(lastCleanup, now[r], 1)
    BY <1>3, <2>2, <2>3, <2>4 DEF Record, Cleaned, NothingTooLate, BucketsExpire
  <2>5. CASE ~ MinutesApart(lastCleanup, now[r], 1)
    <3>1. buckets' = Stored(key[r], now[r]) /\ lastCleanup' = lastCleanup
      BY <1>3, <2>5 DEF Record
    <3>2. BucketsExpire'
      BY <2>1, <3>1, StoredFresh DEF BucketsExpire
    <3>3. QED
      BY <2>2, <2>3, <3>2 DEF NothingTooLate
  <2>6. QED
    BY <2>4, <2>5
<1>4. ASSUME NEW k \in Keys, NEW l \in Limits \cup {NoLimit}, ChangeLimit(k, l)
      PROVE  NothingTooLate'
  BY <1>4 DEF ChangeLimit, NothingTooLate, Waited, BucketsExpire, Stale
<1>5. ASSUME NEW r \in Requests, ArriveUnlimited(r) \/ \E k \in Keys : Arrive(r, k)
      PROVE  NothingTooLate'
  <2>1. UNCHANGED <<buckets, lastCleanup, minute, tick, now>>
    BY <1>5 DEF Arrive, ArriveUnlimited
  <2>2. \A s \in Requests : pc'[s] = "timed" => pc[s] = "timed"
    BY <1>5 DEF Arrive, ArriveUnlimited, IInv, TypeOK
  <2>3. QED
    BY <2>1, <2>2 DEF NothingTooLate, Waited, BucketsExpire, Stale
<1>6. CASE UNCHANGED vars
  BY <1>6 DEF vars, NothingTooLate, Waited, BucketsExpire, Stale
<1>7. QED
  BY <1>1, <1>2, <1>3, <1>4, <1>5, <1>6 DEF Next

\* While no call waits more than a minute between the clock and the lock, the
\* tracker keeps no bucket that was stale at the last cleanup: neither one that
\* the cleanup has missed nor one that a late call has created since.
THEOREM BucketsAlwaysExpire ==
  ASSUME MaxStall <= LastTick + 1
  PROVE  Spec => []BucketsExpire
<1>1. Init => NothingTooLate
  BY ConstantsAssumption DEF Init, NothingTooLate, BucketsExpire
<1>2. IInv /\ NothingTooLate /\ [Next]_vars => NothingTooLate'
  BY NothingTooLateStep
<1>3. NothingTooLate => BucketsExpire
  BY DEF NothingTooLate
<1>4. QED
  BY <1>1, <1>2, <1>3, InvariantHolds, PTL DEF Spec

=============================================================================
