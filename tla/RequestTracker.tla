---------------------------- MODULE RequestTracker ----------------------------
(***************************************************************************)
(* The per-key request counter of ratelimit/tracker.go and the caller in   *)
(* openaiapi/plan.go that demotes the priority of a request.               *)
(*                                                                         *)
(* The tracker reads the clock before it takes its lock, so calls may be   *)
(* recorded in another order than their times, and a call may be recorded  *)
(* after its minute is over.  Buckets that have not been used for two      *)
(* minutes are deleted lazily, by a call that finds the last cleanup a     *)
(* minute old.                                                             *)
(*                                                                         *)
(* A time is a minute and a tick within it; the window of a bucket is the  *)
(* minute it starts at (now.Truncate(time.Minute)).                        *)
(***************************************************************************)
EXTENDS Integers, FiniteSets

CONSTANTS
  Requests,   \* calls; each one is made once
  Keys,       \* pairs of an API key and a model: bucketKey is injective on them
  NoKey,      \* the key of a call that has not arrived
  Limits,     \* max_requests_per_minute, 0 and negative values included
  NoLimit,    \* the model has no rate_limit section
  LastTick,   \* ticks of a minute are 0..LastTick
  MaxMinute,  \* bound: the run ends with this minute
  MaxStall,   \* bound: ticks a call may wait between the clock and the lock
  MaxChanges  \* bound: configuration changes

ASSUME ConstantsAssumption ==
  /\ Limits \subseteq Int
  /\ NoLimit \notin Limits /\ NoKey \notin Keys
  /\ LastTick \in Nat /\ MaxMinute \in Nat
  /\ MaxStall \in Nat /\ MaxChanges \in Nat

VARIABLES
  buckets,      \* partial function from Keys to [count, window]
  lastCleanup,
  minute, tick, \* the clock
  configured,   \* the limit in force for each key's model
  changes,
  pc,           \* "new", "ready", "timed" or "done"
  key, limit, now, answer,  \* locals of the calls
  granted       \* history: calls of this minute that kept their priority, by
                \* key and limit

tracker == <<buckets, lastCleanup>>
clock   == <<minute, tick>>
calls   == <<pc, key, limit, now, answer>>
vars    == <<tracker, clock, configured, changes, calls, granted>>

Bucket == [count : Nat \ {0}, window : Nat]
Time   == [minute : Nat, tick : 0..LastTick]
Clock  == [minute |-> minute, tick |-> tick]

\* The type invariant: a stored bucket has counted a call.
TypeOK ==
  /\ DOMAIN buckets \subseteq Keys
  /\ buckets \in [DOMAIN buckets -> Bucket]
  /\ lastCleanup \in Time
  /\ minute \in Nat /\ tick \in 0..LastTick
  /\ configured \in [Keys -> Limits \cup {NoLimit}] /\ changes \in Nat
  /\ pc \in [Requests -> {"new", "ready", "timed", "done"}]
  /\ key \in [Requests -> Keys \cup {NoKey}]
  /\ limit \in [Requests -> Limits \cup {0}]
  /\ now \in [Requests -> Time]
  /\ answer \in [Requests -> {"none", "keep", "demote"}]
  /\ granted \in [Keys -> [Limits -> Nat]]

\* At least n minutes lie between time s and time t: t.Sub(s) >= n minutes.
MinutesApart(s, t, n) ==
  \/ t.minute - s.minute > n
  \/ t.minute - s.minute = n /\ t.tick >= s.tick

\* b.windowStart.Before(now - 2 min)
Stale(b, t) ==
  \/ b.window < t.minute - 2
  \/ b.window = t.minute - 2 /\ t.tick > 0

Init ==
  /\ buckets = [k \in {} |-> 0]
  /\ minute = 0 /\ tick = 0
  /\ lastCleanup = [minute |-> 0, tick |-> 0]
  /\ configured \in [Keys -> Limits \cup {NoLimit}] /\ changes = 0
  /\ pc = [r \in Requests |-> "new"]
  /\ key = [r \in Requests |-> NoKey]
  /\ limit = [r \in Requests |-> 0]
  /\ now = [r \in Requests |-> [minute |-> 0, tick |-> 0]]
  /\ answer = [r \in Requests |-> "none"]
  /\ granted = [k \in Keys |-> [l \in Limits |-> 0]]

----------------------------------------------------------------------------
(* The environment *)

\* The ticks that call r has waited since it read the clock.
Waited(r) == (minute - now[r].minute) * (LastTick + 1) + tick - now[r].tick

\* No waiting call has exhausted its stall.
StallAllowed == \A r \in Requests : pc[r] = "timed" => Waited(r) < MaxStall

Tick ==
  /\ StallAllowed
  /\ IF tick < LastTick
       THEN tick' = tick + 1 /\ UNCHANGED <<minute, granted>>
       ELSE /\ minute < MaxMinute
            /\ tick' = 0 /\ minute' = minute + 1
            /\ granted' = [k \in Keys |-> [l \in Limits |-> 0]]
  /\ UNCHANGED <<tracker, configured, changes, calls>>

\* The sync worker applies another configuration.
ChangeLimit(k, l) ==
  /\ changes < MaxChanges /\ configured[k] # l
  /\ configured' = [configured EXCEPT ![k] = l]
  /\ changes' = changes + 1
  /\ UNCHANGED <<tracker, clock, calls, granted>>

----------------------------------------------------------------------------
(* shouldDemotePriority and RecordAndCheck *)

\* The model is known and has a limit: GetRateLimitConfig returns it.
Arrive(r, k) ==
  /\ pc[r] = "new" /\ configured[k] # NoLimit
  /\ pc' = [pc EXCEPT ![r] = "ready"]
  /\ key' = [key EXCEPT ![r] = k]
  /\ limit' = [limit EXCEPT ![r] = configured[k]]
  /\ UNCHANGED <<tracker, clock, configured, changes, now, answer, granted>>

\* The call is not recorded: no API key, no model, or no limit for the model.
ArriveUnlimited(r) ==
  /\ pc[r] = "new"
  /\ pc' = [pc EXCEPT ![r] = "done"]
  /\ answer' = [answer EXCEPT ![r] = "keep"]
  /\ UNCHANGED <<tracker, clock, configured, changes, key, limit, now, granted>>

\* now := t.nowFunc(), before the lock.
ReadClock(r) ==
  /\ pc[r] = "ready"
  /\ pc' = [pc EXCEPT ![r] = "timed"]
  /\ now' = [now EXCEPT ![r] = Clock]
  /\ UNCHANGED <<tracker, clock, configured, changes, key, limit, answer, granted>>

\* Mutant of Counted: a new bucket has not counted the call that creates it.
CountedFromZero(k, t) ==
  IF k \notin DOMAIN buckets THEN [count |-> 0, window |-> t.minute]
  ELSE IF buckets[k].window < t.minute THEN [count |-> 1, window |-> t.minute]
  ELSE [count |-> buckets[k].count + 1, window |-> buckets[k].window]

\* Mutant of Counted: a late call resets the window too.
CountedRewinding(k, t) ==
  IF k \notin DOMAIN buckets \/ buckets[k].window # t.minute
    THEN [count |-> 1, window |-> t.minute]
    ELSE [count |-> buckets[k].count + 1, window |-> buckets[k].window]

\* The bucket of key k after it has counted a call of time t.
Counted(k, t) ==
  IF k \notin DOMAIN buckets \/ buckets[k].window < t.minute
    THEN [count |-> 1, window |-> t.minute]
    ELSE [count |-> buckets[k].count + 1, window |-> buckets[k].window]

Stored(k, t) ==
  [x \in DOMAIN buckets \cup {k} |-> IF x = k THEN Counted(k, t) ELSE buckets[x]]

\* Mutant of Cleaned: the comparison is the wrong way round.
CleanedBackwards(table, t) ==
  [x \in {y \in DOMAIN table : Stale(table[y], t)} |-> table[x]]

\* The map without its stale entries, the caller's own bucket included.
Cleaned(table, t) ==
  [x \in {y \in DOMAIN table : ~ Stale(table[y], t)} |-> table[x]]

\* Mutant of Limited: one call more.
LimitedBeyond(count, l) == l > 0 /\ count > l

Limited(count, l) == l > 0 /\ count >= l

\* The section under the lock.
Record(r) ==
  LET k == key[r]
      t == now[r]
      demoted == Limited(Counted(k, t).count, limit[r])
  IN
  /\ pc[r] = "timed"
  /\ IF MinutesApart(lastCleanup, t, 1)
       THEN buckets' = Cleaned(Stored(k, t), t) /\ lastCleanup' = t
       ELSE buckets' = Stored(k, t) /\ UNCHANGED lastCleanup
  /\ answer' = [answer EXCEPT ![r] = IF demoted THEN "demote" ELSE "keep"]
  /\ granted' = IF demoted \/ t.minute # minute THEN granted
                ELSE [granted EXCEPT ![k][limit[r]] = @ + 1]
  /\ pc' = [pc EXCEPT ![r] = "done"]
  /\ UNCHANGED <<clock, configured, changes, key, limit, now>>

Next ==
  \/ Tick
  \/ \E k \in Keys, l \in Limits \cup {NoLimit} : ChangeLimit(k, l)
  \/ \E r \in Requests :
       \/ \E k \in Keys : Arrive(r, k)
       \/ ArriveUnlimited(r)
       \/ ReadClock(r)
       \/ Record(r)

Spec == Init /\ [][Next]_vars

----------------------------------------------------------------------------
(* Properties *)

\* Calls counted in the present minute.
Used(k) ==
  IF k \in DOMAIN buckets /\ buckets[k].window = minute THEN buckets[k].count ELSE 0

Stage(r) ==
  CASE pc[r] = "new"   -> "idle"
    [] pc[r] = "ready" -> "asked"
    [] pc[r] = "timed" -> IF now[r].minute = minute THEN "current" ELSE "earlier"
    [] pc[r] = "done"  -> "answered"

Limiter == INSTANCE FixedWindow WITH
  used <- [k \in Keys |-> Used(k)],
  stage <- [r \in Requests |-> Stage(r)]

\* Buckets, lazy cleanup and late calls are invisible: every caller is
\* answered as by a counter per key and minute.  In particular the cleanup
\* never deletes the bucket of the present minute, and a late call neither
\* resets nor rewinds it (RecordAndCheck, tracker.go:52-90).
ImplementsFixedWindow == Limiter!Spec

\* Under a limit of l, at most l - 1 calls of a key keep their priority in
\* one minute, however calls of other limits, late calls and cleanups are
\* interleaved with them (tracker.go:63-78, 86-89).
BudgetRespected ==
  \A k \in Keys, l \in Limits : l > 0 => granted[k][l] < l

\* Memory: the tracker keeps no bucket that was stale at the last cleanup,
\* not even one that a delayed call has created since (tracker.go:80-84,
\* 94-101).  Holds as long as a call waits no more than a minute for the lock.
BucketsExpire ==
  \A k \in DOMAIN buckets : ~ Stale(buckets[k], lastCleanup)

\* The inductive strengthening of the invariants above.
BucketsNotAhead ==
  \A k \in DOMAIN buckets : buckets[k].window <= minute

CallsNotAhead ==
  \A r \in Requests :
    /\ now[r].minute <= minute
    /\ pc[r] \in {"ready", "timed"} => key[r] \in Keys /\ limit[r] \in Limits

GrantedIsUsed ==
  \A k \in Keys, l \in Limits : granted[k][l] <= Used(k)

IInv == TypeOK /\ BucketsNotAhead /\ CallsNotAhead /\ GrantedIsUsed /\ BudgetRespected

\* The strengthening of BucketsExpire: how late a call may come, and that no
\* cleanup is ahead of the clock.
NothingTooLate ==
  /\ \A r \in Requests : pc[r] = "timed" => Waited(r) <= MaxStall
  /\ lastCleanup.minute <= minute
  /\ BucketsExpire

=============================================================================
