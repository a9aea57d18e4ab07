----------------------------- MODULE FixedWindow -----------------------------
(***************************************************************************)
(* What the rate limiter promises: every key has a budget per clock        *)
(* minute, and a call is told whether it exhausts the budget of its minute. *)
(* There are no buckets and no cleanup here, only the number of calls       *)
(* counted in the present minute.  A call whose minute ended while it was  *)
(* waiting for the tracker's lock is counted in the present minute or not  *)
(* at all.  RequestTracker implements this specification.                  *)
(***************************************************************************)
EXTENDS Integers

CONSTANTS Requests, Keys, Limits, NoKey

VARIABLES
  used,   \* calls counted in this minute, by key
  stage,  \* "idle", "asked", "current", "earlier" or "answered"
  key,    \* the key of each call
  limit,  \* the budget that applies to it
  answer  \* "none", "keep" or "demote"

vars == <<used, stage, key, limit, answer>>

\* The call that is the count-th of its minute.
Verdict(l, count) == IF l > 0 /\ count >= l THEN "demote" ELSE "keep"

Init ==
  /\ used = [k \in Keys |-> 0]
  /\ stage = [r \in Requests |-> "idle"]
  /\ key = [r \in Requests |-> NoKey]
  /\ limit = [r \in Requests |-> 0]
  /\ answer = [r \in Requests |-> "none"]

\* A call arrives and finds its budget.
Ask(r, k, l) ==
  /\ stage[r] = "idle"
  /\ stage' = [stage EXCEPT ![r] = "asked"]
  /\ key' = [key EXCEPT ![r] = k]
  /\ limit' = [limit EXCEPT ![r] = l]
  /\ UNCHANGED <<used, answer>>

\* A call without a key, or for a model without a budget, keeps its priority.
Skip(r) ==
  /\ stage[r] = "idle"
  /\ stage' = [stage EXCEPT ![r] = "answered"]
  /\ answer' = [answer EXCEPT ![r] = "keep"]
  /\ UNCHANGED <<used, key, limit>>

\* The call belongs to the present minute.
Begin(r) ==
  /\ stage[r] = "asked"
  /\ stage' = [stage EXCEPT ![r] = "current"]
  /\ UNCHANGED <<used, key, limit, answer>>

Count(r) ==
  /\ stage[r] \in {"current", "earlier"}
  /\ used' = [used EXCEPT ![key[r]] = @ + 1]
  /\ stage' = [stage EXCEPT ![r] = "answered"]
  /\ answer' = [answer EXCEPT ![r] = Verdict(limit[r], used[key[r]] + 1)]
  /\ UNCHANGED <<key, limit>>

\* A late call may be weighed against a minute that is over.
CountLate(r) ==
  /\ stage[r] = "earlier"
  /\ stage' = [stage EXCEPT ![r] = "answered"]
  /\ \E v \in {"keep", "demote"} : answer' = [answer EXCEPT ![r] = v]
  /\ UNCHANGED <<used, key, limit>>

NewMinute ==
  /\ used' = [k \in Keys |-> 0]
  /\ stage' = [r \in Requests |->
       IF stage[r] = "current" THEN "earlier" ELSE stage[r]]
  /\ UNCHANGED <<key, limit, answer>>

Next ==
  \/ NewMinute
  \/ \E r \in Requests :
       \/ \E k \in Keys, l \in Limits : Ask(r, k, l)
       \/ Skip(r) \/ Begin(r) \/ Count(r) \/ CountLate(r)

Spec == Init /\ [][Next]_vars

=============================================================================
