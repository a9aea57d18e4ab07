----------------------- MODULE BillingCollectorProofs -----------------------
(***************************************************************************)
(* Proofs about BillingCollector, for every set of requests: no event is   *)
(* duplicated, none vanishes but with a failed submission, and a shutdown  *)
(* leaves behind only events of requests that outlived the draining.       *)
(***************************************************************************)
EXTENDS BillingCollector, TLAPS

LEMMA InitInvariant == Init => IInv
<1> SUFFICES ASSUME Init PROVE IInv
  OBVIOUS
<1> USE ModeAssumption DEF Init
<1>1. TypeOK
  BY DEF TypeOK
<1>2. Placement
  BY DEF Placement
<1>3. Phases
  BY DEF Phases
<1>4. QED
  BY <1>1, <1>2, <1>3 DEF IInv

\* A step of a request keeps the invariant.
LEMMA RequestSteps ==
  ASSUME IInv, NEW r \in Requests, Arrive(r) \/ AddEvent(r) \/ End(r) \/ Disconnect(r)
  PROVE  IInv'
<1> USE DEF collector, history, ending, InProgress, Running
<1>0. TypeOK /\ Placement /\ Phases
  BY DEF IInv
<1>1. CASE Arrive(r)
  <2>1. TypeOK'
    BY <1>0, <1>1 DEF Arrive, TypeOK
  <2>2. Placement'
    BY <1>0, <1>1 DEF Arrive, TypeOK, Placement
  <2>3. Phases'
    BY <1>0, <1>1 DEF Arrive, TypeOK, Phases
  <2>4. QED
    BY <2>1, <2>2, <2>3 DEF IInv
<1>2. CASE AddEvent(r)
  <2>1. TypeOK'
    BY <1>0, <1>2 DEF AddEvent, TypeOK
  <2>2. Placement'
    BY <1>0, <1>2 DEF AddEvent, TypeOK, Placement
  <2>3. Phases'
    <3>1. quit = "closed" => r \in outlived
      BY <1>0, <1>2 DEF AddEvent, Phases
    <3>2. QED
      BY <1>0, <1>2, <3>1 DEF AddEvent, TypeOK, Phases
  <2>4. QED
    BY <2>1, <2>2, <2>3 DEF IInv
<1>3. CASE End(r)
  <2>1. TypeOK'
    BY <1>0, <1>3 DEF End, TypeOK
  <2>2. Placement'
    BY <1>0, <1>3 DEF End, TypeOK, Placement
  <2>3. Phases'
    BY <1>0, <1>3 DEF End, TypeOK, Phases
  <2>4. QED
    BY <2>1, <2>2, <2>3 DEF IInv
<1>4. CASE Disconnect(r)
  <2>1. TypeOK'
    BY <1>0, <1>4 DEF Disconnect, TypeOK
  <2>2. Placement'
    BY <1>0, <1>4 DEF Disconnect, TypeOK, Placement
  <2>3. Phases'
    BY <1>0, <1>4 DEF Disconnect, TypeOK, Phases
  <2>4. QED
    BY <2>1, <2>2, <2>3 DEF IInv
<1>5. QED
  BY <1>1, <1>2, <1>3, <1>4

\* A step of the sender keeps the invariant.
LEMMA SenderSteps ==
  ASSUME IInv, TickerFires \/ OnTick \/ OnQuit \/ Submit \/ SubmitFails
  PROVE  IInv'
<1> USE DEF collector, history, ending, InProgress, Running
<1>0. TypeOK /\ Placement /\ Phases
  BY DEF IInv
<1>1. CASE TickerFires
  BY <1>0, <1>1 DEF TickerFires, TypeOK, Placement, Phases, IInv
<1>2. CASE OnTick
  <2>1. TypeOK'
    BY <1>0, <1>2 DEF OnTick, TakeBatch, TypeOK
  <2>2. Placement'
    BY <1>0, <1>2 DEF OnTick, TakeBatch, TypeOK, Placement, Phases
  <2>3. Phases'
    BY <1>0, <1>2 DEF OnTick, TakeBatch, TypeOK, Phases
  <2>4. QED
    BY <2>1, <2>2, <2>3 DEF IInv
<1>3. CASE OnQuit
  <2>1. TypeOK'
    BY <1>0, <1>3 DEF OnQuit, TakeBatch, TypeOK
  <2>2. Placement'
    BY <1>0, <1>3 DEF OnQuit, TakeBatch, TypeOK, Placement, Phases
  <2>3. Phases'
    BY <1>0, <1>3 DEF OnQuit, TakeBatch, TypeOK, Phases
  <2>4. QED
    BY <2>1, <2>2, <2>3 DEF IInv
<1>4. CASE Submit
  <2>1. \A r \in Requests : submitted'[r] = IF r \in batch THEN 1 ELSE submitted[r]
    BY <1>0, <1>4 DEF Submit, TypeOK, Placement
  <2>2. TypeOK'
    <3>1. submitted' = [r \in Requests |-> submitted'[r]]
      BY <1>4 DEF Submit
    <3>2. \A r \in Requests : submitted'[r] \in Nat
      BY <1>0, <2>1 DEF TypeOK
    <3>3. submitted' \in [Requests -> Nat]
      BY <3>1, <3>2
    <3>4. QED
      BY <1>0, <1>4, <3>3 DEF Submit, BatchDone, TypeOK
  <2>3. Placement'
    BY <1>0, <1>4, <2>1 DEF Submit, BatchDone, TypeOK, Placement
  <2>4. Phases'
    BY <1>0, <1>4 DEF Submit, BatchDone, TypeOK, Phases
  <2>5. QED
    BY <2>2, <2>3, <2>4 DEF IInv
<1>5. CASE SubmitFails
  <2>1. TypeOK'
    BY <1>0, <1>5 DEF SubmitFails, BatchDone, TypeOK
  <2>2. Placement'
    BY <1>0, <1>5 DEF SubmitFails, BatchDone, TypeOK, Placement
  <2>3. Phases'
    BY <1>0, <1>5 DEF SubmitFails, BatchDone, TypeOK, Phases
  <2>4. QED
    BY <2>1, <2>2, <2>3 DEF IInv
<1>6. QED
  BY <1>1, <1>2, <1>3, <1>4, <1>5

\* A step of the shutdown keeps the invariant.
LEMMA ShutdownSteps ==
  ASSUME IInv, Signal \/ Drained \/ DrainTimesOut \/ StopReturns \/ Exit
  PROVE  IInv'
<1> USE DEF collector, history, ending, InProgress
<1>0. TypeOK /\ Placement /\ Phases
  BY DEF IInv
<1>1. CASE Signal
  BY <1>0, <1>1 DEF Signal, TypeOK, Placement, Phases, IInv
<1>2. ASSUME NEW how \in {"clean", "forced"}, main = "draining", CloseQuit(how)
      PROVE  IInv'
  <2>1. TypeOK'
    BY <1>0, <1>2 DEF CloseQuit, TypeOK
  <2>2. Placement'
    BY <1>0, <1>2 DEF CloseQuit, TypeOK, Placement
  <2>3. Phases'
    BY <1>0, <1>2 DEF CloseQuit, TypeOK, Phases
  <2>4. QED
    BY <2>1, <2>2, <2>3 DEF IInv
<1>3. CASE Drained \/ DrainTimesOut
  BY <1>2, <1>3 DEF Drained, DrainTimesOut
<1>4. CASE StopReturns
  BY <1>0, <1>4 DEF StopReturns, TypeOK, Placement, Phases, IInv
<1>5. CASE Exit
  BY <1>0, <1>5 DEF Exit, TypeOK, Placement, Phases, IInv
<1>6. QED
  BY <1>1, <1>3, <1>4, <1>5

\* The inductive invariant holds in every reachable state.
THEOREM InvariantHolds == Spec => []IInv
<1>1. Init => IInv
  BY InitInvariant
<1>2. IInv /\ [Next]_vars => IInv'
  <2>1. ASSUME IInv, UNCHANGED vars PROVE IInv'
    BY <2>1 DEF vars, collector, history, ending, IInv, TypeOK, Placement, Phases, InProgress
  <2>2. ASSUME IInv, Next PROVE IInv'
    BY <2>2, RequestSteps, SenderSteps, ShutdownSteps DEF Next
  <2>3. QED
    BY <2>1, <2>2
<1>3. QED
  BY <1>1, <1>2, PTL DEF Spec

\* Every variable keeps its type.
THEOREM TypeCorrect == Spec => []TypeOK
<1>1. IInv => TypeOK
  BY DEF IInv
<1>2. QED
  BY <1>1, InvariantHolds, PTL

\* An added event is queued, under way, submitted once or lost with a failed
\* submission, and never two of these (AddEvent, sendBatch).
THEOREM EventsConserved == Spec => []Conserved
<1>1. IInv => Conserved
  <2> SUFFICES ASSUME IInv, NEW r \in Requests
               PROVE  /\ submitted[r] <= 1
                      /\ IF event[r] = "added" THEN \E p \in Places(r) : Places(r) = {p}
                                               ELSE Places(r) = {}
    BY DEF Conserved
  <2>1. /\ submitted[r] \in {0, 1}
        /\ r \in queue => r \notin batch /\ r \notin lost /\ submitted[r] = 0
        /\ r \in batch => r \notin lost /\ submitted[r] = 0
        /\ r \in lost => submitted[r] = 0
        /\ event[r] = "added" <=>
             (r \in queue \/ r \in batch \/ r \in lost \/ submitted[r] = 1)
    BY DEF IInv, Placement
  <2>2. CASE r \in queue
    <3>1. Places(r) = {"queue"}
      BY <2>1, <2>2 DEF Places
    <3>2. QED
      BY <2>1, <2>2, <3>1
  <2>3. CASE r \in batch
    <3>1. Places(r) = {"batch"}
      BY <2>1, <2>3 DEF Places
    <3>2. QED
      BY <2>1, <2>3, <3>1
  <2>4. CASE r \in lost
    <3>1. Places(r) = {"lost"}
      BY <2>1, <2>4 DEF Places
    <3>2. QED
      BY <2>1, <2>4, <3>1
  <2>5. CASE submitted[r] = 1
    <3>1. Places(r) = {"submitted"}
      BY <2>1, <2>5 DEF Places
    <3>2. QED
      BY <2>1, <2>5, <3>1
  <2>6. CASE r \notin queue /\ r \notin batch /\ r \notin lost /\ submitted[r] = 0
    <3>1. Places(r) = {}
      BY <2>6 DEF Places
    <3>2. QED
      BY <2>1, <2>6, <3>1
  <2>7. QED
    BY <2>1, <2>2, <2>3, <2>4, <2>5, <2>6
<1>2. QED
  BY <1>1, InvariantHolds, PTL

\* When Stop has returned, only events of requests that were in progress
\* when quit was closed can still be queued, and no submission is under way.
THEOREM StopAlwaysFlushes == Spec => []StopFlushes
<1>1. IInv => StopFlushes
  BY DEF IInv, TypeOK, Phases, StopFlushes
<1>2. QED
  BY <1>1, InvariantHolds, PTL

=============================================================================
