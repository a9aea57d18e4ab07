------------------------ MODULE SandboxSessionProofs ------------------------
(***************************************************************************)
(* Proofs about SandboxSession, for every set of boxes and every finite    *)
(* set of calls: the code of a request runs in one container, claimed once *)
(* for it; nothing is left at the service but what a named fault leaves;   *)
(* and the router deletes no container that a call may still use.          *)
(***************************************************************************)
EXTENDS SandboxSession, FiniteSetTheorems, TLAPS

LEMMA InitInvariant == Init => IInv
BY ConstantsAssumption
DEF Init, IInv, TypeOK, OneAtATime, OwnBox, ClaimedBeforeInstalled, OneContainer,
    NothingForgotten, Sandboxed, Explicit, CallStates, Live, InProgress, SettingUp

\* The guard of Begin admits the first call of a handler that runs its calls
\* one after the other only when no other is in progress.
LEMMA FirstInProgress ==
  ASSUME NEW c \in Calls, Begin(c), mode # "shared"
  PROVE  \A d \in Calls : ~ InProgress(d)
<1> DEFINE S == {d \in Calls : InProgress(d)}
<1>1. IsFiniteSet(S)
  BY ConstantsAssumption, FS_Subset
<1>2. Cardinality(S) \in Nat /\ Cardinality(S) < 1
  BY <1>1, FS_CardinalityType DEF Begin
<1>3. Cardinality(S) = 0
  BY <1>2
<1>4. S = {}
  BY <1>1, <1>3, FS_EmptySet
<1>5. QED
  BY <1>4

\* The check, and the creation of a box, keep the invariant.
LEMMA CreationSteps ==
  ASSUME IInv, NEW c \in Calls, NEW b \in Boxes,
         Begin(c) \/ Create(c, b) \/ CreateLost(c, b) \/ CreateFails(c)
  PROVE  IInv'
<1> USE ConstantsAssumption
    DEF ctxVars, svcVars, Modes, Sandboxed, Explicit, CallStates, Faults, Live, InProgress,
        SettingUp, Step, SetBox, Fault
<1>0. /\ TypeOK /\ OneAtATime /\ OwnBox
      /\ ClaimedBeforeInstalled /\ OneContainer /\ NothingForgotten
  BY DEF IInv
<1>1. CASE Begin(c)
  <2>1. TypeOK'
    BY <1>0, <1>1 DEF Begin, TypeOK
  <2>2. OneAtATime'
    <3>1. mode # "shared" => \A d \in Calls : ~ InProgress(d)
      BY <1>1, FirstInProgress
    <3>2. QED
      BY <1>1, <3>1 DEF Begin, OneAtATime
  <2>3. OwnBox'
    BY <1>0, <1>1 DEF Begin, OwnBox
  <2>4. ClaimedBeforeInstalled' /\ OneContainer'
    BY <1>0, <1>1 DEF Begin, ClaimedBeforeInstalled, OneContainer
  <2>5. NothingForgotten'
    BY <1>0, <1>1 DEF Begin, NothingForgotten
  <2>6. QED
    BY <2>1, <2>2, <2>3, <2>4, <2>5 DEF IInv
\* The box is new, so no other call has it and it has never been claimed; a
\* context becomes the session's, which has none as no other call is at work.
<1>2. CASE Create(c, b)
  <2>1. TypeOK' /\ OneAtATime'
    BY <1>0, <1>2 DEF Create, TypeOK, OneAtATime
  <2>2. OwnBox'
    BY <1>0, <1>2 DEF Create, TypeOK, OwnBox
  <2>3. ClaimedBeforeInstalled'
    BY <1>0, <1>2 DEF Create, TypeOK, OneAtATime, ClaimedBeforeInstalled
  <2>4. OneContainer'
    BY <1>0, <1>2 DEF Create, ClaimedBeforeInstalled, OneContainer
  <2>5. NothingForgotten'
    BY <1>0, <1>2 DEF Create, TypeOK, OneAtATime, ClaimedBeforeInstalled, NothingForgotten
  <2>6. QED
    BY <2>1, <2>2, <2>3, <2>4, <2>5 DEF IInv
<1>3. CASE CreateLost(c, b)
  BY <1>3
  DEF CreateLost, IInv, TypeOK, OneAtATime, OwnBox, ClaimedBeforeInstalled, OneContainer,
      NothingForgotten
<1>4. CASE CreateFails(c)
  BY <1>4
  DEF CreateFails, IInv, TypeOK, OneAtATime, OwnBox, ClaimedBeforeInstalled, OneContainer,
      NothingForgotten
<1>5. QED
  BY <1>1, <1>2, <1>3, <1>4

\* Setting up a sandbox keeps the invariant.
LEMMA SetupSteps ==
  ASSUME IInv, NEW c \in Calls,
         \/ PollReady(c) \/ PollFails(c) \/ Attest(c) \/ Claim(c) \/ BootstrapFails(c)
         \/ DeleteMine(c) \/ DeleteMineFails(c) \/ Install(c)
  PROVE  IInv'
<1> USE ConstantsAssumption
    DEF ctxVars, svcVars, Modes, Sandboxed, Explicit, CallStates, Faults, Live, InProgress,
        SettingUp, Step, SetBox, Fault
<1>0. /\ TypeOK /\ OneAtATime /\ OwnBox
      /\ ClaimedBeforeInstalled /\ OneContainer /\ NothingForgotten
  BY DEF IInv
<1>1. CASE PollReady(c)
  BY <1>1
  DEF PollReady, IInv, TypeOK, OneAtATime, OwnBox, ClaimedBeforeInstalled, OneContainer,
      NothingForgotten
<1>2. CASE PollFails(c)
  BY <1>2
  DEF PollFails, IInv, TypeOK, OneAtATime, OwnBox, ClaimedBeforeInstalled, OneContainer,
      NothingForgotten
<1>3. CASE Attest(c)
  BY <1>0, <1>3
  DEF Attest, IInv, TypeOK, OneAtATime, OwnBox, ClaimedBeforeInstalled, OneContainer,
      NothingForgotten
\* The sandbox has not been claimed, and it is not the installed one, which has.
<1>4. CASE Claim(c)
  <2>1. mine[c] \in Boxes /\ claims[mine[c]] = 0
    BY <1>0, <1>4 DEF Claim, TypeOK, OwnBox, ClaimedBeforeInstalled
  <2>2. TypeOK' /\ OneAtATime' /\ OwnBox'
    BY <1>0, <1>4, <2>1 DEF Claim, TypeOK, OneAtATime, OwnBox
  <2>3. ClaimedBeforeInstalled'
    BY <1>0, <1>4, <2>1 DEF Claim, TypeOK, OwnBox, ClaimedBeforeInstalled
  <2>4. OneContainer'
    BY <1>0, <1>4, <2>1 DEF Claim, TypeOK, OwnBox, OneContainer
  <2>5. NothingForgotten'
    BY <1>0, <1>4 DEF Claim, TypeOK, NothingForgotten
  <2>6. QED
    BY <2>2, <2>3, <2>4, <2>5 DEF IInv
<1>5. CASE BootstrapFails(c)
  BY <1>0, <1>5
  DEF BootstrapFails, IInv, TypeOK, OneAtATime, OwnBox, ClaimedBeforeInstalled, OneContainer,
      NothingForgotten
<1>6. CASE DeleteMine(c)
  BY <1>0, <1>6
  DEF DeleteMine, IInv, TypeOK, OneAtATime, OwnBox, ClaimedBeforeInstalled, OneContainer,
      NothingForgotten
<1>7. CASE DeleteMineFails(c)
  BY <1>0, <1>7
  DEF DeleteMineFails, IInv, TypeOK, OneAtATime, OwnBox, ClaimedBeforeInstalled, OneContainer,
      NothingForgotten
\* The first to install has claimed its sandbox, and no code has run before;
\* where calls run one after the other there is no second.
<1>8. CASE Install(c)
  <2>1. /\ mine[c] \in Boxes /\ claims[mine[c]] = 1
        /\ gateway = installed /\ Sandboxed
    BY <1>0, <1>8 DEF Install, TypeOK, OwnBox, ClaimedBeforeInstalled, OneContainer
  <2>2. TypeOK' /\ OneAtATime' /\ OwnBox'
    BY <1>0, <1>8 DEF Install, TypeOK, OneAtATime, OwnBox
  <2>3. ClaimedBeforeInstalled'
    BY <1>0, <1>8, <2>1 DEF Install, TypeOK, OneAtATime, ClaimedBeforeInstalled
  <2>4. OneContainer'
    BY <1>0, <1>8, <2>1 DEF Install, TypeOK, OneContainer
  <2>5. NothingForgotten'
    BY <1>0, <1>8, <2>1
    DEF Install, TypeOK, OneAtATime, ClaimedBeforeInstalled, NothingForgotten
  <2>6. QED
    BY <2>2, <2>3, <2>4, <2>5 DEF IInv
<1>9. QED
  BY <1>1, <1>2, <1>4, <1>5, <1>6, <1>7, <1>8, <1>3

\* Execution keeps the invariant.
LEMMA ExecutionSteps ==
  ASSUME IInv, NEW c \in Calls, Execute(c) \/ ExecuteFails(c)
  PROVE  IInv'
<1> USE ConstantsAssumption
    DEF ctxVars, svcVars, Modes, Sandboxed, Explicit, CallStates, Faults, Live, InProgress,
        SettingUp, Step, SetBox
<1>0. /\ TypeOK /\ OneAtATime /\ OwnBox
      /\ ClaimedBeforeInstalled /\ OneContainer /\ NothingForgotten
  BY DEF IInv
<1>1. CASE Execute(c)
  BY <1>0, <1>1
  DEF Execute, IInv, TypeOK, OneAtATime, OwnBox, ClaimedBeforeInstalled, OneContainer,
      NothingForgotten
<1>2. CASE ExecuteFails(c)
  BY <1>0, <1>2
  DEF ExecuteFails, IInv, TypeOK, OneAtATime, OwnBox, ClaimedBeforeInstalled, OneContainer,
      NothingForgotten
<1>3. QED
  BY <1>1, <1>2

\* What the control plane does on its own keeps the invariant.
LEMMA ControlPlaneSteps ==
  ASSUME IInv, NEW b \in Boxes, Deploy(b) \/ Expire(b)
  PROVE  IInv'
<1> USE ConstantsAssumption
    DEF ctxVars, svcVars, Modes, Sandboxed, Explicit, Live, InProgress, SettingUp, SetBox
<1>0. /\ TypeOK /\ OneAtATime /\ OwnBox
      /\ ClaimedBeforeInstalled /\ OneContainer /\ NothingForgotten
  BY DEF IInv
<1>1. CASE Deploy(b)
  BY <1>0, <1>1
  DEF Deploy, IInv, TypeOK, OneAtATime, OwnBox, ClaimedBeforeInstalled, OneContainer,
      NothingForgotten
<1>2. CASE Expire(b)
  BY <1>0, <1>2
  DEF Expire, IInv, TypeOK, OneAtATime, OwnBox, ClaimedBeforeInstalled, OneContainer,
      NothingForgotten
<1>3. QED
  BY <1>1, <1>2

\* The handler and its cleanup keep the invariant.
LEMMA HandlerSteps ==
  ASSUME IInv, HandlerStep \/ Disconnect \/ CleanupExpires
  PROVE  IInv'
<1> USE ConstantsAssumption
    DEF ctxVars, svcVars, Modes, Sandboxed, Explicit, CallStates, Faults, Live, InProgress,
        SettingUp, SetBox, Fault, Finish, Owned
<1>0. /\ TypeOK /\ OneAtATime /\ OwnBox
      /\ ClaimedBeforeInstalled /\ OneContainer /\ NothingForgotten
  BY DEF IInv
<1>1. CASE Leave
  BY <1>0, <1>1
  DEF Leave, IInv, TypeOK, OneAtATime, OwnBox, ClaimedBeforeInstalled, OneContainer,
      NothingForgotten
\* No call is at work: what is left at the service is the installed container.
<1>2. CASE NothingToClose \/ CloseDeletes \/ CloseFails
  <2>1. handler = "closing" /\ \A c \in Calls : ~ InProgress(c)
    BY <1>0, <1>2 DEF NothingToClose, CloseDeletes, CloseFails, OneAtATime
  <2>2. TypeOK' /\ OneAtATime'
    BY <1>0, <1>2 DEF NothingToClose, CloseDeletes, CloseFails, TypeOK, OneAtATime
  <2>3. OwnBox' /\ ClaimedBeforeInstalled'
    BY <1>0, <1>2
    DEF NothingToClose, CloseDeletes, CloseFails, TypeOK, OwnBox, ClaimedBeforeInstalled
  <2>4. OneContainer'
    BY <1>0, <1>2 DEF NothingToClose, CloseDeletes, CloseFails, TypeOK, OneContainer
  <2>5. NothingForgotten'
    BY <1>0, <1>2, <2>1
    DEF NothingToClose, CloseDeletes, CloseFails, TypeOK, NothingForgotten
  <2>6. QED
    BY <2>2, <2>3, <2>4, <2>5 DEF IInv
<1>3. CASE Disconnect
  BY <1>0, <1>3
  DEF Disconnect, IInv, TypeOK, OneAtATime, OwnBox, ClaimedBeforeInstalled, OneContainer,
      NothingForgotten
<1>4. CASE CleanupExpires
  BY <1>0, <1>4
  DEF CleanupExpires, IInv, TypeOK, OneAtATime, OwnBox, ClaimedBeforeInstalled, OneContainer,
      NothingForgotten
<1>5. QED
  BY <1>1, <1>2, <1>3, <1>4 DEF HandlerStep

\* The inductive invariant holds in every reachable state.
THEOREM InvariantHolds == Spec => []IInv
<1>1. Init => IInv
  BY InitInvariant
<1>2. IInv /\ [Next]_vars => IInv'
  <2>1. ASSUME IInv, UNCHANGED vars PROVE IInv'
    BY <2>1
    DEF vars, ctxVars, svcVars, IInv, TypeOK, OneAtATime, OwnBox, ClaimedBeforeInstalled,
        OneContainer, NothingForgotten, Sandboxed, Explicit, Live, InProgress, SettingUp
  <2>2. ASSUME IInv, NEW c \in Calls, CallStep(c) PROVE IInv'
    BY <2>2, CreationSteps, SetupSteps, ExecutionSteps, ConstantsAssumption DEF CallStep
  <2>3. QED
    BY <2>1, <2>2, ControlPlaneSteps, HandlerSteps DEF Next
<1>3. QED
  BY <1>1, <1>2, PTL DEF Spec

\* Every variable keeps its type.
THEOREM TypeCorrect == Spec => []TypeOK
<1>1. IInv => TypeOK
  BY DEF IInv
<1>2. QED
  BY <1>1, InvariantHolds, PTL

\* All code of a request has run in the container that is installed, and a
\* sandbox was claimed once, with its own credential, before it was.
THEOREM AlwaysOneContainer == Spec => []OneContainer
<1>1. IInv => OneContainer
  BY DEF IInv
<1>2. QED
  BY <1>1, InvariantHolds, PTL

\* A request whose calls run one after the other leaves a container behind
\* only after a lost answer, a failed poll or deletion, or an expired cleanup.
THEOREM NeverLeaks == Spec => []NoLeak
<1>1. IInv => NoLeak
  BY DEF IInv, NothingForgotten, NoLeak
<1>2. QED
  BY <1>1, InvariantHolds, PTL

\* The router takes the installed container away only after the last call, and
\* one that the client has named never.
THEOREM InstalledIsKept == Spec => RouterKeepsInstalled
<1> DEFINE Kept ==
      \A b \in Boxes :
        (b = installed /\ Live(b) /\ ~ Live(b)' /\ <<call, handler>>' # <<call, handler>>) =>
           /\ handler = "closing" /\ ~ Explicit
           /\ \A c \in Calls : ~ InProgress(c)
<1>1. IInv /\ [Next]_vars => [Kept]_vars
  <2> SUFFICES ASSUME IInv, Next,
                      NEW b \in Boxes, b = installed, Live(b), ~ Live(b)',
                      <<call, handler>>' # <<call, handler>>
               PROVE  /\ handler = "closing" /\ ~ Explicit
                      /\ \A c \in Calls : ~ InProgress(c)
    OBVIOUS
  <2> USE DEF ctxVars, svcVars, Sandboxed, Explicit, Live, SettingUp, Step, SetBox
  <2>0. TypeOK /\ OneAtATime /\ OwnBox /\ ClaimedBeforeInstalled /\ OneContainer
    BY DEF IInv
  \* The sandbox a call deletes has not been claimed, so it is not installed.
  <2>1. ASSUME NEW c \in Calls, CallStep(c) PROVE FALSE
    <3>1. CASE DeleteMine(c)
      BY <2>0, <3>1, ConstantsAssumption
      DEF DeleteMine, TypeOK, OwnBox, ClaimedBeforeInstalled, OneContainer
    <3>2. ASSUME NEW d \in Boxes, Create(c, d) \/ CreateLost(c, d) PROVE FALSE
      BY <2>0, <3>2 DEF Create, CreateLost, TypeOK
    <3>3. CASE UNCHANGED box
      BY <3>3
    <3>4. QED
      BY <2>1, <3>1, <3>2, <3>3
      DEF CallStep, Begin, CreateFails, PollReady, PollFails, Attest, Claim, BootstrapFails,
          DeleteMineFails, Install, Execute, ExecuteFails
  <2>2. CASE CloseDeletes
    BY <2>0, <2>2 DEF CloseDeletes, Owned, OneAtATime
  <2>3. CASE Leave \/ NothingToClose \/ CloseFails \/ Disconnect \/ CleanupExpires
    BY <2>3 DEF Leave, NothingToClose, CloseFails, Disconnect, CleanupExpires
  <2>4. CASE \E d \in Boxes : Deploy(d) \/ Expire(d)
    BY <2>4 DEF Deploy, Expire
  <2>5. QED
    BY <2>1, <2>2, <2>3, <2>4 DEF Next, HandlerStep
<1>2. QED
  BY <1>1, InvariantHolds, PTL DEF Spec, RouterKeepsInstalled

=============================================================================
