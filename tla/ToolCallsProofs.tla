-------------------------- MODULE ToolCallsProofs --------------------------
(***************************************************************************)
(* Proofs about the calls of the tool in RequestHandler, for every set of  *)
(* requests and answers of the model and for any number of hops: what the  *)
(* model is sent again, what the client is told of it, and what runs.      *)
(***************************************************************************)
EXTENDS RequestHandlerProofs

----------------------------------------------------------------------------
(* What the model is sent *)

LEMMA OutputType ==
  ASSUME NEW item \in ItemType
  PROVE  /\ ToolOutput(item) \in ItemType
         /\ ToolOutput(item).hop = item.hop /\ ToolOutput(item).at = item.at
         /\ ToolOutput(item).kind = "output"
BY DEF ToolOutput, ItemType

\* A hop that is complete, appended with its outputs to a conversation, makes
\* a conversation.
LEMMA ReplayedAnswers ==
  ASSUME ResponsesTypeOK, HopItems, step = "process", at > Len(reply.items),
         ~HasUser(reply.items), Answerable(input),
         \A i \in DOMAIN input : input[i].hop < hop
  PROVE  /\ Answerable(Replayed)
         /\ \A i \in DOMAIN Replayed : Replayed[i].hop <= hop
<1> DEFINE items == reply.items
           outs == [i \in DOMAIN fresh |-> ToolOutput(fresh[i])]
           n == Len(input)
           m == Len(items)
           f == Len(fresh)
           R == Replayed
<1>1. /\ input \in Seq(ItemType) /\ items \in Seq(ItemType) /\ fresh \in Seq(ItemType)
      /\ n \in Nat /\ m \in Nat /\ f \in Nat /\ at \in Nat /\ hop \in Nat
      /\ DOMAIN input = 1..n /\ DOMAIN items = 1..m /\ DOMAIN fresh = 1..f
  BY RepliesAssumption DEF ResponsesTypeOK
<1>2. outs \in Seq(ItemType) /\ Len(outs) = f
  <2>1. \A i \in 1..f : ToolOutput(fresh[i]) \in ItemType
    BY <1>1, OutputType
  <2>2. QED
    BY <1>1, <2>1
<1>3. /\ R \in Seq(ItemType) /\ Len(R) = n + m + f /\ DOMAIN R = 1..n + m + f
      /\ \A i \in 1..n : R[i] = input[i]
      /\ \A i \in 1..m : R[n + i] = items[i]
      /\ \A j \in 1..f : R[n + m + j] = outs[j]
  <2> DEFINE both == input \o items
  <2>1. /\ both \in Seq(ItemType) /\ Len(both) = n + m
        /\ \A i \in 1..n + m : both[i] = IF i <= n THEN input[i] ELSE items[i - n]
    BY <1>1, ConcatProperties
  <2>3. R = both \o outs
    BY DEF Replayed
  <2> HIDE DEF both, outs, R, n, m, f, items
  <2>2. /\ both \o outs \in Seq(ItemType) /\ Len(both \o outs) = n + m + f
        /\ \A i \in 1..n + m + f :
             (both \o outs)[i] = IF i <= n + m THEN both[i] ELSE outs[i - (n + m)]
    <3>1. /\ both \o outs \in Seq(ItemType) /\ Len(both \o outs) = Len(both) + Len(outs)
          /\ \A i \in 1..Len(both) + Len(outs) :
               (both \o outs)[i] = IF i <= Len(both) THEN both[i] ELSE outs[i - Len(both)]
      BY <1>2, <2>1, ConcatProperties
    <3>2. Len(both) = n + m /\ Len(outs) = f
      BY <1>2, <2>1
    <3>3. QED
      BY <3>1, <3>2, Zenon
  <2>4. /\ R \in Seq(ItemType) /\ Len(R) = n + m + f
        /\ \A i \in 1..n + m + f :
             R[i] = IF i <= n + m THEN both[i] ELSE outs[i - (n + m)]
    BY <2>2, <2>3
  <2>5. ASSUME NEW i \in 1..n PROVE R[i] = input[i]
    BY <1>1, <2>1, <2>4
  <2>6. ASSUME NEW i \in 1..m PROVE R[n + i] = items[i]
    <3>1. n + i \in 1..n + m /\ ~ n + i <= n /\ (n + i) - n = i /\ n + i \in 1..n + m + f
      BY <1>1
    <3>2. QED
      BY <2>1, <2>4, <3>1
  <2>7. ASSUME NEW j \in 1..f PROVE R[n + m + j] = outs[j]
    <3>1. n + m + j \in 1..n + m + f /\ ~ n + m + j <= n + m /\ (n + m + j) - (n + m) = j
      BY <1>1
    <3>2. QED
      BY <2>4, <3>1
  <2>8. QED
    BY <2>4, <2>5, <2>6, <2>7
<1>4. \A i \in 1..m : items[i].hop = hop /\ items[i].at = i /\ items[i].kind \in ItemKinds \ {"user"}
  BY <1>1 DEF HopItems, HasUser
<1>5. \A j \in 1..f :
        /\ outs[j].hop = hop /\ outs[j].kind = "output" /\ IsTool(fresh[j])
        /\ outs[j] = ToolOutput(fresh[j])
        /\ \E i \in 1..m : fresh[j] = items[i] /\ outs[j].at = i
  <2> SUFFICES ASSUME NEW j \in 1..f
               PROVE  /\ outs[j].hop = hop /\ outs[j].kind = "output" /\ IsTool(fresh[j])
                      /\ outs[j] = ToolOutput(fresh[j])
                      /\ \E i \in 1..m : fresh[j] = items[i] /\ outs[j].at = i
    OBVIOUS
  <2>1. PICK i \in 1..m : fresh[j] = items[i] /\ IsTool(fresh[j])
    BY <1>1 DEF HopItems
  <2>2. outs[j] = ToolOutput(fresh[j]) /\ items[i] \in ItemType
    BY <1>1
  <2>3. outs[j].hop = hop /\ outs[j].kind = "output" /\ outs[j].at = i
    BY <1>4, <2>1, <2>2, OutputType
  <2>4. QED
    BY <2>1, <2>2, <2>3
<1>6. \A i \in 1..m : IsTool(items[i]) => \E j \in 1..f : outs[j] = ToolOutput(items[i])
  <2> SUFFICES ASSUME NEW i \in 1..m, IsTool(items[i])
               PROVE  \E j \in 1..f : outs[j] = ToolOutput(items[i])
    OBVIOUS
  <2>1. PICK j \in 1..f : fresh[j] = items[i]
    BY <1>1 DEF HopItems
  <2>2. QED
    BY <1>1, <2>1
<1>7. \A a, b \in 1..f : outs[a] = outs[b] => a = b
  <2> SUFFICES ASSUME NEW a \in 1..f, NEW b \in 1..f, outs[a] = outs[b] PROVE a = b
    OBVIOUS
  <2>1. PICK i \in 1..m : fresh[a] = items[i] /\ outs[a].at = i
    BY <1>5
  <2>2. PICK j \in 1..m : fresh[b] = items[j] /\ outs[b].at = j
    BY <1>5
  <2> HIDE DEF outs
  <2>3. fresh[a] = fresh[b]
    BY <2>1, <2>2
  <2>4. QED
    BY <1>1, <2>3 DEF HopItems, IsInjective
<1>8. /\ \A i \in 1..n : input[i].hop \in Nat /\ input[i].hop < hop /\ input[i].kind # "user"
      /\ \A a, b \in 1..n : input[a] = input[b] => a = b
  <2>1. \A i \in 1..n : input[i] \in ItemType
    BY <1>1
  <2>2. \A i \in 1..n : input[i].hop \in Nat
    BY <2>1 DEF ItemType
  <2>3. \A i \in 1..n : input[i].kind # "user"
    BY <1>1 DEF Answerable, HasUser
  <2>4. \A a, b \in 1..n : input[a] = input[b] => a = b
    BY <1>1 DEF Answerable, IsInjective
  <2>5. QED
    BY <1>1, <2>2, <2>3, <2>4
<1> HIDE DEF items, outs, n, m, f, R
<1>9. ASSUME NEW k \in DOMAIN R
      PROVE  \/ \E i \in 1..n : k = i /\ R[k] = input[i]
             \/ \E i \in 1..m : k = n + i /\ R[k] = items[i]
             \/ \E j \in 1..f : k = n + m + j /\ R[k] = outs[j]
  <2>1. k \in 1..n \/ k - n \in 1..m \/ k - n - m \in 1..f
    BY <1>1, <1>3
  <2>2. CASE k - n \in 1..m
    <3>1. k = n + (k - n)
      BY <1>1, <1>3
    <3>2. QED
      BY <1>3, <2>2, <3>1
  <2>3. CASE k - n - m \in 1..f
    <3>1. k = n + m + (k - n - m)
      BY <1>1, <1>3
    <3>2. QED
      BY <1>3, <2>3, <3>1
  <2>4. QED
    BY <1>3, <2>1, <2>2, <2>3
<1>10. ASSUME NEW a \in DOMAIN R, NEW b \in DOMAIN R, R[a] = R[b]
       PROVE  a = b
  <2>1. CASE \E i \in 1..n : a = i /\ R[a] = input[i]
    <3>1. R[b].hop < hop
      BY <1>8, <1>10, <2>1
    <3>2. \E i \in 1..n : b = i /\ R[b] = input[i]
      <4>1. \A i \in 1..m : R[b] # items[i]
        BY <1>1, <1>4, <3>1
      <4>2. \A j \in 1..f : R[b] # outs[j]
        BY <1>1, <1>5, <3>1
      <4>3. QED
        BY <1>9, <4>1, <4>2
    <3>3. PICK i \in 1..n : a = i /\ R[a] = input[i]
      BY <2>1
    <3>4. PICK j \in 1..n : b = j /\ R[b] = input[j]
      BY <3>2
    <3>5. input[i] = input[j]
      BY <1>10, <3>3, <3>4
    <3>6. i = j
      BY <1>8, <3>5
    <3>7. QED
      BY <3>3, <3>4, <3>6
  <2>2. CASE \E i \in 1..m : a = n + i /\ R[a] = items[i]
    <3>1. R[b].hop = hop /\ R[b].kind \in ItemKinds
      BY <1>4, <1>10, <2>2
    <3>2. ~ \E i \in 1..n : R[b] = input[i]
      BY <1>1, <1>8, <3>1
    <3>3. ~ \E j \in 1..f : R[b] = outs[j]
      BY <1>5, <3>1 DEF ItemKinds
    <3>4. \E i \in 1..m : b = n + i /\ R[b] = items[i]
      BY <1>9, <3>2, <3>3
    <3>5. QED
      BY <1>4, <1>10, <2>2, <3>4
  <2>3. CASE \E j \in 1..f : a = n + m + j /\ R[a] = outs[j]
    <3>1. R[b].hop = hop /\ R[b].kind = "output"
      BY <1>5, <1>10, <2>3
    <3>2. ~ \E i \in 1..n : R[b] = input[i]
      BY <1>1, <1>8, <3>1
    <3>3. ~ \E i \in 1..m : R[b] = items[i]
      BY <1>4, <3>1 DEF ItemKinds
    <3>4. \E j \in 1..f : b = n + m + j /\ R[b] = outs[j]
      BY <1>9, <3>2, <3>3
    <3>5. QED
      BY <1>7, <1>10, <2>3, <3>4
  <2>4. QED
    BY <1>9, <2>1, <2>2, <2>3
<1>11. ~HasUser(R)
  BY <1>4, <1>5, <1>8, <1>9 DEF HasUser
<1>12. ASSUME NEW k \in DOMAIN R, IsTool(R[k])
       PROVE  \E j \in k + 1..Len(R) : R[j] = ToolOutput(R[k])
  <2>1. CASE \E i \in 1..n : k = i /\ R[k] = input[i]
    <3>1. PICK j \in k + 1..n : input[j] = ToolOutput(input[k])
      BY <1>1, <1>12, <2>1 DEF Answerable, n
    <3>2. j \in k + 1..Len(R) /\ R[j] = input[j] /\ R[k] = input[k]
      BY <1>1, <1>3, <2>1
    <3>3. QED
      BY <3>1, <3>2
  <2>2. CASE \E i \in 1..m : k = n + i /\ R[k] = items[i]
    <3>1. PICK i \in 1..m : k = n + i /\ R[k] = items[i]
      BY <2>2
    <3>2. PICK j \in 1..f : outs[j] = ToolOutput(items[i])
      BY <1>6, <1>12, <3>1
    <3>3. n + m + j \in k + 1..Len(R)
      BY <1>1, <1>3, <3>1
    <3>4. QED
      BY <1>3, <3>1, <3>2, <3>3
  <2>3. CASE \E j \in 1..f : k = n + m + j /\ R[k] = outs[j]
    BY <1>5, <1>12, <2>3 DEF IsTool
  <2>4. QED
    BY <1>9, <2>1, <2>2, <2>3
<1>13. ASSUME NEW k \in DOMAIN R, R[k].kind = "output"
       PROVE  \E j \in 1..k - 1 : IsTool(R[j]) /\ R[k] = ToolOutput(R[j])
  <2>1. CASE \E i \in 1..n : k = i /\ R[k] = input[i]
    <3>1. PICK j \in 1..k - 1 : IsTool(input[j]) /\ input[k] = ToolOutput(input[j])
      BY <1>1, <1>13, <2>1 DEF Answerable
    <3>2. j \in 1..n /\ R[j] = input[j] /\ R[k] = input[k]
      BY <1>1, <1>3, <2>1
    <3>3. QED
      BY <3>1, <3>2
  <2>2. CASE \E i \in 1..m : k = n + i /\ R[k] = items[i]
    BY <1>4, <1>13, <2>2 DEF ItemKinds
  <2>3. CASE \E j \in 1..f : k = n + m + j /\ R[k] = outs[j]
    <3>1. PICK j \in 1..f : k = n + m + j /\ R[k] = outs[j]
      BY <2>3
    <3>2. PICK i \in 1..m : fresh[j] = items[i]
      BY <1>5
    <3>3. n + i \in 1..k - 1
      BY <1>1, <3>1
    <3>4. R[n + i] = items[i] /\ IsTool(items[i]) /\ R[k] = ToolOutput(items[i])
      BY <1>3, <1>5, <3>1, <3>2
    <3>5. QED
      BY <3>3, <3>4
  <2>4. QED
    BY <1>9, <2>1, <2>2, <2>3
<1>14. ASSUME NEW k \in DOMAIN R PROVE R[k].hop <= hop
  <2>1. R[k].hop = hop \/ (R[k].hop \in Nat /\ R[k].hop < hop)
    BY <1>4, <1>5, <1>8, <1>9
  <2>2. QED
    BY <1>1, <2>1
<1>15. Answerable(R)
  BY <1>10, <1>11, <1>12, <1>13 DEF Answerable, IsInjective
<1>16. QED
  BY <1>14, <1>15 DEF R

LEMMA FirstQuestion == Answerable(<<Item(0, 1, "prompt")>>)
<1> DEFINE items == <<Item(0, 1, "prompt")>>
<1>1. DOMAIN items = {1} /\ items[1] = Item(0, 1, "prompt") /\ Item(0, 1, "prompt").kind = "prompt"
  BY DEF Item
<1> HIDE DEF items
<1>2. Answerable(items)
  BY <1>1 DEF Answerable, IsInjective, HasUser, IsTool
<1>3. QED
  BY <1>2 DEF items

\* The place of an item in an answer that has been received.
LEMMA ItemsPlaced ==
  ASSUME NEW r \in Replies
  PROVE  \A i \in DOMAIN Received(r).items :
           /\ Received(r).items[i].hop = hop /\ Received(r).items[i].at = i
           /\ Received(r).items[i].kind \in ItemKinds
<1>1. r.kinds \in Seq(ItemKinds)
  BY RepliesAssumption
<1>2. QED
  BY <1>1 DEF Received, Item

\* At the beginning of the work on the items of a hop.
LEMMA ProcessBegins ==
  ASSUME NEW items, ProcessItems(items), UNCHANGED hop,
         \A i \in DOMAIN items :
           items[i].hop = hop /\ items[i].at = i /\ items[i].kind \in ItemKinds,
         DOMAIN items \subseteq Nat \ {0}, DOMAIN reply = {"items", "usage", "ending"}
  PROVE  HopItems'
<1>1. step' = "process" /\ fresh' = <<>> /\ at' = 1 /\ reply'.items = items
  BY DEF ProcessItems
<1>2. \A i \in DOMAIN items : ~ i < 1
  OBVIOUS
<1>3. QED
  BY <1>1, <1>2 DEF HopItems, IsInjective

LEMMA ItemHandled ==
  ASSUME IInv, HopItems, KeepItem \/ ExecuteItem
  PROVE  HopItems'
<1>1. /\ step = "process" /\ step' = "process" /\ at \in DOMAIN reply.items /\ at' = at + 1
      /\ UNCHANGED <<hop, reply>>
  BY DEF KeepItem, ExecuteItem, sharedVars
<1>2. /\ reply.items \in Seq(ItemType) /\ fresh \in Seq(ItemType) /\ at \in Nat
      /\ Len(fresh) \in Nat /\ DOMAIN fresh = 1..Len(fresh) /\ DOMAIN reply.items \subseteq Nat
  BY DEF IInv, ResponsesTypeOK
<1>3. \A i \in DOMAIN reply.items : (i < at + 1 <=> i < at \/ i = at)
  BY <1>2
<1>4. CASE KeepItem
  <2>1. fresh' = fresh /\ ~IsTool(reply.items[at])
    BY <1>4 DEF KeepItem
  <2>2. \A j \in DOMAIN fresh :
          IsTool(fresh[j]) /\ \E i \in DOMAIN reply.items : i < at + 1 /\ fresh[j] = reply.items[i]
    BY <1>1, <1>3 DEF HopItems
  <2>3. \A i \in DOMAIN reply.items : i < at + 1 /\ IsTool(reply.items[i]) =>
          \E j \in DOMAIN fresh : fresh[j] = reply.items[i]
    BY <1>1, <1>3, <2>1 DEF HopItems
  <2>4. QED
    BY <1>1, <2>1, <2>2, <2>3 DEF HopItems
<1>5. CASE ExecuteItem
  <2> DEFINE new == Append(fresh, reply.items[at])
  <2>1. fresh' = new /\ IsTool(reply.items[at])
    BY <1>5 DEF ExecuteItem
  <2>2. /\ DOMAIN new = 1..Len(fresh) + 1 /\ new[Len(fresh) + 1] = reply.items[at]
        /\ \A j \in DOMAIN fresh : new[j] = fresh[j]
    BY <1>1, <1>2, AppendProperties
  <2> HIDE DEF new
  <2>3. ASSUME NEW j \in DOMAIN new
        PROVE  \/ j \in DOMAIN fresh /\ new[j] = fresh[j]
               \/ j = Len(fresh) + 1 /\ new[j] = reply.items[at]
    <3>1. j \in 1..Len(fresh) \/ j = Len(fresh) + 1
      BY <1>2, <2>2
    <3>2. QED
      BY <1>2, <2>2, <3>1
  <2>4. ASSUME NEW j \in DOMAIN fresh PROVE fresh[j].at < at
    <3>1. PICK i \in DOMAIN reply.items : i < at /\ fresh[j] = reply.items[i]
      BY <1>1 DEF HopItems
    <3>2. QED
      BY <1>1, <3>1 DEF HopItems
  <2>5. reply.items[at].at = at
    BY <1>1 DEF HopItems
  <2>6. \A j \in DOMAIN fresh : fresh[j] # reply.items[at]
    BY <1>2, <2>4, <2>5
  <2>7. IsInjective(new)
    BY <1>1, <2>3, <2>6 DEF HopItems, IsInjective
  <2>8. \A j \in DOMAIN new :
          IsTool(new[j]) /\ \E i \in DOMAIN reply.items : i < at + 1 /\ new[j] = reply.items[i]
    BY <1>1, <1>3, <2>1, <2>3 DEF HopItems
  <2>9. \A i \in DOMAIN reply.items : i < at + 1 /\ IsTool(reply.items[i]) =>
          \E j \in DOMAIN new : new[j] = reply.items[i]
    <3>1. Len(fresh) + 1 \in DOMAIN new /\ DOMAIN fresh \subseteq DOMAIN new
      BY <1>2, <2>2
    <3>2. QED
      BY <1>1, <1>3, <2>2, <3>1 DEF HopItems
  <2>10. QED
    BY <1>1, <2>1, <2>7, <2>8, <2>9 DEF HopItems
<1>6. QED
  BY <1>4, <1>5

\* The input grows by a hop that is complete.
LEMMA HopReplayed ==
  ASSUME IInv, ReplayGrows, step = "process", at > Len(reply.items), ~HasUser(reply.items),
         step' = "send", input' = Replayed, UNCHANGED hop
  PROVE  ReplayGrows'
<1>1. Answerable(Replayed) /\ \A i \in DOMAIN Replayed : Replayed[i].hop <= hop
  BY ReplayedAnswers DEF IInv, ReplayGrows
<1>2. QED
  BY <1>1 DEF ReplayGrows, HopItems

LEMMA LoopReplay ==
  ASSUME IInv, ReplayGrows, Responses
  PROVE  ReplayGrows'
<1> USE DEF hopVars, loopVars, responsesVars, sharedVars, clientVars, ReturnError
<1>0. /\ ResponsesNext /\ ResponsesTypeOK /\ hop \in Nat /\ input \in Seq(ItemType)
      /\ \A i \in DOMAIN input : input[i].hop \in Nat
  <2>1. input \in Seq(ItemType) /\ ResponsesTypeOK /\ hop \in Nat
    BY RepliesAssumption DEF IInv, ResponsesTypeOK
  <2>2. \A i \in DOMAIN input : input[i] \in ItemType
    BY <2>1
  <2>3. QED
    BY <2>1, <2>2 DEF Responses, ItemType
<1>q. ASSUME UNCHANGED <<step, hop, input, reply, fresh>>, step = "stream" \/ UNCHANGED at
      PROVE  ReplayGrows'
  BY <1>q DEF ReplayGrows, HopItems
<1>e. ASSUME step' \in {"failed", "done", "finish", "panicked"}
      PROVE  ReplayGrows'
  BY <1>e DEF ReplayGrows, HopItems
<1>1. CASE InvokeHop
  <2>1. step = "send" /\ step' = "await" /\ hop' = hop + 1 /\ input' = input
    BY <1>1 DEF InvokeHop
  <2>2. \A i \in DOMAIN input : input[i].hop <= hop + 1 /\ input[i].hop < hop + 1
    BY <1>0, <2>1 DEF ReplayGrows
  <2>3. QED
    BY <2>1, <2>2 DEF ReplayGrows, HopItems
<1>2. CASE TooManyHops \/ HopFails \/ ExecuteItemFails \/ StreamBreaks \/ FinishStream
  BY <1>e, <1>2 DEF TooManyHops, HopFails, ExecuteItemFails, StreamBreaks, FinishStream
<1>3. CASE \E r \in Replies : ReceiveAnswer(r)
  <2>1. PICK r \in Replies : ReceiveAnswer(r)
    BY <1>3
  <2>2. step = "await" /\ UNCHANGED <<hop, input>>
        /\ (step' = "done" \/ ProcessItems(Received(r).items))
    BY <2>1 DEF ReceiveAnswer
  <2>3. CASE ProcessItems(Received(r).items)
    <3>1. DOMAIN Received(r).items \subseteq Nat \ {0} /\ DOMAIN reply = {"items", "usage", "ending"}
      BY <1>0, ItemsReceived DEF ResponsesTypeOK
    <3>2. HopItems'
      BY <2>2, <2>3, <3>1, ItemsPlaced, ProcessBegins
    <3>3. step' = "process"
      BY <2>3 DEF ProcessItems
    <3>4. QED
      BY <2>2, <3>2, <3>3 DEF ReplayGrows
  <2>4. QED
    BY <1>e, <2>2, <2>3
<1>4. CASE \E r \in Replies : ReceiveStream(r)
  <2>1. PICK r \in Replies : ReceiveStream(r)
    BY <1>4
  <2>2. step = "await" /\ UNCHANGED <<hop, input>>
        /\ (step' = "done" \/ (step' = "stream" /\ reply' = Received(r)))
    BY <2>1 DEF ReceiveStream
  <2>3. CASE step' = "stream" /\ reply' = Received(r)
    BY <2>2, <2>3, ItemsPlaced DEF ReplayGrows, HopItems
  <2>4. QED
    BY <1>e, <2>2, <2>3
<1>5. CASE KeepItem \/ ExecuteItem
  <2>1. step = "process" /\ step' = "process" /\ UNCHANGED <<hop, input>>
    BY <1>5 DEF KeepItem, ExecuteItem
  <2>2. QED
    BY <1>5, <2>1, ItemHandled DEF ReplayGrows
<1>6. CASE SettleAnswer
  <2>1. step = "process" /\ at > Len(reply.items) /\ UNCHANGED hop
        /\ (step' = "done" \/ (step' = "send" /\ ~HasUser(reply.items) /\ input' = Replayed))
    BY <1>6 DEF SettleAnswer
  <2>2. QED
    BY <1>e, <2>1, HopReplayed
<1>7. CASE SettleStream
  <2>1. step = "process" /\ at > Len(reply.items) /\ UNCHANGED hop
        /\ (step' = "finish" \/ (step' = "send" /\ ~HasUser(reply.items) /\ input' = Replayed))
    BY <1>7 DEF SettleStream
  <2>2. QED
    BY <1>e, <2>1, HopReplayed
<1>8. CASE ReadEvent
  BY <1>q, <1>8 DEF ReadEvent
<1>9. CASE WriteEvent
  BY <1>q, <1>9 DEF WriteEvent
<1>10. CASE EndAnswer
  BY <1>e, <1>10 DEF EndAnswer
<1>11. CASE EndHop
  <2> DEFINE items == IF completed THEN reply.items ELSE <<>>
  <2>1. step = "stream" /\ ProcessItems(items) /\ UNCHANGED <<hop, input>> /\ step' = "process"
    BY <1>11 DEF EndHop, ProcessItems
  <2>2. \A i \in DOMAIN items : items[i].hop = hop /\ items[i].at = i /\ items[i].kind \in ItemKinds
    BY <2>1 DEF ReplayGrows, HopItems
  <2>3. DOMAIN items \subseteq Nat \ {0} /\ DOMAIN reply = {"items", "usage", "ending"}
    BY <1>0 DEF ResponsesTypeOK
  <2> HIDE DEF items
  <2>4. HopItems'
    BY <2>1, <2>2, <2>3, ProcessBegins
  <2>5. QED
    BY <2>1, <2>4 DEF ReplayGrows
<1>12. QED
  BY <1>0, <1>1, <1>2, <1>3, <1>4, <1>5, <1>6, <1>7, <1>8, <1>9, <1>10, <1>11 DEF ResponsesNext

LEMMA ReplayStep == IInv /\ ReplayGrows /\ [Next]_vars => ReplayGrows'
<1> SUFFICES ASSUME IInv, ReplayGrows, [Next]_vars PROVE ReplayGrows'
  OBVIOUS
<1>1. CASE Plan
  <2>1. PlanGoesOn \/ PlanAnswers \/ RunnerStarts
    BY <1>1, PlanEffect DEF IInv, Plan
  <2>2. CASE step' = "send"
    <3>1. ResponsesInit /\ UNCHANGED <<hop, input>>
      BY <1>1, PlanEffect DEF IInv, Plan, Ownership, NoCall, responsesVars, loopVars
    <3>2. hop' = 0 /\ input' = <<Item(0, 1, "prompt")>> /\ \A i \in DOMAIN input' : input'[i].hop = 0
      BY <3>1 DEF ResponsesInit, Item
    <3>3. QED
      BY <2>2, <3>2, FirstQuestion DEF ReplayGrows, HopItems
  <2>3. QED
    BY <2>1, <2>2 DEF PlanGoesOn, PlanAnswers, RunnerStarts, PlanSteps, ReplayGrows, HopItems
<1>2. CASE Responses
  BY <1>2, LoopReplay
<1>3. CASE Chat
  BY <1>3, ChatStays DEF ChatSteps, ReplayGrows, HopItems
<1>4. CASE Report
  BY <1>4 DEF Report, ReportError, ReplayGrows, HopItems
<1>5. CASE UNCHANGED vars
  BY <1>5 DEF vars, sharedVars, responsesVars, hopVars, loopVars, ReplayGrows, HopItems
<1>6. QED
  BY <1>1, <1>2, <1>3, <1>4, <1>5 DEF Next, HandlerEnded

\* What the model is sent at each hop is a conversation that it can continue:
\* every call of the tool in it is answered once and after it, nothing is sent
\* twice, and no call that only the client can answer (responses_runner.go:119-121).
THEOREM ReplayAlwaysAnswered == Spec => []ReplayAnswered
<1>1. Init => ReplayGrows
  BY DEF Init, SharedInit, ReplayGrows, HopItems
<1>2. ReplayGrows => ReplayAnswered
  BY DEF ReplayGrows, ReplayAnswered
<1>3. QED
  BY <1>1, <1>2, ReplayStep, InvariantHolds, PTL DEF Spec

----------------------------------------------------------------------------
(* What runs of a chat answer *)

\* The calls of one answer are told apart by their choice and their index in
\* it, which is what these two are there for.
CallsDistinct ==
  \A r \in Completions : \A c, d \in DOMAIN r.calls :
    r.calls[c].choice = r.calls[d].choice /\ r.calls[c].index = r.calls[d].index => c = d

LEMMA KeysDistinct ==
  ASSUME CallsDistinct, ChatTypeOK, NEW c \in DOMAIN completion.calls, NEW d \in DOMAIN completion.calls,
         BuilderKey(c) = BuilderKey(d)
  PROVE  c = d
<1>1. completion \in Completions \/ completion.calls = <<>>
  BY DEF ChatTypeOK, NoCompletion
<1>2. QED
  BY <1>1 DEF CallsDistinct, BuilderKey

\* One more run is that of one call.
LEMMA RunsGrow ==
  ASSUME ChatTypeOK, NEW run \in [id : Nat, args : Seq(Nat \X Nat)], chatRan' = Append(chatRan, run)
  PROVE  /\ chatRan'[Len(chatRan) + 1] = run /\ Len(chatRan) + 1 \in DOMAIN chatRan'
         /\ \A k \in DOMAIN chatRan : k # Len(chatRan) + 1 /\ chatRan'[k] = chatRan[k]
         /\ DOMAIN chatRan' = DOMAIN chatRan \cup {Len(chatRan) + 1}
         /\ \A c : Runs(c)' = IF run.id = c THEN Runs(c) \cup {Len(chatRan) + 1} ELSE Runs(c)
<1>1. /\ Len(chatRan) \in Nat /\ DOMAIN chatRan = 1..Len(chatRan)
      /\ DOMAIN chatRan' = 1..Len(chatRan) + 1 /\ chatRan'[Len(chatRan) + 1] = run
      /\ \A k \in 1..Len(chatRan) : chatRan'[k] = chatRan[k]
  <2> DEFINE S == [id : Nat, args : Seq(Nat \X Nat)]
  <2>1. chatRan \in Seq(S) /\ run \in S
    BY DEF ChatTypeOK
  <2> HIDE DEF S
  <2>2. QED
    BY <2>1, AppendProperties
<1>2. 1..Len(chatRan) + 1 = (1..Len(chatRan)) \cup {Len(chatRan) + 1}
      /\ Len(chatRan) + 1 \notin 1..Len(chatRan)
  BY <1>1
<1>3. /\ chatRan'[Len(chatRan) + 1] = run /\ Len(chatRan) + 1 \in DOMAIN chatRan'
      /\ \A k \in DOMAIN chatRan : k # Len(chatRan) + 1 /\ chatRan'[k] = chatRan[k]
      /\ DOMAIN chatRan' = DOMAIN chatRan \cup {Len(chatRan) + 1}
  BY <1>1, <1>2
<1>4. QED
  BY <1>3 DEF Runs

\* Who writes no result leaves the results as they are.
LEMMA PatchesKept ==
  ASSUME Queued, UNCHANGED completion,
         UNCHANGED out \/ \E code, w : Write(code, w) /\ w.type # "patch"
  PROVE  \A c : Patches(c)' = Patches(c)
<1>1. CASE UNCHANGED out
  BY <1>1 DEF Patches, At
<1>2. CASE \E code, w : Write(code, w) /\ w.type # "patch"
  <2>1. PICK code, w : Write(code, w) /\ w.type # "patch"
    BY <1>2
  <2>2. /\ \A k \in DOMAIN out : k \in DOMAIN out' /\ out'[k] = out[k]
        /\ \A k \in DOMAIN out' : (k \in DOMAIN out /\ out'[k] = out[k]) \/ out'[k] = w
    BY <2>1, OutGrows
  <2>3. QED
    BY <2>1, <2>2 DEF Patches, At
<1>3. QED
  BY <1>1, <1>2

LEMMA FinalsKept ==
  ASSUME Queued, RunsOwn, call.kind = "chat", step # "done",
         UNCHANGED out \/ \E code, w : Write(code, w) /\ w.type \notin {"answer", "done"}
  PROVE  ~ \E k \in DOMAIN out' : out'[k].type \in {"answer", "done"}
<1>1. ~ \E k \in DOMAIN out : out[k].type \in {"answer", "done"}
  BY DEF RunsOwn
<1>2. QED
  BY <1>1, OutGrows

\* A step that puts nothing together and runs nothing.
LEMMA RunsQuiet ==
  ASSUME Queued, RunsOwn, call.kind = "chat", step # "done",
         UNCHANGED <<call, completion, arrived, builders, chatRan, cursor>>,
         step' \notin {"chat", "chat_patch"}, step' = "chat_stream" => step = "chat_stream",
         \/ UNCHANGED out
         \/ \E code, w : Write(code, w) /\ w.type \notin {"patch", "answer", "done"}
  PROVE  RunsOwn'
<1>1. \A c : Patches(c)' = Patches(c)
  BY PatchesKept
<1>2. ~ \E k \in DOMAIN out' : out'[k].type \in {"answer", "done"}
  BY FinalsKept
<1>3. \A c : Runs(c)' = Runs(c) /\ Made(c)' = Made(c) /\ IsInterpreter(c)' = IsInterpreter(c)
             /\ BuilderKey(c)' = BuilderKey(c)
  BY DEF Runs, Made, IsInterpreter, BuilderKey
<1>4. ASSUME call.stream PROVE Built'
  <2>1. \A c \in DOMAIN completion.calls :
          IF Runs(c)' = {} THEN Patches(c)' = {} ELSE \E k \in DOMAIN out' : Patches(c)' = {k}
    <3>1. \A c, k : Patches(c)' = {k} => k \in DOMAIN out'
      BY DEF Patches
    <3>2. QED
      BY <1>1, <1>3, <1>4, <3>1 DEF RunsOwn, Built
  <2>2. QED
    BY <1>3, <1>4, <2>1 DEF RunsOwn, Built
<1>5. QED
  BY <1>2, <1>3, <1>4 DEF RunsOwn

\* An answer in one piece, with the calls of the tool that it makes.
LEMMA CompletionRuns ==
  ASSUME IInv, RunsOwn, Chat, NEW r \in Completions, ReceiveCompletion(r)
  PROVE  RunsOwn'
<1>1. /\ step = "chat" /\ ~call.stream /\ call' = call /\ call.kind = "chat" /\ Queued
      /\ cursor' = 1 /\ chatRan' = <<>> /\ completion' = r /\ out = <<>>
  BY DEF IInv, Arriving, Ownership, ChatSteps, ChatInit, ReceiveCompletion, RunsOwn
<1>2. (step' = "chat_patch" /\ out' = out) \/ step' = "done"
  BY DEF ReceiveCompletion, clientVars
<1>3. CASE step' = "chat_patch" /\ out' = out
  BY <1>1, <1>3, CompletionFields DEF RunsOwn
<1>4. CASE step' = "done"
  <2>1. \/ \E code, w : Write(code, w) /\ w.type \notin {"answer", "done"}
        \/ ~HasCalls(r)
    BY <1>4 DEF ReceiveCompletion, ApiError, Written
  <2>2. CASE ~HasCalls(r)
    <3>1. AllHaveRun'
      BY <1>1, <2>2 DEF AllHaveRun, HasCalls, IsInterpreter
    <3>2. QED
      BY <1>1, <1>4, <3>1 DEF RunsOwn
  <2>3. CASE \E code, w : Write(code, w) /\ w.type \notin {"answer", "done"}
    <3>1. ~ \E k \in DOMAIN out' : out'[k].type \in {"answer", "done"}
      BY <1>1, <2>3, FinalsKept
    <3>2. QED
      BY <1>1, <1>4, <3>1 DEF RunsOwn
  <2>4. QED
    BY <2>1, <2>2, <2>3
<1>5. QED
  BY <1>2, <1>3, <1>4

\* The next call of an answer in one piece.
LEMMA PatchRuns ==
  ASSUME IInv, RunsOwn, PatchCall
  PROVE  RunsOwn'
<1>1. /\ step = "chat_patch" /\ ~call.stream /\ call.kind = "chat" /\ ChatTypeOK
      /\ UNCHANGED <<step, call, out, completion>> /\ cursor' = cursor + 1
      /\ cursor \in DOMAIN completion.calls /\ cursor \in Nat
  <2>1. ChatTypeOK /\ Ownership
    BY DEF IInv
  <2>2. cursor \in Nat
    BY <2>1 DEF ChatTypeOK
  <2>3. QED
    BY <2>1, <2>2 DEF Ownership, PatchCall, sharedVars, clientVars, ChatSteps
<1>2. ~ \E k \in DOMAIN out' : out'[k].type \in {"answer", "done"}
  BY <1>1 DEF RunsOwn
<1>3. \A c \in DOMAIN completion.calls : c \in Nat /\ (c < cursor + 1 <=> c < cursor \/ c = cursor)
  BY <1>1, CallFields
<1>4. \A c : Made(c)' = Made(c) /\ IsInterpreter(c)' = IsInterpreter(c)
  BY <1>1 DEF Made, IsInterpreter
<1>5. CASE ~IsInterpreter(cursor)
  <2>1. chatRan' = chatRan
    BY <1>5 DEF PatchCall
  <2>2. \A c : Runs(c)' = Runs(c)
    BY <2>1 DEF Runs
  <2>3. \A k \in DOMAIN chatRan : chatRan[k].id < cursor + 1
    BY <1>1, <1>3 DEF RunsOwn
  <2>4. QED
    BY <1>1, <1>2, <1>3, <1>4, <1>5, <2>1, <2>2, <2>3 DEF RunsOwn
<1>6. CASE IsInterpreter(cursor)
  <2> DEFINE run == [id |-> cursor, args |-> ChatArgs(cursor, completion.calls[cursor].pieces)]
             last == Len(chatRan) + 1
  <2>1. chatRan' = Append(chatRan, run) /\ run.id = cursor /\ run.args = ChatArgs(cursor, Made(cursor))
    BY <1>1, <1>6 DEF PatchCall, Made
  <2>2. run \in [id : Nat, args : Seq(Nat \X Nat)]
    BY <1>1, CallFields, ArgsType
  <2> HIDE DEF run, last
  <2>3. /\ chatRan'[last] = run /\ last \in DOMAIN chatRan'
        /\ \A k \in DOMAIN chatRan : k # last /\ chatRan'[k] = chatRan[k]
        /\ DOMAIN chatRan' = DOMAIN chatRan \cup {last}
        /\ \A c : Runs(c)' = IF run.id = c THEN Runs(c) \cup {last} ELSE Runs(c)
    BY <1>1, <2>1, <2>2, RunsGrow DEF last
  <2>4. \A k \in DOMAIN chatRan : chatRan[k].id # cursor /\ chatRan[k].id < cursor + 1
    BY <1>1, <1>3 DEF RunsOwn
  <2>5. \A k \in DOMAIN chatRan' :
          /\ chatRan'[k].id \in DOMAIN completion.calls /\ IsInterpreter(chatRan'[k].id)
          /\ chatRan'[k].args = ChatArgs(chatRan'[k].id, Made(chatRan'[k].id))
          /\ chatRan'[k].id < cursor + 1
    BY <1>1, <1>3, <1>6, <2>1, <2>3, <2>4 DEF RunsOwn
  <2>6. \A j, k \in DOMAIN chatRan' : chatRan'[j].id = chatRan'[k].id => j = k
    BY <1>1, <2>1, <2>3, <2>4 DEF RunsOwn
  <2>7. \A c \in DOMAIN completion.calls : c < cursor + 1 /\ IsInterpreter(c) => Runs(c)' # {}
    BY <1>1, <1>3, <2>1, <2>3 DEF RunsOwn
  <2>8. QED
    BY <1>1, <1>2, <1>4, <2>5, <2>6, <2>7 DEF RunsOwn
<1>7. QED
  BY <1>5, <1>6

LEMMA AnswerRuns ==
  ASSUME IInv, RunsOwn, AnswerChat
  PROVE  RunsOwn'
<1>1. /\ step = "chat_patch" /\ step' = "done" /\ ~call.stream /\ call.kind = "chat" /\ ChatTypeOK
      /\ UNCHANGED <<call, completion, chatRan, cursor>> /\ cursor > Len(completion.calls)
  BY DEF IInv, Ownership, AnswerChat, chatVars, ChatSteps
<1>2. \A c : Made(c)' = Made(c) /\ IsInterpreter(c)' = IsInterpreter(c) /\ Runs(c)' = Runs(c)
  BY <1>1 DEF Made, IsInterpreter, Runs
<1>3. \A c \in DOMAIN completion.calls : c < cursor
  BY <1>1, CompletionFields DEF ChatTypeOK
<1>4. AllHaveRun'
  BY <1>1, <1>2, <1>3 DEF RunsOwn, AllHaveRun
<1>5. QED
  BY <1>1, <1>2, <1>4 DEF RunsOwn

\* A stream begins with nothing put together.
LEMMA OpenRuns ==
  ASSUME IInv, RunsOwn, Chat, NEW r \in Completions, OpenStream(r)
  PROVE  RunsOwn'
<1>1. /\ step = "chat" /\ call.stream /\ call' = call /\ call.kind = "chat" /\ Queued
      /\ UNCHANGED <<builders, chatRan, cursor>> /\ builders = <<>> /\ chatRan = <<>> /\ out = <<>>
  BY DEF IInv, Arriving, Ownership, ChatSteps, ChatInit, OpenStream, RunsOwn
<1>2. CASE r.status = "error"
  <2>1. step' = "done" /\ UNCHANGED <<completion, arrived>> /\ Write(500, Written("forwarded", <<>>, 0))
    BY <1>2 DEF OpenStream
  <2>2. QED
    BY <1>1, <2>1, RunsQuiet DEF Written
<1>3. CASE r.status # "error"
  <2>1. step' = "chat_stream" /\ completion' = r /\ arrived' = [c \in DOMAIN r.calls |-> 0] /\ out' = out
    BY <1>3 DEF OpenStream, clientVars
  <2>2. \A c : Runs(c)' = {} /\ Patches(c)' = {}
    BY <1>1, <2>1 DEF Runs, Patches
  <2>3. DOMAIN builders' = {}
    BY <1>1
  <2>4. {d \in DOMAIN arrived' : arrived'[d] > 0} = {}
    BY <2>1
  <2>5. Built'
    BY <1>1, <2>1, <2>2, <2>3, <2>4 DEF Built
  <2>6. QED
    BY <1>1, <2>1, <2>5 DEF RunsOwn
<1>4. QED
  BY <1>2, <1>3

\* A piece of a call, put behind those before it.
LEMMA PieceRuns ==
  ASSUME CallsDistinct, IInv, RunsOwn, Chat, NEW c \in DOMAIN arrived, NEW usage \in Usages,
         PieceArrives(c, usage)
  PROVE  RunsOwn'
<1> DEFINE n == arrived[c]
           key == BuilderKey(c)
<1>1. /\ step = "chat_stream" /\ call.stream /\ call.kind = "chat" /\ Queued /\ ChatTypeOK
      /\ UNCHANGED <<step, call, completion, chatRan, cursor>>
      /\ arrived' = [arrived EXCEPT ![c] = @ + 1] /\ builders' = Collected(c, n + 1)
  <2>1. ChatTypeOK /\ Ownership /\ Queued
    BY DEF IInv
  <2>2. QED
    BY <2>1 DEF Ownership, PieceArrives, ChatSteps
<1>2. /\ c \in DOMAIN completion.calls /\ n \in Nat /\ c \in Nat /\ Built /\ chatRan = <<>>
      /\ DOMAIN arrived' = DOMAIN completion.calls /\ DOMAIN arrived = DOMAIN completion.calls
  <2>1. Built /\ chatRan = <<>> /\ DOMAIN arrived = DOMAIN completion.calls
    BY <1>1 DEF RunsOwn, Built
  <2>2. n \in Nat
    BY <1>1 DEF ChatTypeOK
  <2>3. QED
    BY <1>1, <2>1, <2>2, CallFields
<1>3. \E w : Write(200, w) /\ w.type \notin {"patch", "answer", "done"}
  BY DEF PieceArrives, Written
<1>4. /\ \A d : Patches(d)' = Patches(d)
      /\ ~ \E k \in DOMAIN out' : out'[k].type \in {"answer", "done"}
  BY <1>1, <1>3, PatchesKept, FinalsKept
<1>5. \A d : Runs(d)' = {} /\ Runs(d) = {} /\ BuilderKey(d)' = BuilderKey(d)
  BY <1>1, <1>2 DEF Runs, BuilderKey
<1>6. n > 0 <=> key \in DOMAIN builders
  <2>1. ASSUME key \in DOMAIN builders PROVE n > 0
    <3>1. PICK d \in DOMAIN arrived : arrived[d] > 0 /\ key = BuilderKey(d)
      BY <1>2, <2>1 DEF Built
    <3>2. c = d
      BY <1>1, <1>2, <3>1, KeysDistinct
    <3>3. QED
      BY <3>1, <3>2
  <2>2. QED
    BY <1>2, <2>1 DEF Built
<1>7. /\ DOMAIN builders' = DOMAIN builders \cup {key}
      /\ builders'[key] = [id |-> c, name |-> completion.calls[c].name, args |-> ChatArgs(c, n + 1)]
      /\ \A k \in DOMAIN builders : k # key => builders'[k] = builders[k]
  <2> DEFINE old == IF key \in DOMAIN builders THEN builders[key]
                    ELSE [id |-> 0, name |-> "none", args |-> <<>>]
  <2>1. n > 0 => old = [id |-> c, name |-> completion.calls[c].name, args |-> ChatArgs(c, n)]
    BY <1>2, <1>6 DEF Built
  <2>2. n = 0 => old = [id |-> 0, name |-> "none", args |-> <<>>] /\ ChatArgs(c, n) = <<>>
    BY <1>6 DEF ChatArgs
  <2>3. old.args = ChatArgs(c, n) /\ (n > 0 => old.id = c /\ old.name = completion.calls[c].name)
    <3>1. n > 0 \/ n = 0
      BY <1>2
    <3>2. QED
      BY <2>1, <2>2, <3>1
  <2>4. Append(ChatArgs(c, n), <<c, n + 1>>) = ChatArgs(c, n + 1)
    BY <1>2 DEF ChatArgs
  <2> DEFINE new == [id |-> IF n + 1 = 1 THEN c ELSE old.id,
                     name |-> IF n + 1 = 1 THEN completion.calls[c].name ELSE old.name,
                     args |-> Append(old.args, <<c, n + 1>>)]
  <2>5. builders' = [k \in DOMAIN builders \cup {key} |-> IF k = key THEN new ELSE builders[k]]
    BY <1>1 DEF Collected
  <2>6. n + 1 = 1 \/ n > 0
    BY <1>2
  <2>7. new = [id |-> c, name |-> completion.calls[c].name, args |-> ChatArgs(c, n + 1)]
    BY <2>3, <2>4, <2>6
  <2> HIDE DEF new, old
  <2>8. QED
    BY <2>5, <2>7
<1>8. /\ arrived'[c] = n + 1 /\ n + 1 > 0
      /\ \A d \in DOMAIN arrived : d # c => arrived'[d] = arrived[d]
  BY <1>1, <1>2
<1>9. DOMAIN builders' = {BuilderKey(d) : d \in {d \in DOMAIN arrived' : arrived'[d] > 0}}
  <2>1. DOMAIN builders = {BuilderKey(d) : d \in {d \in DOMAIN arrived : arrived[d] > 0}}
    BY <1>2 DEF Built
  <2>2. {d \in DOMAIN arrived' : arrived'[d] > 0} = {d \in DOMAIN arrived : arrived[d] > 0} \cup {c}
    BY <1>2, <1>8
  <2> HIDE DEF n, key
  <2>3. QED
    BY <1>7, <2>1, <2>2 DEF key
<1>10. ASSUME NEW d \in DOMAIN arrived', arrived'[d] > 0
       PROVE  builders'[BuilderKey(d)] =
                [id |-> d, name |-> completion.calls[d].name, args |-> ChatArgs(d, arrived'[d])]
  <2>1. CASE d = c
    BY <1>7, <1>8, <2>1
  <2>2. CASE d # c
    <3>1. BuilderKey(d) # key /\ arrived[d] > 0 /\ arrived'[d] = arrived[d]
      BY <1>1, <1>2, <1>8, <1>10, <2>2, KeysDistinct
    <3>2. BuilderKey(d) \in DOMAIN builders
          /\ builders[BuilderKey(d)] =
               [id |-> d, name |-> completion.calls[d].name, args |-> ChatArgs(d, arrived[d])]
      BY <1>2, <1>10, <3>1 DEF Built
    <3>3. QED
      BY <1>7, <3>1, <3>2
  <2>3. QED
    BY <2>1, <2>2
<1>11. Built'
  <2>1. \A d \in DOMAIN completion.calls : Patches(d)' = {}
    BY <1>2, <1>4, <1>5 DEF Built
  <2>2. DOMAIN builders' = {BuilderKey(d)' : d \in {d \in DOMAIN arrived' : arrived'[d] > 0}}
    BY <1>5, <1>9
  <2>3. \A d \in DOMAIN arrived' : arrived'[d] > 0 =>
          builders'[BuilderKey(d)'] =
            [id |-> d, name |-> completion'.calls[d].name, args |-> ChatArgs(d, arrived'[d])]
    BY <1>1, <1>5, <1>10
  <2>4. QED
    BY <1>1, <1>2, <1>5, <2>1, <2>2, <2>3 DEF Built
<1>12. QED
  BY <1>1, <1>2, <1>4, <1>11 DEF RunsOwn

\* A call of the tool that has come whole, run with what has come of it.
LEMMA RunBuilderRuns ==
  ASSUME CallsDistinct, IInv, RunsOwn, NEW key \in DOMAIN builders, RunBuilder(key)
  PROVE  RunsOwn'
<1>1. /\ step = "chat_execute" /\ call.stream /\ call.kind = "chat" /\ Queued /\ ChatTypeOK
      /\ UNCHANGED <<step, call, completion, arrived, builders>> /\ Built
      /\ builders[key].name = "ci" /\ ~HasRun(key)
  <2>1. ChatTypeOK /\ Ownership /\ Queued
    BY DEF IInv
  <2>2. QED
    BY <2>1 DEF Ownership, RunBuilder, ChatSteps, MayRunNext, Waiting, RunsOwn
<1>2. PICK c \in DOMAIN arrived : arrived[c] > 0 /\ key = BuilderKey(c)
  BY <1>1 DEF Built
<1> DEFINE run == [id |-> builders[key].id, args |-> builders[key].args]
           last == Len(chatRan) + 1
           new == Patch(key)
<1>3. /\ c \in DOMAIN completion.calls /\ Made(c) = arrived[c] /\ c \in Nat /\ arrived[c] \in Nat
      /\ builders[key] = [id |-> c, name |-> completion.calls[c].name, args |-> ChatArgs(c, arrived[c])]
  <2>1. c \in DOMAIN completion.calls /\ arrived[c] \in Nat
    BY <1>1, <1>2 DEF Built, ChatTypeOK
  <2>2. QED
    BY <1>1, <1>2, <2>1, CallFields DEF Built, Made
<1>4. /\ IsInterpreter(c) /\ run.id = c /\ run.args = ChatArgs(c, Made(c))
      /\ run \in [id : Nat, args : Seq(Nat \X Nat)]
  BY <1>1, <1>3, ArgsType DEF IsInterpreter
<1>5. new.type = "patch" /\ new.items = <<At(c), c>>
  BY <1>2, <1>3 DEF Patch, Written, At, BuilderKey
<1>6. chatRan' = Append(chatRan, run) /\ Write(200, new)
  BY DEF RunBuilder
<1> HIDE DEF run, new, last
<1>7. /\ chatRan'[last] = run /\ last \in DOMAIN chatRan'
      /\ \A k \in DOMAIN chatRan : k # last /\ chatRan'[k] = chatRan[k]
      /\ DOMAIN chatRan' = DOMAIN chatRan \cup {last}
      /\ \A d : Runs(d)' = IF run.id = d THEN Runs(d) \cup {last} ELSE Runs(d)
  BY <1>1, <1>4, <1>6, RunsGrow DEF last
<1>8. \A k \in DOMAIN chatRan : chatRan[k].id # c
  BY <1>1, <1>3 DEF HasRun
<1>9. /\ Len(out) + 1 \in DOMAIN out' /\ Len(out) + 1 \notin DOMAIN out /\ out'[Len(out) + 1] = new
      /\ \A k \in DOMAIN out : k \in DOMAIN out' /\ out'[k] = out[k]
      /\ \A k \in DOMAIN out' : k \in DOMAIN out \/ k = Len(out) + 1
  <2>1. out \in Seq(Range(out)) /\ out' = Append(out, new)
    BY <1>1, <1>6 DEF Queued, Write
  <2>2. out \in Seq(Range(out) \cup {new})
    BY <2>1, OutputType
  <2>3. QED
    BY <2>1, <2>2, AppendProperties
<1>10. Patches(c)' = {Len(out) + 1}
  <2>1. Patches(c) = {}
    BY <1>1, <1>3, <1>8 DEF RunsOwn, Built, Runs
  <2>2. QED
    BY <1>1, <1>5, <1>9, <2>1 DEF Patches, At
<1>11. \A d \in DOMAIN completion.calls : d # c => Patches(d)' = Patches(d) /\ Runs(d)' = Runs(d)
  <2>1. \A d : d # c => new.items # <<At(d), d>>
    BY <1>5
  <2>2. \A d : d # c => Patches(d)' = Patches(d)
    BY <1>1, <1>9, <2>1 DEF Patches, At
  <2>3. QED
    BY <1>4, <1>7, <2>2
<1>12. ~ \E k \in DOMAIN out' : out'[k].type \in {"answer", "done"}
  BY <1>1, <1>5, <1>6, FinalsKept
<1>13. \A d : Made(d)' = Made(d) /\ IsInterpreter(d)' = IsInterpreter(d) /\ BuilderKey(d)' = BuilderKey(d)
  BY <1>1 DEF Made, IsInterpreter, BuilderKey
<1>14. \A k \in DOMAIN chatRan' :
         /\ chatRan'[k].id \in DOMAIN completion.calls /\ IsInterpreter(chatRan'[k].id)
         /\ chatRan'[k].args = ChatArgs(chatRan'[k].id, Made(chatRan'[k].id))
  BY <1>1, <1>3, <1>4, <1>7 DEF RunsOwn
<1>15. \A j, k \in DOMAIN chatRan' : chatRan'[j].id = chatRan'[k].id => j = k
  BY <1>1, <1>4, <1>7, <1>8 DEF RunsOwn
<1>16. Built'
  <2>1. \A d \in DOMAIN completion.calls :
          IF Runs(d)' = {} THEN Patches(d)' = {} ELSE \E k \in DOMAIN out' : Patches(d)' = {k}
    <3>1. Runs(c)' # {}
      BY <1>4, <1>7
    <3>2. ASSUME NEW d \in DOMAIN completion.calls, d # c
          PROVE IF Runs(d)' = {} THEN Patches(d)' = {} ELSE \E k \in DOMAIN out' : Patches(d)' = {k}
      <4>1. IF Runs(d) = {} THEN Patches(d) = {} ELSE \E k \in DOMAIN out : Patches(d) = {k}
        BY <1>1 DEF Built
      <4>2. QED
        BY <1>9, <1>11, <3>2, <4>1
    <3>3. QED
      BY <1>9, <1>10, <3>1, <3>2
  <2>2. QED
    BY <1>1, <1>13, <2>1 DEF Built
<1>17. QED
  BY <1>1, <1>12, <1>13, <1>14, <1>15, <1>16 DEF RunsOwn

\* A stream comes to its end when each of its calls of the tool has run.
LEMMA FinishRuns ==
  ASSUME IInv, RunsOwn, FinishChat
  PROVE  RunsOwn'
<1>1. /\ step = "chat_execute" /\ step' = "done" /\ call.stream /\ call.kind = "chat" /\ Queued /\ Built
      /\ UNCHANGED <<call, completion, arrived, builders, chatRan, cursor>> /\ Waiting = {}
  BY DEF IInv, Ownership, FinishChat, ChatSteps, chatVars, RunsOwn
<1>2. \A c : /\ Made(c)' = Made(c) /\ IsInterpreter(c)' = IsInterpreter(c)
             /\ Runs(c)' = Runs(c) /\ BuilderKey(c)' = BuilderKey(c)
  BY <1>1 DEF Made, IsInterpreter, Runs, BuilderKey
<1>3. \/ UNCHANGED out
      \/ \E code, w : Write(code, w) /\ w.type # "patch"
  BY DEF FinishChat, Written
<1>4. \A c : Patches(c)' = Patches(c)
  BY <1>1, <1>3, PatchesKept
<1>5. AllHaveRun
  <2>1. ASSUME NEW c \in DOMAIN completion.calls, IsInterpreter(c), Made(c) > 0
        PROVE  Runs(c) # {}
    <3>1. BuilderKey(c) \in DOMAIN builders
          /\ builders[BuilderKey(c)].id = c /\ builders[BuilderKey(c)].name = "ci"
      <4>1. c \in DOMAIN arrived /\ arrived[c] > 0 /\ completion.calls[c].name = "ci"
        BY <1>1, <2>1 DEF Built, Made, IsInterpreter
      <4>2. /\ BuilderKey(c) \in DOMAIN builders
            /\ builders[BuilderKey(c)] =
                 [id |-> c, name |-> completion.calls[c].name, args |-> ChatArgs(c, arrived[c])]
        BY <1>1, <4>1 DEF Built
      <4>3. QED
        BY <4>1, <4>2
    <3>2. HasRun(BuilderKey(c))
      BY <1>1, <3>1 DEF Waiting
    <3>3. QED
      BY <3>1, <3>2 DEF HasRun, Runs
  <2>2. QED
    BY <2>1 DEF AllHaveRun
<1>6. Built'
  <2>1. \A c \in DOMAIN completion.calls :
          IF Runs(c)' = {} THEN Patches(c)' = {} ELSE \E k \in DOMAIN out' : Patches(c)' = {k}
    <3>1. \A c, k : Patches(c)' = {k} => k \in DOMAIN out'
      BY DEF Patches
    <3>2. QED
      BY <1>1, <1>2, <1>4, <3>1 DEF Built
  <2>2. QED
    BY <1>1, <1>2, <2>1 DEF Built
<1>7. AllHaveRun'
  BY <1>1, <1>2, <1>5 DEF AllHaveRun
<1>8. QED
  BY <1>1, <1>2, <1>6, <1>7 DEF RunsOwn

LEMMA ChatRuns ==
  ASSUME CallsDistinct, IInv, RunsOwn, Chat
  PROVE  RunsOwn'
<1>1. step \in ChatSteps /\ call' = call /\ call.kind = "chat" /\ Queued /\ Ownership /\ ChatNext
  BY ChatStays DEF IInv, Ownership, Chat
<1>2. CASE \E r \in Completions : ReceiveCompletion(r) \/ OpenStream(r)
  BY <1>2, CompletionRuns, OpenRuns
<1>3. CASE \E c \in DOMAIN arrived, usage \in Usages : PieceArrives(c, usage)
  BY <1>3, PieceRuns
<1>4. CASE \E key \in DOMAIN builders : RunBuilder(key)
  BY <1>4, RunBuilderRuns
<1>5. CASE PatchCall \/ AnswerChat \/ FinishChat
  BY <1>5, PatchRuns, AnswerRuns, FinishRuns
<1>6. CASE ChatFails \/ PatchFails
  BY <1>1, <1>6, RunsQuiet DEF ChatFails, PatchFails, ApiError, Written, chatVars, ChatSteps
<1>7. CASE BreakStream \/ RunBuilderFails \/ EndStream
  BY <1>1, <1>7, RunsQuiet
  DEF BreakStream, RunBuilderFails, EndStream, ReturnError, clientVars, chatVars, ChatSteps
<1>8. CASE \E type \in {"text", "odd", "usage"}, usage \in Usages : ChunkArrives(type, usage)
  BY <1>1, <1>8, RunsQuiet DEF ChunkArrives, clientVars, Written, ChatSteps
<1>9. QED
  BY <1>1, <1>2, <1>3, <1>4, <1>5, <1>6, <1>7, <1>8 DEF ChatNext

LEMMA RunsStep == ASSUME CallsDistinct, IInv, RunsOwn, [Next]_vars PROVE RunsOwn'
<1>1. CASE Plan
  <2>1. (PlanGoesOn \/ PlanAnswers \/ RunnerStarts) /\ step \in PlanSteps /\ Ownership
    BY <1>1, PlanEffect DEF IInv, Plan
  <2>2. UNCHANGED chatVars /\ ChatInit /\ out = <<>>
    BY <1>1, <2>1 DEF Plan, Ownership, NoCall
  <2>3. CASE call'.kind = "chat"
    <3>1. step' = "chat" /\ out' = out
      BY <2>1, <2>2, <2>3 DEF PlanGoesOn, PlanAnswers, RunnerStarts, Ownership, NoCall, clientVars
    <3>2. chatRan' = <<>> /\ builders' = <<>> /\ arrived' = <<>> /\ completion' = NoCompletion /\ out' = <<>>
      BY <2>2, <3>1 DEF ChatInit, chatVars
    <3>3. Built'
      BY <3>2 DEF Built, NoCompletion
    <3>4. QED
      BY <3>1, <3>2, <3>3 DEF RunsOwn
  <2>4. CASE call'.kind # "chat"
    BY <2>4 DEF RunsOwn
  <2>5. QED
    BY <2>3, <2>4
<1>2. CASE Responses
  BY <1>2, LoopStays DEF RunsOwn
<1>3. CASE Chat
  BY <1>3, ChatRuns
<1>4. CASE Report
  <2>1. /\ step = "failed" /\ step' = "done" /\ UNCHANGED call /\ UNCHANGED chatVars
        /\ Write(502, Written("error", <<>>, 0)) /\ Queued
    BY <1>4 DEF Report, ReportError, ApiError, IInv
  <2>2. CASE call.kind = "chat"
    BY <2>1, <2>2, RunsQuiet DEF chatVars, Written
  <2>3. CASE call.kind # "chat"
    BY <2>1, <2>3 DEF RunsOwn
  <2>4. QED
    BY <2>2, <2>3
<1>5. CASE UNCHANGED vars
  <2>1. UNCHANGED <<step, call, out, completion, arrived, builders, chatRan, cursor>>
    BY <1>5 DEF vars, sharedVars, clientVars, chatVars
  <2>2. \A c : /\ Made(c)' = Made(c) /\ IsInterpreter(c)' = IsInterpreter(c) /\ Runs(c)' = Runs(c)
               /\ BuilderKey(c)' = BuilderKey(c) /\ Patches(c)' = Patches(c)
    BY <2>1 DEF Made, IsInterpreter, Runs, BuilderKey, Patches, At
  <2>3. (AllHaveRun' <=> AllHaveRun) /\ (Built' <=> Built)
    BY <2>1, <2>2 DEF AllHaveRun, Built
  <2>4. QED
    BY <2>1, <2>2, <2>3 DEF RunsOwn
<1>6. QED
  BY <1>1, <1>2, <1>3, <1>4, <1>5 DEF Next, HandlerEnded

\* However the pieces of several calls are mixed, each call of the tool runs at
\* most once and with its own arguments, and a finished answer has the result of
\* each under its own choice and index (collectChatToolCalls, chat_runner.go).
THEOREM CallsAlwaysRunOnce ==
  ASSUME CallsDistinct
  PROVE  Spec => []CallsRunOnce
<1>1. Init => RunsOwn
  BY DEF Init, SharedInit, NoCall, RunsOwn
<1>2. IInv /\ RunsOwn /\ [Next]_vars => RunsOwn'
  BY RunsStep
<1>3. RunsOwn /\ Queued => CallsRunOnce
  <2> SUFFICES ASSUME RunsOwn, Queued, call.kind = "chat", NEW c \in DOMAIN completion.calls
               PROVE  /\ \A k \in Runs(c) : chatRan[k].args = ChatArgs(c, Made(c))
                      /\ \A j, k \in Runs(c) : j = k
                      /\ Runs(c) # {} => IsInterpreter(c)
                      /\ (Succeeded /\ IsInterpreter(c) /\ Made(c) > 0) =>
                           /\ Runs(c) # {}
                           /\ call.stream => \E k \in Patches(c) : Patches(c) = {k}
    BY DEF CallsRunOnce
  <2>1. \A k \in Runs(c) : k \in DOMAIN chatRan /\ chatRan[k].id = c
    BY DEF Runs
  <2>2. /\ \A k \in Runs(c) : chatRan[k].args = ChatArgs(c, Made(c))
        /\ \A j, k \in Runs(c) : j = k
        /\ Runs(c) # {} => IsInterpreter(c)
    BY <2>1 DEF RunsOwn
  <2>3. ASSUME Succeeded, IsInterpreter(c), Made(c) > 0
        PROVE  Runs(c) # {} /\ (call.stream => \E k \in Patches(c) : Patches(c) = {k})
    <3>1. \E k \in DOMAIN out : out[k].type \in {"answer", "done"}
      <4>1. out \in Seq(Range(out)) /\ out # <<>> /\ Last(out).type \in {"answer", "done"}
        BY <2>3 DEF Succeeded, Queued
      <4>2. Len(out) \in DOMAIN out /\ Last(out) = out[Len(out)]
        BY <4>1 DEF Last
      <4>3. QED
        BY <4>1, <4>2
    <3>2. Runs(c) # {}
      BY <2>3, <3>1 DEF RunsOwn, AllHaveRun
    <3>3. call.stream => \E k : Patches(c) = {k}
      BY <3>2 DEF RunsOwn, Built
    <3>4. QED
      BY <3>2, <3>3
  <2>4. QED
    BY <2>2, <2>3
<1>4. IInv => Queued
  BY DEF IInv
<1>5. QED
  BY <1>1, <1>2, <1>3, <1>4, InvariantHolds, PTL DEF Spec

----------------------------------------------------------------------------
(* What the output tells of the runs *)

LEMMA ToolsFinite ==
  ASSUME NEW items \in Seq(ItemType)
  PROVE  /\ ToolsAt(items) \subseteq 1..Len(items) /\ IsFiniteSet(ToolsAt(items))
         /\ Cardinality(ToolsAt(items)) \in Nat
         /\ \A i \in ToolsAt(items) :
              Cardinality({j \in ToolsAt(items) : j <= i}) \in 1..Cardinality(ToolsAt(items))
<1>1. ToolsAt(items) \subseteq 1..Len(items) /\ Len(items) \in Nat
  BY DEF ToolsAt
<1>2. IsFiniteSet(ToolsAt(items)) /\ Cardinality(ToolsAt(items)) \in Nat
  <2>1. IsFiniteSet(1..Len(items)) /\ ToolsAt(items) \in SUBSET (1..Len(items))
    BY <1>1, FS_Interval
  <2>2. IsFiniteSet(ToolsAt(items))
    BY <2>1, FS_Subset
  <2>3. QED
    BY <2>2, FS_CardinalityType
<1>3. ASSUME NEW i \in ToolsAt(items)
      PROVE  Cardinality({j \in ToolsAt(items) : j <= i}) \in 1..Cardinality(ToolsAt(items))
  <2> DEFINE upTo == {j \in ToolsAt(items) : j <= i}
  <2>1. i \in upTo /\ upTo \in SUBSET ToolsAt(items)
    BY <1>1
  <2> HIDE DEF upTo
  <2>2. IsFiniteSet(upTo) /\ Cardinality(upTo) <= Cardinality(ToolsAt(items))
    BY <1>2, <2>1, FS_Subset
  <2>3. Cardinality(upTo) \in Nat /\ Cardinality(upTo) # 0
    BY <2>1, <2>2, FS_CardinalityType, FS_EmptySet
  <2>4. QED
    BY <1>2, <2>2, <2>3 DEF upTo
<1>4. QED
  BY <1>1, <1>2, <1>3

\* Only the calls of the tool count.
LEMMA ReportsSame ==
  ASSUME NEW items, NEW more, NEW ran, Reports(items, ran), ToolsAt(more) = ToolsAt(items),
         \A i \in ToolsAt(items) : more[i] = items[i]
  PROVE  Reports(more, ran)
BY DEF Reports

LEMMA ReportsNone ==
  /\ Reports(<<>>, <<>>)
  /\ \A items, ran \in Seq(ItemType) : ~HasTool(items) /\ Reports(<<>>, ran) => Reports(items, ran)
<1>1. ToolsAt(<<>>) = {} /\ Len(<<>>) = 0 /\ Cardinality({}) = 0
  BY FS_EmptySet DEF ToolsAt
<1>2. \A items \in Seq(ItemType) : ~HasTool(items) => ToolsAt(items) = {}
  BY DEF HasTool, ToolsAt
<1>3. QED
  BY <1>1, <1>2 DEF Reports

LEMMA ReportsLonger ==
  ASSUME NEW items \in Seq(ItemType), NEW more \in Seq(ItemType), NEW ran, Reports(items, ran),
         ~HasTool(more)
  PROVE  Reports(items \o more, ran)
<1>1. /\ Len(items \o more) = Len(items) + Len(more) /\ DOMAIN (items \o more) = 1..Len(items) + Len(more)
      /\ \A i \in 1..Len(items) : (items \o more)[i] = items[i]
      /\ \A i \in Len(items) + 1..Len(items) + Len(more) : (items \o more)[i] = more[i - Len(items)]
  BY ConcatProperties
<1>2. /\ Len(items) \in Nat /\ Len(more) \in Nat /\ DOMAIN items = 1..Len(items)
      /\ \A i \in 1..Len(more) : ~IsTool(more[i])
  BY DEF HasTool
<1>3. \A i \in DOMAIN (items \o more) : IsTool((items \o more)[i]) <=> i \in 1..Len(items) /\ IsTool(items[i])
  <2>1. ASSUME NEW i \in 1..Len(items) + Len(more), i \notin 1..Len(items)
        PROVE  ~IsTool((items \o more)[i])
    <3>1. i \in Len(items) + 1..Len(items) + Len(more) /\ i - Len(items) \in 1..Len(more)
      BY <1>2, <2>1
    <3>2. QED
      BY <1>1, <1>2, <3>1
  <2>2. QED
    BY <1>1, <2>1
<1>4. 1..Len(items) \subseteq DOMAIN (items \o more)
  BY <1>1, <1>2
<1>5. ToolsAt(items \o more) = ToolsAt(items)
  BY <1>2, <1>3, <1>4 DEF ToolsAt
<1>6. QED
  BY <1>1, <1>2, <1>5, ReportsSame DEF ToolsAt

LEMMA ReportsKept ==
  ASSUME NEW items \in Seq(ItemType), NEW item \in ItemType, NEW ran, Reports(items, ran), ~IsTool(item)
  PROVE  Reports(Append(items, item), ran)
<1>1. Append(items, item) = items \o <<item>> /\ <<item>> \in Seq(ItemType) /\ ~HasTool(<<item>>)
  BY DEF HasTool
<1>2. QED
  BY <1>1, ReportsLonger

LEMMA ReportsRun ==
  ASSUME NEW items \in Seq(ItemType), NEW item \in ItemType, NEW ran \in Seq(ItemType),
         Reports(items, ran), IsTool(item)
  PROVE  Reports(Append(items, item), Append(ran, item))
<1> DEFINE n == Len(items)
           new == Append(items, item)
           tools == ToolsAt(items)
           size == Cardinality(tools)
<1>1. /\ n \in Nat /\ DOMAIN items = 1..n /\ DOMAIN new = 1..n + 1 /\ new[n + 1] = item
      /\ \A i \in 1..n : new[i] = items[i]
  BY AppendProperties
<1>2. /\ tools \subseteq 1..n /\ IsFiniteSet(tools) /\ size \in Nat
      /\ \A i \in tools : Cardinality({j \in tools : j <= i}) \in 1..size
  BY ToolsFinite
<1>3. Len(ran) = size /\ \A i \in tools : items[i] = ran[Cardinality({j \in tools : j <= i})]
  BY DEF Reports
<1>4. ToolsAt(new) = tools \cup {n + 1}
  <2>1. 1..n + 1 = (1..n) \cup {n + 1}
    BY <1>1
  <2> HIDE DEF n, new
  <2>2. QED
    BY <1>1, <2>1 DEF ToolsAt
<1>5. /\ Len(Append(ran, item)) = size + 1 /\ Append(ran, item)[size + 1] = item
      /\ \A c \in 1..size : Append(ran, item)[c] = ran[c]
  BY <1>3, AppendProperties
<1>6. n + 1 \notin tools
  BY <1>1, <1>2
<1> HIDE DEF n, new, tools, size
<1>7. Cardinality(tools \cup {n + 1}) = size + 1
  BY <1>2, <1>6, FS_AddElement DEF size
<1>8. ASSUME NEW i \in tools \cup {n + 1}
      PROVE  new[i] = Append(ran, item)[Cardinality({j \in tools \cup {n + 1} : j <= i})]
  <2>1. CASE i \in tools
    <3>1. {j \in tools \cup {n + 1} : j <= i} = {j \in tools : j <= i}
      BY <1>1, <1>2, <2>1
    <3>2. new[i] = items[i] /\ Cardinality({j \in tools : j <= i}) \in 1..size
      BY <1>1, <1>2, <2>1
    <3>3. QED
      BY <1>3, <1>5, <2>1, <3>1, <3>2
  <2>2. CASE i = n + 1
    <3>1. \A j \in tools \cup {n + 1} : j <= n + 1
      <4>1. \A j \in 1..n : j <= n + 1
        BY <1>1
      <4>2. tools \subseteq 1..n /\ n + 1 <= n + 1
        BY <1>1, <1>2
      <4>3. QED
        BY <4>1, <4>2
    <3>2. {j \in tools \cup {n + 1} : j <= i} = tools \cup {n + 1}
      BY <2>2, <3>1
    <3>3. QED
      BY <1>1, <1>5, <1>7, <2>2, <3>2
  <2>3. QED
    BY <2>1, <2>2
<1>9. QED
  BY <1>4, <1>5, <1>7, <1>8 DEF Reports, new

FinalsReport == \A k \in DOMAIN out : Final(out[k]) => Reports(out[k].items, executed)
NoToolRead ==
  step = "stream" /\ ~hadTool =>
    \A i \in DOMAIN reply.items : i < at \/ (i = at /\ part > 1) => ~IsTool(reply.items[i])

\* While nothing runs, it is enough that what is written reports the runs.
LEMMA WriteReports ==
  ASSUME Queued, FinalsReport, UNCHANGED executed,
         UNCHANGED out \/ \E code, w : Write(code, w) /\ (Final(w) => Reports(w.items, executed))
  PROVE  FinalsReport'
<1>1. CASE UNCHANGED out
  BY <1>1 DEF FinalsReport, Final
<1>2. CASE \E code, w : Write(code, w) /\ (Final(w) => Reports(w.items, executed))
  <2>1. PICK code, w : Write(code, w) /\ (Final(w) => Reports(w.items, executed))
    BY <1>2
  <2>2. \A k \in DOMAIN out' : (k \in DOMAIN out /\ out'[k] = out[k]) \/ out'[k] = w
    BY <2>1, OutGrows
  <2>3. QED
    BY <2>1, <2>2 DEF FinalsReport, Final
<1>3. QED
  BY <1>1, <1>2

LEMMA ReadReports ==
  ASSUME IInv, RunIsPublic, ReadEvent
  PROVE  RunIsPublic'
<1> DEFINE event == NextEvent
           length == Len(ItemEvents(reply.items[at]))
<1>1. /\ step = "stream" /\ step' = "stream" /\ call.kind = "responses" /\ MoreEvents /\ queue' = Translated(event)
      /\ UNCHANGED <<call, out, public, executed, reply>> /\ ResponsesTypeOK /\ StreamPlace
      /\ hadTool' = (hadTool \/ event.type \in {"added", "done"} \/ event.item \in known)
      /\ IF InItems /\ part < length THEN part' = part + 1 /\ at' = at ELSE part' = 1 /\ at' = at + 1
  BY DEF ReadEvent, IInv, Ownership, LoopSteps, clientVars
<1>2. /\ event.item \in ItemType
      /\ InItems => /\ reply.items # <<>>
                    /\ \/ length = 1 /\ part = 1 /\ event.type = "other"
                       \/ length = 4 /\ part = 1 /\ event.type = "added"
                       \/ length = 4 /\ part = 2 /\ event.type = "delta"
                       \/ length = 4 /\ part = 3 /\ event.type = "arguments"
                       \/ length = 4 /\ part = 4 /\ event.type = "done"
      /\ ~ InItems => /\ at = Len(reply.items) + 1 /\ part = 1
                      /\ event.type \in {"completed", "incomplete"}
  BY <1>1, NextEventIs
<1>3. \A k \in DOMAIN queue' : Final(queue'[k]) =>
         event.type = "completed" /\ ~hadTool /\ public = <<>> /\ queue'[k].items = reply.items
  <2>1. event.type \in {"added", "delta", "arguments", "done", "other", "completed", "incomplete"}
    BY <1>2
  <2> HIDE DEF event
  <2>2. QED
    BY <1>1, <1>2, <2>1, TranslatedIs
<1>4. /\ reply.items \in Seq(ItemType) /\ Len(reply.items) \in Nat /\ at \in Nat /\ part \in Nat
      /\ DOMAIN reply.items = 1..Len(reply.items) /\ executed \in Seq(ItemType)
  BY <1>1 DEF ResponsesTypeOK
<1>5. Reports(public, executed) /\ FinalsReport /\ NoToolRead
  BY <1>1 DEF RunIsPublic, FinalsReport, NoToolRead
<1>6. InItems => (IsTool(reply.items[at]) <=> length = 4)
  BY <1>2 DEF ItemEvents
<1> HIDE DEF event, length
<1>7. \A k \in DOMAIN queue' : Final(queue'[k]) => Reports(queue'[k].items, executed)
  <2> SUFFICES ASSUME NEW k \in DOMAIN queue', Final(queue'[k])
               PROVE  Reports(queue'[k].items, executed)
    OBVIOUS
  <2>1. event.type = "completed" /\ ~hadTool /\ public = <<>> /\ queue'[k].items = reply.items
    BY <1>3
  <2>2. at = Len(reply.items) + 1
    BY <1>2, <2>1
  <2>3. ~HasTool(reply.items)
    BY <1>1, <1>4, <1>5, <2>1, <2>2 DEF NoToolRead, HasTool
  <2>4. QED
    BY <1>4, <1>5, <2>1, <2>3, ReportsNone
<1>8. NoToolRead'
  <2> SUFFICES ASSUME ~hadTool', NEW i \in DOMAIN reply.items, i < at' \/ (i = at' /\ part' > 1)
               PROVE  ~IsTool(reply.items[i])
    BY <1>1 DEF NoToolRead
  <2>1. ~hadTool /\ event.type # "added"
    BY <1>1
  <2>2. i < at \/ i = at
    BY <1>1, <1>4
  <2>3. CASE i < at
    BY <1>1, <1>5, <2>1, <2>3 DEF NoToolRead
  <2>4. CASE i = at
    <3>1. InItems
      BY <1>4, <2>4 DEF InItems
    <3>2. length = 4 => part > 1
      BY <1>2, <2>1, <3>1
    <3>3. QED
      BY <1>1, <1>5, <1>6, <2>1, <2>4, <3>1, <3>2 DEF NoToolRead
  <2>5. QED
    BY <2>2, <2>3, <2>4
<1>9. QED
  BY <1>1, <1>5, <1>7, <1>8 DEF RunIsPublic, FinalsReport, NoToolRead, Final

LEMMA SettleReports ==
  ASSUME IInv, RunIsPublic, SettleStream
  PROVE  RunIsPublic'
<1> DEFINE last == IF HasUser(reply.items) THEN <<Written("completed", public, total)>> ELSE <<>>
<1>1. /\ step = "process" /\ step' # "stream" /\ call.kind = "responses" /\ queue' = Announcements \o last
      /\ UNCHANGED <<call, out, public, executed>> /\ ResponsesTypeOK
  BY DEF SettleStream, IInv, Ownership, LoopSteps, clientVars
<1>2. Reports(public, executed) /\ FinalsReport
  BY <1>1 DEF RunIsPublic, FinalsReport
<1>3. Announcements \in Seq(EventType) /\ \A k \in DOMAIN Announcements : ~ Final(Announcements[k])
  BY <1>1, AnnouncementsType
<1>4. last \in Seq(EventType) /\ \A k \in DOMAIN last : last[k].items = public
  <2>1. Written("completed", public, total) \in EventType
        /\ Written("completed", public, total).items = public
    BY <1>1 DEF Written, EventType, ResponsesTypeOK
  <2>2. QED
    BY <2>1
<1> DEFINE a == Announcements
<1> HIDE DEF a, last
<1>5. a \in Seq(EventType) /\ (\A k \in DOMAIN a : ~ Final(a[k])) /\ queue' = a \o last
  BY <1>1, <1>3 DEF a
<1>6. /\ Len(a) \in Nat /\ Len(last) \in Nat
      /\ DOMAIN queue' = 1..Len(a) + Len(last) /\ DOMAIN a = 1..Len(a) /\ DOMAIN last = 1..Len(last)
  BY <1>4, <1>5
<1>7. \A k \in DOMAIN queue' : Final(queue'[k]) => queue'[k].items = public
  <2> SUFFICES ASSUME NEW k \in DOMAIN queue', Final(queue'[k]) PROVE queue'[k].items = public
    OBVIOUS
  <2>1. CASE k <= Len(a)
    <3>1. k \in DOMAIN a /\ queue'[k] = a[k]
      BY <1>4, <1>5, <1>6, <2>1
    <3>2. QED
      BY <1>5, <3>1
  <2>2. CASE ~ (k <= Len(a))
    <3>1. k - Len(a) \in DOMAIN last /\ queue'[k] = last[k - Len(a)]
      BY <1>4, <1>5, <1>6, <2>2
    <3>2. QED
      BY <1>4, <3>1
  <2>3. QED
    BY <2>1, <2>2
<1>8. QED
  BY <1>1, <1>2, <1>7 DEF RunIsPublic, FinalsReport, Final

LEMMA EndReports ==
  ASSUME IInv, RunIsPublic, EndAnswer
  PROVE  RunIsPublic'
<1>1. /\ step = "stream" /\ step' # "stream" /\ call.kind = "responses" /\ ~MoreEvents /\ ~hadTool
      /\ UNCHANGED <<call, out, executed>> /\ ResponsesTypeOK /\ queue = <<>>
  BY DEF EndAnswer, IInv, Ownership, LoopSteps, clientVars
<1>2. /\ Reports(public, executed) /\ FinalsReport /\ NoToolRead
  BY <1>1 DEF RunIsPublic, FinalsReport, NoToolRead
<1>3. reply.items \in Seq(ItemType) /\ public \in Seq(ItemType) /\ Len(reply.items) \in Nat /\ at \in Nat
  BY <1>1 DEF ResponsesTypeOK
<1>4. ~HasTool(reply.items)
  <2>1. \A i \in DOMAIN reply.items : i < at
    BY <1>1, <1>3 DEF MoreEvents
  <2>2. QED
    BY <1>1, <1>2, <2>1 DEF NoToolRead, HasTool
<1>5. \/ UNCHANGED <<public, queue>>
      \/ public' = public \o reply.items /\ queue' = <<Written("completed", public', total)>>
  BY DEF EndAnswer, FinalOutput
<1>6. CASE UNCHANGED <<public, queue>>
  BY <1>1, <1>2, <1>6 DEF RunIsPublic, FinalsReport, Final
<1>7. CASE public' = public \o reply.items /\ queue' = <<Written("completed", public', total)>>
  <2>1. Reports(public', executed)
    BY <1>2, <1>3, <1>4, <1>7, ReportsLonger
  <2>2. \A k \in DOMAIN queue' : queue'[k].items = public'
    BY <1>7 DEF Written
  <2>3. QED
    BY <1>1, <1>2, <2>1, <2>2 DEF RunIsPublic, FinalsReport, Final
<1>8. QED
  BY <1>5, <1>6, <1>7

LEMMA WriteEventReports ==
  ASSUME IInv, RunIsPublic, WriteEvent
  PROVE  RunIsPublic'
<1>1. /\ queue # <<>> /\ queue' = Tail(queue) /\ Write(200, [Head(queue) EXCEPT !.n = sequence])
      /\ UNCHANGED <<step, call, public, executed, reply, at, part, hadTool>> /\ Queued
      /\ call.kind = "responses"
  BY DEF WriteEvent, IInv, hopVars, Ownership, LoopSteps
<1>2. /\ Head(queue) \in EventType /\ Head(queue) = queue[1] /\ 1 \in DOMAIN queue
      /\ \A k \in DOMAIN queue' : k + 1 \in DOMAIN queue /\ queue'[k] = queue[k + 1]
  BY <1>1 DEF Queued
<1> DEFINE event == [Head(queue) EXCEPT !.n = sequence]
<1>3. event.type = queue[1].type /\ event.items = queue[1].items
  BY <1>2 DEF EventType
<1>4. Write(200, event)
  BY <1>1
<1> HIDE DEF event
<1>5. /\ Reports(public, executed) /\ FinalsReport /\ NoToolRead
      /\ \A k \in DOMAIN queue : Final(queue[k]) => Reports(queue[k].items, executed)
  BY <1>1 DEF RunIsPublic, FinalsReport, NoToolRead
<1>6. FinalsReport'
  BY <1>1, <1>2, <1>3, <1>4, <1>5, WriteReports DEF Final
<1>7. \A k \in DOMAIN queue' : Final(queue'[k]) => Reports(queue'[k].items, executed)
  BY <1>2, <1>5
<1>8. NoToolRead'
  BY <1>1, <1>5 DEF NoToolRead
<1>9. QED
  BY <1>1, <1>5, <1>6, <1>7, <1>8 DEF RunIsPublic, FinalsReport, NoToolRead, Final

LEMMA LoopReports ==
  ASSUME IInv, RunIsPublic, Responses
  PROVE  RunIsPublic'
<1> USE DEF hopVars, loopVars, responsesVars, sharedVars, clientVars, ReturnError, ApiError
<1>0. /\ call.kind = "responses" /\ call' = call /\ step \in LoopSteps /\ ResponsesNext /\ Queued /\ ResponsesTypeOK
      /\ Reports(public, executed) /\ FinalsReport
      /\ \A k \in DOMAIN queue : Final(queue[k]) => Reports(queue[k].items, executed)
      /\ reply.items \in Seq(ItemType) /\ public \in Seq(ItemType) /\ executed \in Seq(ItemType)
  <2>1. call.kind = "responses" /\ call' = call /\ step \in LoopSteps
    BY LoopStays
  <2>2. Queued /\ ResponsesTypeOK
    BY DEF IInv
  <2>3. reply.items \in Seq(ItemType) /\ public \in Seq(ItemType) /\ executed \in Seq(ItemType)
    BY <2>2 DEF ResponsesTypeOK
  <2>4. QED
    BY <2>1, <2>2, <2>3 DEF RunIsPublic, FinalsReport, Responses
<1>q. ASSUME UNCHANGED <<public, executed, queue>>, step' # "stream",
             UNCHANGED out \/ \E code, w : Write(code, w) /\ (Final(w) => Reports(w.items, executed))
      PROVE  RunIsPublic'
  <2>1. FinalsReport'
    BY <1>0, <1>q, WriteReports
  <2>2. QED
    BY <1>0, <1>q, <2>1 DEF RunIsPublic, FinalsReport, Final
<1>1. CASE InvokeHop \/ TooManyHops \/ FinishStream
  BY <1>q, <1>1 DEF InvokeHop, TooManyHops, FinishStream
<1>2. CASE HopFails \/ ExecuteItemFails
  BY <1>q, <1>2 DEF HopFails, ExecuteItemFails, Written, Final
<1>3. CASE \E r \in Replies : ReceiveAnswer(r)
  <2>1. PICK r \in Replies : ReceiveAnswer(r)
    BY <1>3
  <2>2. /\ UNCHANGED <<public, executed, queue>> /\ step' # "stream"
        /\ \/ UNCHANGED out
           \/ \E code, w : Write(code, w) /\ ~Final(w)
           \/ /\ public = <<>> /\ ~HasTool(Received(r).items)
              /\ \E code, w : Write(code, w) /\ w.items = Received(r).items
    BY <2>1 DEF ReceiveAnswer, ProcessItems, Written, Final
  <2>3. Received(r).items \in Seq(ItemType)
    BY <1>0, RepliesAssumption, ItemsReceived DEF ResponsesTypeOK
  <2>4. public = <<>> /\ ~HasTool(Received(r).items) => Reports(Received(r).items, executed)
    BY <1>0, <2>3, ReportsNone
  <2>5. QED
    BY <1>q, <2>2, <2>4
<1>4. CASE \E r \in Replies : ReceiveStream(r)
  <2>1. PICK r \in Replies : ReceiveStream(r)
    BY <1>4
  <2>2. /\ UNCHANGED <<public, executed, queue>>
        /\ \/ step' = "done" /\ Write(500, Written("forwarded", <<>>, 0))
           \/ step' = "stream" /\ UNCHANGED out /\ at' = 1 /\ part' = 1 /\ reply' = Received(r)
    BY <2>1 DEF ReceiveStream
  <2>3. CASE step' = "done" /\ Write(500, Written("forwarded", <<>>, 0))
    BY <1>q, <2>2, <2>3 DEF Written, Final
  <2>4. CASE step' = "stream" /\ UNCHANGED out /\ at' = 1 /\ part' = 1 /\ reply' = Received(r)
    <3>1. \A i \in DOMAIN reply'.items : ~ (i < at' \/ (i = at' /\ part' > 1))
      <4>1. Received(r).items \in Seq(ItemType)
        BY <1>0, RepliesAssumption, ItemsReceived DEF ResponsesTypeOK
      <4>2. QED
        BY <2>4, <4>1
    <3>2. QED
      BY <1>0, <2>2, <2>4, <3>1 DEF RunIsPublic, FinalsReport, Final
  <2>5. QED
    BY <2>2, <2>3, <2>4
<1>5. CASE KeepItem \/ ExecuteItem
  <2>1. /\ step = "process" /\ step' = "process" /\ UNCHANGED <<out, queue>>
        /\ at \in DOMAIN reply.items /\ reply.items[at] \in ItemType
    BY <1>0, <1>5 DEF KeepItem, ExecuteItem
  <2>2. /\ \A k \in DOMAIN out : ~Final(out[k])
        /\ \A k \in DOMAIN queue : ~Final(queue[k])
    BY <1>0, <2>1, LoopAtWork DEF SaidFinal
  <2>3. Reports(public', executed')
    <3>1. CASE KeepItem
      BY <1>0, <2>1, <3>1, ReportsKept DEF KeepItem
    <3>2. CASE ExecuteItem
      BY <1>0, <2>1, <3>2, ReportsRun DEF ExecuteItem
    <3>3. QED
      BY <1>5, <3>1, <3>2
  <2>4. QED
    BY <1>0, <2>1, <2>2, <2>3 DEF RunIsPublic, Final
<1>6. CASE SettleAnswer
  <2>1. /\ UNCHANGED <<public, executed, queue>> /\ step' # "stream"
        /\ UNCHANGED out \/ Write(200, Written("answer", public, total))
    BY <1>6 DEF SettleAnswer
  <2>2. QED
    BY <1>0, <1>q, <2>1 DEF Written
<1>7. CASE StreamBreaks
  BY <1>0, <1>7 DEF StreamBreaks, RunIsPublic, FinalsReport, Final
<1>8. CASE EndHop
  BY <1>q, <1>8 DEF EndHop, ProcessItems
<1>9. CASE ReadEvent \/ WriteEvent \/ EndAnswer \/ SettleStream
  BY <1>9, ReadReports, WriteEventReports, EndReports, SettleReports
<1>10. QED
  BY <1>0, <1>1, <1>2, <1>3, <1>4, <1>5, <1>6, <1>7, <1>8, <1>9 DEF ResponsesNext

LEMMA ReportsStep == IInv /\ RunIsPublic /\ [Next]_vars => RunIsPublic'
<1> SUFFICES ASSUME IInv, RunIsPublic, [Next]_vars PROVE RunIsPublic'
  OBVIOUS
<1>1. CASE Plan
  <2>1. (PlanGoesOn \/ PlanAnswers \/ RunnerStarts) /\ step \in PlanSteps /\ Ownership
    BY <1>1, PlanEffect DEF IInv, Plan
  <2>2. UNCHANGED responsesVars /\ ResponsesInit /\ out = <<>>
    BY <1>1, <2>1 DEF Plan, Ownership, NoCall
  <2>3. CASE call'.kind = "responses"
    <3>1. step' = "send" /\ out' = out
      BY <2>1, <2>2, <2>3 DEF PlanGoesOn, PlanAnswers, RunnerStarts, Ownership, NoCall, clientVars
    <3>2. public' = <<>> /\ executed' = <<>> /\ queue' = <<>> /\ out' = <<>>
      BY <2>2, <3>1 DEF ResponsesInit, responsesVars, hopVars, loopVars
    <3>3. QED
      BY <3>1, <3>2, ReportsNone DEF RunIsPublic
  <2>4. CASE call'.kind # "responses"
    BY <2>4 DEF RunIsPublic
  <2>5. QED
    BY <2>3, <2>4
<1>2. CASE Responses
  BY <1>2, LoopReports
<1>3. CASE Chat
  BY <1>3, ChatStays DEF IInv, Ownership, RunIsPublic
<1>4. CASE Report
  <2>1. /\ step = "failed" /\ step' = "done" /\ UNCHANGED call /\ UNCHANGED responsesVars
        /\ Write(502, Written("error", <<>>, 0)) /\ Queued
    BY <1>4 DEF Report, ReportError, ApiError, IInv
  <2>2. CASE call.kind = "responses"
    <3>1. UNCHANGED <<executed, public, queue>>
      BY <2>1 DEF responsesVars, loopVars
    <3>2. FinalsReport'
      BY <2>1, <2>2, <3>1, WriteReports DEF Written, Final, RunIsPublic, FinalsReport
    <3>3. QED
      BY <2>1, <2>2, <3>1, <3>2 DEF RunIsPublic, FinalsReport, Final
  <2>3. CASE call.kind # "responses"
    BY <2>1, <2>3 DEF RunIsPublic
  <2>4. QED
    BY <2>2, <2>3
<1>5. CASE UNCHANGED vars
  BY <1>5 DEF vars, sharedVars, clientVars, responsesVars, hopVars, loopVars, RunIsPublic, Final
<1>6. QED
  BY <1>1, <1>2, <1>3, <1>4, <1>5 DEF Next, HandlerEnded

\* The output of a finished answer reports every execution of every hop once and
\* in its order (processResponsesOutput, publicOutput in responses_runner.go).
THEOREM ExecutedAlwaysReported == Spec => []ExecutedIsReported
<1>1. Init => RunIsPublic
  BY DEF Init, SharedInit, NoCall, RunIsPublic
<1>2. RunIsPublic => ExecutedIsReported
  BY DEF RunIsPublic, ExecutedIsReported, Finals, Final
<1>3. QED
  BY <1>1, <1>2, ReportsStep, InvariantHolds, PTL DEF Spec

----------------------------------------------------------------------------
(* What the client's stream tells *)

LEMMA CallEventsAre ==
  /\ DOMAIN CallEvents = 1..7 /\ Len(CallEvents) = 7
  /\ \A d, e \in 1..7 : CallEvents[d] = CallEvents[e] => d = e
  /\ \A e \in 1..7 : CallEvents[e] \notin {"other", "answer", "completed", "incomplete", "error", "forwarded"}
BY DEF CallEvents

\* An event of a call comes after those before it, and nothing else matters.
LEMMA GrowsInOrder ==
  ASSUME NEW S, NEW s \in Seq(S), NEW w \in S, InOrder(s),
         \A e \in DOMAIN CallEvents : w.type = CallEvents[e] =>
           /\ Tells(w, e, w.items[1]) /\ e >= FirstEvent(w.items[1])
           /\ \A d \in FirstEvent(w.items[1])..e - 1 : \E j \in DOMAIN s : Tells(s[j], d, w.items[1])
           /\ \A j \in DOMAIN s : ~Tells(s[j], e, w.items[1])
  PROVE  InOrder(Append(s, w))
<1> DEFINE t == Append(s, w)
<1>1. /\ Len(s) \in Nat /\ DOMAIN s = 1..Len(s) /\ DOMAIN t = 1..Len(s) + 1 /\ t[Len(s) + 1] = w
      /\ \A k \in 1..Len(s) : t[k] = s[k]
  BY AppendProperties
<1> HIDE DEF t
<1>2. \A k \in 1..Len(s) + 1 : k \in 1..Len(s) \/ k = Len(s) + 1
  BY <1>1
<1>3. \A k \in 1..Len(s) : 1..k - 1 \subseteq 1..Len(s)
  BY <1>1
<1>4. 1..(Len(s) + 1) - 1 = 1..Len(s)
  BY <1>1
<1> SUFFICES ASSUME NEW k \in DOMAIN t, NEW e \in DOMAIN CallEvents, t[k].type = CallEvents[e]
             PROVE  /\ Tells(t[k], e, t[k].items[1]) /\ e >= FirstEvent(t[k].items[1])
                    /\ \A d \in FirstEvent(t[k].items[1])..e - 1 :
                         \E j \in 1..k - 1 : Tells(t[j], d, t[k].items[1])
                    /\ \A j \in 1..k - 1 : ~Tells(t[j], e, t[k].items[1])
  BY DEF InOrder, t
<1>5. CASE k \in 1..Len(s)
  <2>1. t[k] = s[k] /\ \A j \in 1..k - 1 : t[j] = s[j]
    BY <1>1, <1>3, <1>5
  <2>2. /\ Tells(s[k], e, s[k].items[1]) /\ e >= FirstEvent(s[k].items[1])
        /\ \A d \in FirstEvent(s[k].items[1])..e - 1 :
             \E j \in 1..k - 1 : Tells(s[j], d, s[k].items[1])
        /\ \A j \in 1..k - 1 : ~Tells(s[j], e, s[k].items[1])
    BY <1>1, <1>5, <2>1 DEF InOrder
  <2>3. QED
    BY <2>1, <2>2
<1>6. CASE k = Len(s) + 1
  <2>1. t[k] = w /\ 1..k - 1 = DOMAIN s /\ \A j \in 1..k - 1 : t[j] = s[j]
    BY <1>1, <1>4, <1>6
  <2>2. QED
    BY <2>1
<1>7. QED
  BY <1>1, <1>2, <1>5, <1>6

SaidType == Range(out) \cup EventType

LEMMA SaidIs ==
  ASSUME Queued
  PROVE  /\ out \in Seq(SaidType) /\ queue \in Seq(SaidType) /\ Said \in Seq(SaidType)
         /\ Len(out) \in Nat /\ Len(queue) \in Nat /\ Len(Said) = Len(out) + Len(queue)
         /\ DOMAIN out = 1..Len(out) /\ DOMAIN queue = 1..Len(queue)
         /\ DOMAIN Said = 1..Len(out) + Len(queue)
         /\ \A k \in 1..Len(out) : k \in DOMAIN Said /\ Said[k] = out[k]
         /\ \A k \in 1..Len(queue) : Len(out) + k \in DOMAIN Said /\ Said[Len(out) + k] = queue[k]
<1>1. out \in Seq(SaidType) /\ queue \in Seq(SaidType)
  BY SeqMonotonic DEF SaidType, Queued
<1> HIDE DEF SaidType
<1>2. QED
  BY <1>1, ConcatProperties DEF Said

LEMMA SaidNextIs ==
  ASSUME Queued'
  PROVE  /\ Len(out') \in Nat /\ Len(queue') \in Nat
         /\ DOMAIN out' = 1..Len(out') /\ DOMAIN queue' = 1..Len(queue')
         /\ DOMAIN Said' = 1..Len(out') + Len(queue')
         /\ \A k \in 1..Len(out') : k \in DOMAIN Said' /\ Said'[k] = out'[k]
         /\ \A k \in 1..Len(queue') : Len(out') + k \in DOMAIN Said' /\ Said'[Len(out') + k] = queue'[k]
<1> DEFINE S == Range(out') \cup EventType
<1>1. out' \in Seq(S) /\ queue' \in Seq(S)
  BY SeqMonotonic DEF Queued
<1> HIDE DEF S
<1>2. Said' = out' \o queue'
  BY DEF Said
<1>3. QED
  BY <1>1, <1>2, ConcatProperties

\* What is left of a stream when its handler has ended.
LEMMA StreamEnded ==
  ASSUME Queued, StreamGrows, call' = call, executed' = executed, step' \notin LoopSteps,
         \/ UNCHANGED out
         \/ \E code, w : /\ Write(code, w) /\ w.n = 0
                         /\ w.type = "error" \/ (w.type = "forwarded" /\ Finals = {})
  PROVE  StreamGrows'
<1> SUFFICES ASSUME call.kind = "responses", call.stream
             PROVE  Numbered' /\ InOrder(out)' /\ FinalTold' /\ FinalLast'
  BY DEF StreamGrows
<1>0. Numbered /\ InOrder(out) /\ FinalTold /\ FinalLast
  BY DEF StreamGrows
<1>1. CASE UNCHANGED out
  BY <1>0, <1>1 DEF Numbered, FinalTold, FinalLast, Finals
<1>2. CASE \E code, w : /\ Write(code, w) /\ w.n = 0
                        /\ w.type = "error" \/ (w.type = "forwarded" /\ Finals = {})
  <2>1. PICK code, w : /\ Write(code, w) /\ w.n = 0
                       /\ w.type = "error" \/ (w.type = "forwarded" /\ Finals = {})
    BY <1>2
  <2> DEFINE S == Range(out) \cup {w}
  <2>2. out \in Seq(S) /\ w \in S /\ out' = Append(out, w)
    BY <2>1, SeqMonotonic DEF Queued, Write
  <2> HIDE DEF S
  <2>3. /\ Len(out) \in Nat /\ Len(out') = Len(out) + 1 /\ DOMAIN out = 1..Len(out)
        /\ DOMAIN out' = 1..Len(out) + 1 /\ out'[Len(out) + 1] = w
        /\ \A k \in 1..Len(out) : out'[k] = out[k]
    BY <2>2, AppendProperties
  <2>4. \A k \in 1..Len(out) + 1 : k \in 1..Len(out) \/ k = Len(out) + 1
    BY <2>3
  <2>5. Finals' = Finals
    <3>1. 1..Len(out) \subseteq 1..Len(out) + 1
      BY <2>3
    <3>2. QED
      BY <2>1, <2>3, <2>4, <3>1 DEF Finals
  <2>6. Numbered'
    BY <1>0, <2>1, <2>3, <2>4 DEF Numbered
  <2>7. InOrder(out)'
    <3>1. \A e \in DOMAIN CallEvents : w.type # CallEvents[e]
      BY <2>1, CallEventsAre
    <3>2. InOrder(Append(out, w))
      BY <1>0, <2>2, <3>1, GrowsInOrder
    <3>3. QED
      BY <2>2, <3>2
  <2>8. FinalTold'
    <3> SUFFICES ASSUME Finals # {}, NEW i \in DOMAIN executed
                 PROVE  \E k \in DOMAIN out' : Tells(out'[k], Len(CallEvents), executed[i])
      BY <2>5 DEF FinalTold, Tells
    <3>1. PICK k \in DOMAIN out : Tells(out[k], Len(CallEvents), executed[i])
      BY <1>0 DEF FinalTold
    <3>2. k \in DOMAIN out' /\ out'[k] = out[k]
      BY <2>3, <3>1
    <3>3. QED
      BY <3>1, <3>2
  <2>9. FinalLast'
    <3> SUFFICES ASSUME NEW k \in Finals, NEW j \in k + 1..Len(out) + 1
                 PROVE  out'[j].type = "error"
      BY <2>3, <2>5 DEF FinalLast
    <3>1. k \in 1..Len(out)
      BY <2>3 DEF Finals
    <3>2. j \in k + 1..Len(out) \/ j = Len(out) + 1
      BY <2>3, <3>1
    <3>3. CASE j \in k + 1..Len(out)
      <4>1. j \in 1..Len(out)
        BY <2>3, <3>1, <3>3
      <4>2. QED
        BY <1>0, <2>3, <3>3, <4>1 DEF FinalLast
    <3>4. CASE j = Len(out) + 1
      BY <2>1, <2>3, <3>4
    <3>5. QED
      BY <3>2, <3>3, <3>4
  <2>10. QED
    BY <2>6, <2>7, <2>8, <2>9
<1>3. QED
  BY <1>1, <1>2

\* A step of the loop that neither writes nor announces.
LEMMA StreamQuiet ==
  ASSUME StreamGrows, step \in LoopSteps, UNCHANGED <<call, out, queue, sequence>>,
         HopTold /\ call.kind = "responses" /\ call.stream => HopTold',
         executed' = executed /\ step # "process"
  PROVE  StreamGrows'
<1> SUFFICES ASSUME call.kind = "responses", call.stream PROVE StreamGrows'
  BY DEF StreamGrows
<1>1. /\ Numbered /\ InOrder(out) /\ FinalTold /\ FinalLast
      /\ sequence = Len(out) + 1 /\ InOrder(Said) /\ HopTold
      /\ \A i \in DOMAIN executed : Told(executed[i], 7)
      /\ Finals # {} => queue = <<>>
      /\ \A k \in DOMAIN queue : Final(queue[k]) => k = Len(queue)
  BY DEF StreamGrows
<1>2. Said' = Said
  BY DEF Said
<1>3. Numbered' /\ FinalTold' /\ FinalLast' /\ Finals' = Finals
  BY <1>1 DEF Numbered, FinalTold, FinalLast, Finals
<1>4. (\A i \in DOMAIN executed : Told(executed[i], 7))'
  BY <1>1, <1>2 DEF Told
<1>5. HopTold' /\ InOrder(out)' /\ InOrder(Said)'
  BY <1>1, <1>2
<1>6. QED
  BY <1>1, <1>2, <1>3, <1>4, <1>5 DEF StreamGrows, Final

LEMMA InvokeTold ==
  ASSUME ResponsesTypeOK, HopTold, InvokeHop
  PROVE  HopTold'
<1>1. step' = "await" /\ hop' = hop + 1 /\ Said' = Said /\ hop \in Nat
  BY RepliesAssumption DEF InvokeHop, clientVars, Said, ResponsesTypeOK
<1>2. ASSUME NEW k \in DOMAIN Said, NEW e \in DOMAIN CallEvents, Said[k].type = CallEvents[e]
      PROVE  Said[k].items[1] \in ItemType /\ Said[k].items[1].hop < hop + 1
  <2>1. Said[k].items[1] \in ItemType /\ Said[k].items[1].hop <= hop
    BY <1>2 DEF HopTold
  <2>2. QED
    BY <1>1, <2>1 DEF ItemType
<1>3. ASSUME NEW k \in DOMAIN Said, NEW e \in DOMAIN CallEvents, Said[k].type = CallEvents[e]
      PROVE  Said[k].items[1].hop <= hop + 1
  BY <1>1, <1>2, <1>3 DEF ItemType
<1>4. QED
  BY <1>1, <1>2, <1>3 DEF HopTold

\* A hop begins; nothing has been told of its items.
LEMMA ReceiveTold ==
  ASSUME ResponsesTypeOK, HopTold, NEW r \in Replies, ReceiveStream(r), step' = "stream"
  PROVE  HopTold'
<1>1. /\ step = "await" /\ hop' = hop /\ Said' = Said /\ at' = 1 /\ part' = 1 /\ known' = {}
      /\ reply' = Received(r) /\ hop \in Nat
  BY RepliesAssumption DEF ReceiveStream, clientVars, loopVars, Said, ResponsesTypeOK
<1>2. Received(r).items \in Seq(ItemType)
  BY <1>1, ItemsReceived
<1>3. \A i \in DOMAIN reply'.items : Sent(i)' = 0
  BY <1>1, <1>2 DEF Sent
<1>4. ASSUME NEW k \in DOMAIN Said, NEW e \in DOMAIN CallEvents, Said[k].type = CallEvents[e]
      PROVE  Said[k].items[1] \in ItemType /\ Said[k].items[1].hop <= hop /\ Said[k].items[1].hop # hop
  <2>1. Said[k].items[1] \in ItemType /\ Said[k].items[1].hop < hop
    BY <1>1, <1>4 DEF HopTold
  <2>2. QED
    BY <1>1, <2>1 DEF ItemType
<1>5. \A i \in DOMAIN reply'.items : 1..Sent(i)' = {}
  BY <1>3
<1>6. QED
  BY <1>1, <1>3, <1>4, <1>5 DEF HopTold

\* A hop ends; its calls have been told of as far as the model tells of them.
LEMMA EndHopTold ==
  ASSUME ResponsesTypeOK, HopItems, HopTold, EndHop
  PROVE  HopTold'
<1>1. /\ step = "stream" /\ step' = "process" /\ hop' = hop /\ Said' = Said /\ ~MoreEvents
      /\ reply'.items = reply.items \/ reply'.items = <<>>
  <2>1. DOMAIN reply = {"items", "usage", "ending"}
    BY DEF ResponsesTypeOK
  <2>2. QED
    BY <2>1 DEF EndHop, ProcessItems, clientVars, loopVars, Said
<1>2. reply.items \in Seq(ItemType) /\ Len(reply.items) \in Nat /\ at \in Nat
  BY DEF ResponsesTypeOK
<1>3. \A i \in DOMAIN reply.items : Sent(i) = 3
  BY <1>1, <1>2 DEF MoreEvents, Sent
<1>4. ASSUME NEW k \in DOMAIN Said, NEW e \in DOMAIN CallEvents, Said[k].type = CallEvents[e]
      PROVE  LET item == Said[k].items[1]
             IN  item \in ItemType /\ item.hop <= hop /\ (item.hop = hop => e <= 3)
  BY <1>1, <1>3, <1>4 DEF HopTold
<1>5. \A i \in DOMAIN reply'.items : reply'.items[i].kind = "tool" =>
        \A e \in 1..3 : Told(reply'.items[i], e)
  BY <1>1, <1>3 DEF HopTold
<1>6. \A item, e : Told(item, e)' = Told(item, e)
  BY <1>1 DEF Told
<1>7. (\A i \in DOMAIN reply.items : reply.items[i].kind = "tool" => \A e \in 1..3 : Told(reply.items[i], e))'
  <2>1. \A i \in DOMAIN reply'.items : reply'.items[i].kind = "tool" =>
          \A e \in 1..3 : \E k \in DOMAIN Said : Tells(Said[k], e, reply'.items[i])
    BY <1>5 DEF Told
  <2>2. QED
    BY <1>1, <2>1 DEF Told
<1>8. QED
  BY <1>1, <1>4, <1>7 DEF HopTold

\* What runs waits for its announcement.
LEMMA RunTold ==
  ASSUME IInv, StreamGrows, KeepItem \/ ExecuteItem
  PROVE  StreamGrows'
<1> SUFFICES ASSUME call.kind = "responses", call.stream PROVE StreamGrows'
  BY DEF StreamGrows, KeepItem, ExecuteItem, sharedVars
<1>1. /\ step = "process" /\ step' = "process" /\ UNCHANGED <<call, out, queue, sequence, hop, reply, known>>
      /\ at \in DOMAIN reply.items /\ step \in LoopSteps /\ Finals = {} /\ ResponsesTypeOK
  <2>1. step = "process" /\ step \in LoopSteps
    BY DEF KeepItem, ExecuteItem, LoopSteps
  <2>2. Finals = {}
    BY <2>1, LoopAtWork DEF SaidFinal, Final, Finals
  <2>3. QED
    BY <2>1, <2>2 DEF KeepItem, ExecuteItem, sharedVars, clientVars, IInv
<1>2. /\ Numbered /\ InOrder(out) /\ FinalLast
      /\ sequence = Len(out) + 1 /\ InOrder(Said) /\ HopTold
      /\ \A i \in DOMAIN executed : Told(executed[i], 7) \/ executed[i] \in Range(fresh)
      /\ \A k \in DOMAIN queue : Final(queue[k]) => k = Len(queue)
  BY <1>1 DEF StreamGrows
<1>3. Said' = Said /\ Finals' = Finals /\ Numbered' /\ FinalLast' /\ FinalTold'
  BY <1>1, <1>2 DEF Said, Finals, Numbered, FinalLast, FinalTold
<1>4. HopTold'
  BY <1>1, <1>2, <1>3 DEF HopTold, Told
<1>5. (\A i \in DOMAIN executed : Told(executed[i], 7) \/ executed[i] \in Range(fresh))'
  <2>1. CASE KeepItem
    <3>1. UNCHANGED <<executed, fresh>>
      BY <2>1 DEF KeepItem
    <3>2. QED
      BY <1>2, <1>3, <3>1 DEF Told
  <2>2. CASE ExecuteItem
    <3> DEFINE new == reply.items[at]
    <3>1. executed' = Append(executed, new) /\ fresh' = Append(fresh, new)
      BY <2>2 DEF ExecuteItem
    <3>2. executed \in Seq(ItemType) /\ fresh \in Seq(ItemType) /\ new \in ItemType
      BY <1>1 DEF ResponsesTypeOK
    <3> HIDE DEF new
    <3>3. /\ \A i \in DOMAIN executed' : (i \in DOMAIN executed /\ executed'[i] = executed[i]) \/ executed'[i] = new
          /\ \A i \in DOMAIN fresh : i \in DOMAIN fresh' /\ fresh'[i] = fresh[i]
          /\ \E i \in DOMAIN fresh' : fresh'[i] = new
      BY <3>1, <3>2, AppendProperties
    <3>4. Range(fresh) \subseteq Range(fresh') /\ new \in Range(fresh')
      BY <3>3 DEF Range
    <3>5. QED
      BY <1>2, <1>3, <3>3, <3>4 DEF Told
  <2>3. QED
    BY <2>1, <2>2
<1>6. InOrder(out)' /\ InOrder(Said)'
  BY <1>1, <1>2, <1>3
<1>7. QED
  BY <1>1, <1>2, <1>3, <1>4, <1>5, <1>6 DEF StreamGrows, Final

LEMMA InOrderPart ==
  ASSUME NEW s, NEW t, NEW n \in Nat, InOrder(s), DOMAIN t = 1..n, 1..n \subseteq DOMAIN s,
         \A k \in 1..n : t[k].type = s[k].type /\ t[k].items = s[k].items
  PROVE  InOrder(t)
<1> SUFFICES ASSUME NEW k \in 1..n, NEW e \in DOMAIN CallEvents, t[k].type = CallEvents[e]
             PROVE  /\ Tells(t[k], e, t[k].items[1]) /\ e >= FirstEvent(t[k].items[1])
                    /\ \A d \in FirstEvent(t[k].items[1])..e - 1 :
                         \E j \in 1..k - 1 : Tells(t[j], d, t[k].items[1])
                    /\ \A j \in 1..k - 1 : ~Tells(t[j], e, t[k].items[1])
  BY DEF InOrder
<1>0. k \in DOMAIN s /\ s[k].type = CallEvents[e]
  OBVIOUS
<1>1. /\ Tells(s[k], e, s[k].items[1]) /\ e >= FirstEvent(s[k].items[1])
      /\ \A d \in FirstEvent(s[k].items[1])..e - 1 :
           \E j \in 1..k - 1 : Tells(s[j], d, s[k].items[1])
      /\ \A j \in 1..k - 1 : ~Tells(s[j], e, s[k].items[1])
  BY <1>0 DEF InOrder
<1>2. t[k].type = s[k].type /\ t[k].items = s[k].items /\ 1..k - 1 \subseteq 1..n
  OBVIOUS
<1>3. \A j \in 1..k - 1 : \A d, item : Tells(t[j], d, item) <=> Tells(s[j], d, item)
  BY <1>2 DEF Tells
<1>4. Tells(t[k], e, t[k].items[1])
  BY <1>1, <1>2 DEF Tells
<1>5. QED
  BY <1>1, <1>2, <1>3, <1>4

\* What is written is what was about to be, and what is about to be stays so.
LEMMA WriteTold ==
  ASSUME IInv, IInv', StreamGrows, WriteEvent
  PROVE  StreamGrows'
<1> SUFFICES ASSUME call.kind = "responses", call.stream PROVE StreamGrows'
  BY DEF StreamGrows, WriteEvent
<1>1. /\ queue # <<>> /\ queue' = Tail(queue) /\ Write(200, [Head(queue) EXCEPT !.n = sequence])
      /\ UNCHANGED <<step, call, public, executed, reply, at, part, hadTool, known, fresh, hop>>
      /\ sequence' = sequence + 1 /\ Queued /\ Queued' /\ step \in LoopSteps /\ step # "process"
  BY DEF WriteEvent, IInv, hopVars, Ownership, LoopSteps
<1>2. /\ Numbered /\ InOrder(out) /\ sequence = Len(out) + 1 /\ InOrder(Said) /\ HopTold
      /\ \A i \in DOMAIN executed : Told(executed[i], 7)
      /\ Finals = {} /\ \A k \in DOMAIN queue : Final(queue[k]) => k = Len(queue)
  BY <1>1 DEF StreamGrows
<1> DEFINE event == [Head(queue) EXCEPT !.n = sequence]
<1>3. /\ Head(queue) \in EventType /\ Head(queue) = queue[1] /\ Len(queue) \in Nat /\ Len(queue) > 0
      /\ Len(queue') = Len(queue) - 1
      /\ \A k \in 1..Len(queue) - 1 : k + 1 \in 1..Len(queue) /\ queue'[k] = queue[k + 1]
  BY <1>1, EmptySeq DEF Queued
<1>4. event.type = queue[1].type /\ event.items = queue[1].items /\ event.n = Len(out) + 1
  BY <1>2, <1>3 DEF EventType
<1>5. out' = Append(out, event)
  BY <1>1 DEF Write
<1> HIDE DEF event
<1>6. /\ Len(out) \in Nat /\ DOMAIN out = 1..Len(out) /\ DOMAIN out' = 1..Len(out) + 1
      /\ Len(out') = Len(out) + 1 /\ out'[Len(out) + 1] = event /\ \A k \in 1..Len(out) : out'[k] = out[k]
  <2> DEFINE S == Range(out) \cup {event}
  <2>1. out \in Seq(S) /\ event \in S
    BY <1>1, SeqMonotonic DEF Queued
  <2> HIDE DEF S
  <2>2. QED
    BY <1>5, <2>1, AppendProperties
<1>7. /\ DOMAIN Said = 1..Len(out) + Len(queue) /\ DOMAIN Said' = DOMAIN Said
      /\ DOMAIN queue = 1..Len(queue) /\ DOMAIN queue' = 1..Len(queue) - 1
      /\ \A k \in 1..Len(out) : Said[k] = out[k]
      /\ \A k \in 1..Len(out) + 1 : Said'[k] = out'[k]
      /\ \A k \in 1..Len(queue) : Said[Len(out) + k] = queue[k]
      /\ \A k \in 1..Len(queue) - 1 : Said'[Len(out) + 1 + k] = queue'[k]
  <2>1. /\ DOMAIN Said = 1..Len(out) + Len(queue) /\ DOMAIN queue = 1..Len(queue)
        /\ \A k \in 1..Len(out) : Said[k] = out[k]
        /\ \A k \in 1..Len(queue) : Said[Len(out) + k] = queue[k]
    BY <1>1, SaidIs
  <2>2. /\ DOMAIN Said' = 1..Len(out') + Len(queue') /\ DOMAIN queue' = 1..Len(queue')
        /\ \A k \in 1..Len(out') : Said'[k] = out'[k]
        /\ \A k \in 1..Len(queue') : Said'[Len(out') + k] = queue'[k]
    BY <1>1, SaidNextIs
  <2>3. Len(out') + Len(queue') = Len(out) + Len(queue)
    BY <1>3, <1>6
  <2>4. QED
    BY <1>3, <1>6, <2>1, <2>2, <2>3
<1>8. \A k \in DOMAIN Said : Said'[k].type = Said[k].type /\ Said'[k].items = Said[k].items
  <2> SUFFICES ASSUME NEW k \in 1..Len(out) + Len(queue)
               PROVE  Said'[k].type = Said[k].type /\ Said'[k].items = Said[k].items
    BY <1>7
  <2>1. CASE k \in 1..Len(out)
    BY <1>6, <1>7, <2>1
  <2>2. CASE k = Len(out) + 1
    <3>1. Said'[k] = event /\ 1 \in 1..Len(queue) /\ Said[Len(out) + 1] = queue[1]
      BY <1>3, <1>6, <1>7, <2>2
    <3>2. QED
      BY <1>4, <2>2, <3>1
  <2>3. CASE k \notin 1..Len(out) + 1
    <3> DEFINE i == k - Len(out) - 1
    <3>1. i \in 1..Len(queue) - 1 /\ i + 1 \in 1..Len(queue) /\ k = Len(out) + 1 + i /\ k = Len(out) + (i + 1)
      BY <1>3, <1>6, <2>3
    <3> HIDE DEF i
    <3>2. Said'[k] = queue'[i] /\ Said[k] = queue[i + 1]
      BY <1>7, <3>1
    <3>3. QED
      BY <1>3, <3>1, <3>2
  <2>4. QED
    BY <1>6, <2>1, <2>2, <2>3
<1>9. \A item, e : Told(item, e) => \E k \in DOMAIN Said' : Tells(Said'[k], e, item)
  BY <1>7, <1>8 DEF Told, Tells
<1>10. InOrder(Said)'
  <2>1. Len(out) + Len(queue) \in Nat
    BY <1>3, <1>6
  <2> DEFINE s == Said
             t == Said'
             n == Len(out) + Len(queue)
  <2>2. /\ InOrder(s) /\ n \in Nat /\ DOMAIN t = 1..n /\ 1..n \subseteq DOMAIN s
        /\ \A k \in 1..n : t[k].type = s[k].type /\ t[k].items = s[k].items
    BY <1>2, <1>7, <1>8, <2>1
  <2> HIDE DEF s, t, n
  <2>3. InOrder(t)
    BY <2>2, InOrderPart
  <2>4. QED
    BY <2>3 DEF t
<1>11. InOrder(out)'
  <2>1. 1..Len(out) + 1 \subseteq DOMAIN Said' /\ Len(out) + 1 \in Nat
    BY <1>3, <1>6, <1>7
  <2> DEFINE s == Said'
             t == out'
             n == Len(out) + 1
  <2>2. /\ InOrder(s) /\ n \in Nat /\ DOMAIN t = 1..n /\ 1..n \subseteq DOMAIN s
        /\ \A k \in 1..n : t[k].type = s[k].type /\ t[k].items = s[k].items
    BY <1>6, <1>7, <1>10, <2>1
  <2> HIDE DEF s, t, n
  <2>3. InOrder(t)
    BY <2>2, InOrderPart
  <2>4. QED
    BY <2>3 DEF t
<1>12. Numbered'
  <2>1. \A k \in 1..Len(out) + 1 : k \in 1..Len(out) \/ k = Len(out) + 1
    BY <1>6
  <2>2. QED
    BY <1>2, <1>4, <1>6, <2>1 DEF Numbered
<1>13. Finals' \subseteq {Len(out) + 1} /\ (Finals' # {} => Len(queue) = 1)
  <2>1. \A k \in 1..Len(out) + 1 : k \in 1..Len(out) \/ k = Len(out) + 1
    BY <1>6
  <2>2. Finals' \subseteq {Len(out) + 1}
    BY <1>2, <1>6, <2>1 DEF Finals
  <2>3. Finals' # {} => event.type \in {"answer", "completed"}
    BY <1>6, <2>2 DEF Finals
  <2>4. 1 \in DOMAIN queue
    BY <1>3, <1>7
  <2>5. QED
    BY <1>2, <1>4, <2>2, <2>3, <2>4 DEF Final
<1>14. FinalLast'
  <2>1. (Len(out) + 1) + 1..Len(out') = {}
    BY <1>6
  <2>2. QED
    BY <1>13, <2>1 DEF FinalLast
<1>15. FinalTold'
  <2> SUFFICES ASSUME Finals' # {}, NEW i \in DOMAIN executed
               PROVE  \E k \in DOMAIN out' : Tells(out'[k], 7, executed[i])
    BY <1>1, CallEventsAre DEF FinalTold
  <2>1. DOMAIN Said' = DOMAIN out' /\ \A k \in DOMAIN out' : Said'[k] = out'[k]
    BY <1>6, <1>7, <1>13
  <2>2. PICK k \in DOMAIN Said : Tells(Said[k], 7, executed[i])
    BY <1>2 DEF Told
  <2>3. k \in DOMAIN Said' /\ Tells(Said'[k], 7, executed[i])
    BY <1>7, <1>8, <2>2 DEF Tells
  <2>4. QED
    BY <2>1, <2>3
<1>16. (Finals # {} => queue = <<>>)' /\ (\A k \in DOMAIN queue : Final(queue[k]) => k = Len(queue))'
  <2>1. Finals' # {} => queue' = <<>>
    <3>1. Len(queue) = 1 => Len(queue') = 0
      BY <1>3
    <3>2. QED
      BY <1>1, <1>13, <3>1, EmptySeq DEF Queued
  <2>2. ASSUME NEW k \in DOMAIN queue', Final(queue'[k])
        PROVE  k = Len(queue')
    <3>1. k \in 1..Len(queue) - 1 /\ k + 1 \in DOMAIN queue /\ queue'[k] = queue[k + 1]
      BY <1>3, <1>7
    <3>2. k + 1 = Len(queue)
      BY <1>2, <2>2, <3>1
    <3>3. QED
      BY <1>3, <3>1, <3>2
  <2>3. QED
    BY <2>1, <2>2 DEF Final
<1>17. HopTold'
  <2>1. \A i : Sent(i)' = Sent(i)
    BY <1>1 DEF Sent
  <2>2. /\ \A k \in DOMAIN Said', e \in DOMAIN CallEvents : Said'[k].type = CallEvents[e] =>
             LET item == Said'[k].items[1] IN
             /\ item \in ItemType /\ item.hop <= hop /\ (step = "await" => item.hop < hop)
             /\ step = "process" /\ item.hop = hop => e <= 3
             /\ step = "stream" /\ item.hop = hop =>
                  item.at \in DOMAIN reply.items /\ item = reply.items[item.at] /\ e <= Sent(item.at)
    BY <1>2, <1>7, <1>8 DEF HopTold
  <2>3. (step = "stream" =>
           known = {reply.items[i] : i \in {j \in DOMAIN reply.items : reply.items[j].kind = "tool" /\ Sent(j) > 0}})'
    BY <1>1, <1>2, <2>1 DEF HopTold
  <2>4. (step \in {"process", "stream"} =>
           \A i \in DOMAIN reply.items : reply.items[i].kind = "tool" =>
             \A e \in 1..(IF step = "stream" THEN Sent(i) ELSE 3) : Told(reply.items[i], e))'
    <3> SUFFICES ASSUME step \in {"process", "stream"}, NEW i \in DOMAIN reply.items, reply.items[i].kind = "tool"
                 PROVE  \A e \in 1..(IF step = "stream" THEN Sent(i) ELSE 3) :
                          \E k \in DOMAIN Said' : Tells(Said'[k], e, reply.items[i])
      BY <1>1, <2>1 DEF Told
    <3>2. QED
      BY <1>2, <1>9 DEF HopTold
  <2>5. QED
    BY <1>1, <2>1, <2>2, <2>3, <2>4 DEF HopTold
<1>18. sequence' = Len(out') + 1 /\ (\A i \in DOMAIN executed : Told(executed[i], 7))'
  <2>1. \A i \in DOMAIN executed : \E k \in DOMAIN Said' : Tells(Said'[k], 7, executed[i])
    BY <1>2, <1>9
  <2>2. QED
    BY <1>1, <1>2, <1>6, <2>1 DEF Told
<1>19. QED
  BY <1>1, <1>10, <1>11, <1>12, <1>14, <1>15, <1>16, <1>17, <1>18 DEF StreamGrows

\* What follows a stream in order, with all that comes before it, is in order too.
Follows(s, q) ==
  \A m \in DOMAIN q, e \in DOMAIN CallEvents : q[m].type = CallEvents[e] =>
    LET item == q[m].items[1] IN
    /\ Tells(q[m], e, item) /\ e >= FirstEvent(item)
    /\ \A d \in FirstEvent(item)..e - 1 :
         (\E j \in DOMAIN s : Tells(s[j], d, item)) \/ (\E j \in 1..m - 1 : Tells(q[j], d, item))
    /\ \A j \in DOMAIN s : ~Tells(s[j], e, item)
    /\ \A j \in 1..m - 1 : ~Tells(q[j], e, item)

LEMMA ConcatInOrder ==
  ASSUME NEW S, NEW s \in Seq(S), NEW q \in Seq(S), InOrder(s), Follows(s, q)
  PROVE  InOrder(s \o q)
<1> DEFINE t == s \o q
<1>1. /\ Len(s) \in Nat /\ Len(q) \in Nat /\ DOMAIN s = 1..Len(s) /\ DOMAIN q = 1..Len(q)
      /\ DOMAIN t = 1..Len(s) + Len(q)
      /\ \A k \in 1..Len(s) : t[k] = s[k]
      /\ \A k \in 1..Len(q) : t[Len(s) + k] = q[k]
  BY ConcatProperties
<1> HIDE DEF t
<1> SUFFICES ASSUME NEW k \in DOMAIN t, NEW e \in DOMAIN CallEvents, t[k].type = CallEvents[e]
             PROVE  /\ Tells(t[k], e, t[k].items[1]) /\ e >= FirstEvent(t[k].items[1])
                    /\ \A d \in FirstEvent(t[k].items[1])..e - 1 :
                         \E j \in 1..k - 1 : Tells(t[j], d, t[k].items[1])
                    /\ \A j \in 1..k - 1 : ~Tells(t[j], e, t[k].items[1])
  BY DEF InOrder, t
<1>2. CASE k \in 1..Len(s)
  <2>1. t[k] = s[k] /\ \A j \in 1..k - 1 : j \in 1..Len(s) /\ t[j] = s[j]
    BY <1>1, <1>2
  <2>2. /\ Tells(s[k], e, s[k].items[1]) /\ e >= FirstEvent(s[k].items[1])
        /\ \A d \in FirstEvent(s[k].items[1])..e - 1 :
             \E j \in 1..k - 1 : Tells(s[j], d, s[k].items[1])
        /\ \A j \in 1..k - 1 : ~Tells(s[j], e, s[k].items[1])
    BY <1>1, <1>2, <2>1 DEF InOrder
  <2>3. QED
    BY <2>1, <2>2
<1>3. CASE k \notin 1..Len(s)
  <2> DEFINE m == k - Len(s)
             item == t[k].items[1]
  <2>1. m \in DOMAIN q /\ k = Len(s) + m /\ m \in Nat
    BY <1>1, <1>3
  <2>2. t[k] = q[m]
    BY <1>1, <2>1
  <2>3. /\ \A j \in DOMAIN s : j \in 1..k - 1 /\ t[j] = s[j]
        /\ \A j \in 1..m - 1 : Len(s) + j \in 1..k - 1 /\ t[Len(s) + j] = q[j]
    <3>1. \A j \in 1..m - 1 : j \in 1..Len(q) /\ Len(s) + j \in 1..k - 1
      BY <1>1, <2>1
    <3>2. \A j \in 1..Len(s) : j \in 1..k - 1
      BY <1>1, <2>1
    <3>3. QED
      BY <1>1, <3>1, <3>2
  <2>4. \A j \in 1..k - 1 : j \in DOMAIN s \/ \E i \in 1..m - 1 : j = Len(s) + i
    <3> SUFFICES ASSUME NEW j \in 1..k - 1, j \notin 1..Len(s)
                 PROVE  \E i \in 1..m - 1 : j = Len(s) + i
      BY <1>1
    <3>1. j - Len(s) \in 1..m - 1 /\ j = Len(s) + (j - Len(s))
      BY <1>1, <2>1
    <3>2. QED
      BY <3>1
  <2> HIDE DEF m
  <2>5. /\ Tells(q[m], e, item) /\ e >= FirstEvent(item)
        /\ \A d \in FirstEvent(item)..e - 1 :
             (\E j \in DOMAIN s : Tells(s[j], d, item)) \/ (\E j \in 1..m - 1 : Tells(q[j], d, item))
        /\ \A j \in DOMAIN s : ~Tells(s[j], e, item)
        /\ \A j \in 1..m - 1 : ~Tells(q[j], e, item)
    BY <2>1, <2>2 DEF Follows
  <2> HIDE DEF item
  <2>6. \A d \in FirstEvent(item)..e - 1 : \E j \in 1..k - 1 : Tells(t[j], d, item)
    BY <2>3, <2>5
  <2>7. \A j \in 1..k - 1 : ~Tells(t[j], e, item)
    BY <2>3, <2>4, <2>5
  <2>8. QED
    BY <2>2, <2>5, <2>6, <2>7 DEF item
<1>4. QED
  BY <1>2, <1>3

\* Events are announced while none waits to be written.
LEMMA SaidMore ==
  ASSUME Queued, Queued', queue = <<>>, UNCHANGED out
  PROVE  /\ Said = out /\ out \in Seq(SaidType) /\ queue' \in Seq(SaidType) /\ Said' = out \o queue'
         /\ Len(out) \in Nat /\ Len(queue') \in Nat
         /\ DOMAIN out = 1..Len(out) /\ DOMAIN queue' = 1..Len(queue')
         /\ DOMAIN Said' = 1..Len(out) + Len(queue')
         /\ \A k \in DOMAIN Said : k \in DOMAIN Said' /\ Said'[k] = Said[k]
         /\ \A k \in DOMAIN queue' : Len(out) + k \in DOMAIN Said' /\ Said'[Len(out) + k] = queue'[k]
         /\ \A k \in DOMAIN Said' : k \in DOMAIN Said \/ \E m \in DOMAIN queue' : Said'[k] = queue'[m]
         /\ \A item, e : Told(item, e) => \E k \in DOMAIN Said' : Tells(Said'[k], e, item)
<1>1. out \in Seq(SaidType) /\ queue' \in Seq(SaidType)
  BY SeqMonotonic DEF SaidType, Queued
<1> HIDE DEF SaidType
<1>2. Said = out
  BY <1>1, ConcatEmptySeq DEF Said
<1>3. Said' = out \o queue'
  BY DEF Said
<1>4. /\ Len(out) \in Nat /\ Len(queue') \in Nat
      /\ DOMAIN out = 1..Len(out) /\ DOMAIN queue' = 1..Len(queue')
      /\ DOMAIN Said' = 1..Len(out) + Len(queue')
      /\ \A k \in 1..Len(out) : k \in DOMAIN Said' /\ Said'[k] = out[k]
      /\ \A k \in 1..Len(queue') : Len(out) + k \in DOMAIN Said' /\ Said'[Len(out) + k] = queue'[k]
  BY <1>1, <1>3, ConcatProperties
<1>5. \A k \in DOMAIN Said' : k \in DOMAIN Said \/ \E m \in DOMAIN queue' : Said'[k] = queue'[m]
  <2> SUFFICES ASSUME NEW k \in DOMAIN Said', k \notin DOMAIN Said
               PROVE  \E m \in DOMAIN queue' : Said'[k] = queue'[m]
    OBVIOUS
  <2> DEFINE m == k - Len(out)
  <2>1. m \in DOMAIN queue' /\ k = Len(out) + m
    BY <1>2, <1>4
  <2> HIDE DEF m
  <2>2. QED
    BY <1>4, <2>1
<1>6. QED
  BY <1>1, <1>2, <1>3, <1>4, <1>5 DEF Told

\* What does not concern the hop: nothing of the answer is written, and the
\* events about to be follow those that have been.
LEMMA MoreAnnounced ==
  ASSUME Queued, Queued', StreamGrows, step \in LoopSteps, step' \in LoopSteps, step' # "process",
         UNCHANGED <<call, out, sequence, executed>>, queue = <<>>,
         call.kind = "responses", call.stream, Finals = {},
         Follows(out, queue'), HopTold',
         \A k \in DOMAIN queue' : Final(queue'[k]) => k = Len(queue'),
         \A i \in DOMAIN executed :
           Told(executed[i], 7) \/ \E k \in DOMAIN queue' : Tells(queue'[k], 7, executed[i])
  PROVE  StreamGrows'
<1>1. /\ Numbered /\ InOrder(out) /\ FinalLast /\ sequence = Len(out) + 1
  BY DEF StreamGrows
<1>2. Finals' = {} /\ Numbered' /\ FinalLast' /\ FinalTold'
  BY <1>1 DEF Finals, Numbered, FinalLast, FinalTold
<1>3. InOrder(Said)'
  <2> DEFINE s == out
             q == queue'
  <2>1. s \in Seq(SaidType) /\ q \in Seq(SaidType) /\ Said' = s \o q /\ InOrder(s) /\ Follows(s, q)
    BY <1>1, SaidMore
  <2> HIDE DEF s, q, SaidType
  <2>2. InOrder(s \o q)
    BY <2>1, ConcatInOrder
  <2>3. QED
    BY <2>1, <2>2
<1>4. (\A i \in DOMAIN executed : Told(executed[i], 7))'
  <2>1. \A i \in DOMAIN executed : \E k \in DOMAIN Said' : Tells(Said'[k], 7, executed[i])
    BY SaidMore
  <2>2. QED
    BY <2>1 DEF Told
<1>5. InOrder(out)' /\ (sequence = Len(out) + 1)'
  BY <1>1
<1>6. (\A k \in DOMAIN queue : Final(queue[k]) => k = Len(queue))'
  BY DEF Final
<1>7. QED
  BY <1>2, <1>3, <1>4, <1>5, <1>6 DEF StreamGrows

\* The answer ends with the completed event, or without.
LEMMA EndAnswerTold ==
  ASSUME IInv, IInv', StreamGrows, EndAnswer
  PROVE  StreamGrows'
<1> SUFFICES ASSUME call.kind = "responses", call.stream PROVE StreamGrows'
  BY DEF StreamGrows, EndAnswer
<1>1. /\ step = "stream" /\ step \in LoopSteps /\ step' \in {"finish", "panicked"} /\ queue = <<>>
      /\ UNCHANGED <<call, out, executed, sequence, hop>> /\ Queued /\ Queued'
      /\ queue' = <<>> \/ (public # <<>> /\ \E w : queue' = <<w>> /\ w.type = "completed")
  BY DEF EndAnswer, clientVars, IInv, LoopSteps, Written
<1>2. CASE queue' = <<>>
  <2>1. HopTold => HopTold'
    BY <1>1, <1>2 DEF HopTold, Said
  <2>2. QED
    BY <1>1, <1>2, <2>1, StreamQuiet
<1>3. CASE public # <<>> /\ \E w : queue' = <<w>> /\ w.type = "completed"
  <2>1. PICK w : queue' = <<w>> /\ w.type = "completed"
    BY <1>3
  <2>2. DOMAIN queue' = 1..1 /\ Len(queue') = 1 /\ queue'[1] = w
    BY <2>1
  <2>3. \A k \in DOMAIN queue' : k = 1 /\ \A e \in DOMAIN CallEvents : queue'[k].type # CallEvents[e]
    BY <2>1, <2>2, CallEventsAre
  <2>4. Follows(out, queue')
    BY <2>3 DEF Follows
  <2>5. Finals = {}
    BY <1>1, <1>3 DEF IInv, FinalIsTotal, Finals, Final
  <2>6. HopTold'
    <3>1. HopTold
      BY <1>1 DEF StreamGrows
    <3>2. ASSUME NEW k \in DOMAIN Said', NEW e \in DOMAIN CallEvents, Said'[k].type = CallEvents[e]
          PROVE  Said'[k].items[1] \in ItemType /\ Said'[k].items[1].hop <= hop
      <4>1. k \in DOMAIN Said /\ Said'[k] = Said[k]
        BY <1>1, <2>3, <3>2, SaidMore
      <4>2. QED
        BY <3>1, <3>2, <4>1 DEF HopTold
    <3>3. QED
      BY <1>1, <3>2 DEF HopTold
  <2>7. \A i \in DOMAIN executed : Told(executed[i], 7)
    BY <1>1 DEF StreamGrows
  <2>8. step' \in LoopSteps /\ step' # "process"
    BY <1>1 DEF LoopSteps
  <2>9. QED
    BY <1>1, <2>2, <2>3, <2>4, <2>5, <2>6, <2>7, <2>8, MoreAnnounced
<1>4. QED
  BY <1>1, <1>2, <1>3

\* What one event of the model's stream tells of the hop's calls: nothing, that
\* there is a call, or its code.
QuietRead ==
  /\ known' = known /\ Len(queue') <= 1
  /\ \A k \in DOMAIN queue', e \in DOMAIN CallEvents : queue'[k].type # CallEvents[e]
  /\ \A i \in DOMAIN reply.items : reply.items[i].kind = "tool" => Sent(i)' = Sent(i)
CallRead(i) ==
  /\ reply.items[i].kind = "tool" /\ Sent(i) = 0 /\ Sent(i)' = 1
  /\ \A j \in DOMAIN reply.items : j # i => Sent(j)' = Sent(j)
  /\ known' = known \cup {reply.items[i]}
  /\ queue' = <<Event("call_added", reply.items[i])>>
CodeRead(i) ==
  /\ reply.items[i].kind = "tool" /\ Sent(i) = 1 /\ Sent(i)' = 3
  /\ \A j \in DOMAIN reply.items : j # i => Sent(j)' = Sent(j)
  /\ known' = known
  /\ queue' = <<Event("code_delta", reply.items[i]), Event("code_done", reply.items[i])>>

LEMMA ReadIs ==
  ASSUME ResponsesTypeOK, StreamPlace, HopItems, HopTold, ReadEvent
  PROVE  /\ QuietRead \/ \E i \in DOMAIN reply.items : CallRead(i) \/ CodeRead(i)
         /\ \A i \in DOMAIN reply.items : Sent(i)' >= Sent(i)
<1> DEFINE event == NextEvent
           length == Len(ItemEvents(reply.items[at]))
<1>1. /\ step = "stream" /\ MoreEvents /\ queue' = Translated(event) /\ UNCHANGED reply
      /\ known' = IF event.type = "added" /\ event.item.kind = "tool" THEN known \cup {event.item} ELSE known
      /\ IF InItems /\ part < length THEN part' = part + 1 /\ at' = at ELSE part' = 1 /\ at' = at + 1
  BY DEF ReadEvent
<1>2. /\ InItems => \/ length = 1 /\ part = 1 /\ event.type = "other"
                    \/ length = 4 /\ part = 1 /\ event.type = "added"
                    \/ length = 4 /\ part = 2 /\ event.type = "delta"
                    \/ length = 4 /\ part = 3 /\ event.type = "arguments"
                    \/ length = 4 /\ part = 4 /\ event.type = "done"
      /\ ~ InItems => /\ at = Len(reply.items) + 1 /\ part = 1
                      /\ event.type \in {"completed", "incomplete"}
  BY <1>1, NextEventIs
<1>3. /\ Len(reply.items) \in Nat /\ at \in Nat \ {0} /\ DOMAIN reply.items = 1..Len(reply.items)
      /\ reply.items \in Seq(ItemType)
  BY DEF ResponsesTypeOK
<1>4. InItems => at \in DOMAIN reply.items /\ event.item = reply.items[at]
                 /\ (length = 4 <=> IsTool(reply.items[at]))
  BY <1>3 DEF InItems, NextEvent, ItemEvents
<1>5. known = {reply.items[i] : i \in {j \in DOMAIN reply.items : reply.items[j].kind = "tool" /\ Sent(j) > 0}}
  BY <1>1 DEF HopTold
<1>6. \A i, j \in DOMAIN reply.items : reply.items[i] = reply.items[j] => i = j
  BY <1>1 DEF HopItems
<1>7. \A i \in DOMAIN reply.items : reply.items[i] \in known <=> reply.items[i].kind = "tool" /\ Sent(i) > 0
  BY <1>5, <1>6
<1> HIDE DEF event, length
<1>8. \A i \in DOMAIN reply.items : (i # at => Sent(i)' = Sent(i))
  <2> SUFFICES ASSUME NEW i \in DOMAIN reply.items, i # at PROVE Sent(i)' = Sent(i)
    OBVIOUS
  <2>1. CASE i < at
    <3>1. i < at'
      BY <1>1, <1>3, <2>1
    <3>2. QED
      BY <2>1, <3>1 DEF Sent
  <2>2. CASE i > at
    <3>1. ~(i < at) /\ i # at /\ ~(i < at') /\ InItems
      BY <1>1, <1>3, <2>2 DEF InItems
    <3>2. i = at' => part' = 1
      BY <1>1, <3>1
    <3>3. QED
      BY <3>1, <3>2 DEF Sent
  <2>3. QED
    BY <1>3, <2>1, <2>2
<1>9. \A i \in DOMAIN reply.items : i = at /\ at' = at + 1 => Sent(i)' = 3
  BY <1>3 DEF Sent
<1>10. \A i \in DOMAIN reply.items : i = at /\ at' = at =>
         Sent(i)' = IF part' = 4 THEN 3 ELSE IF part' > 1 THEN 1 ELSE 0
  BY <1>3 DEF Sent
<1>11. \A i \in DOMAIN reply.items : i = at => Sent(i) = IF part = 4 THEN 3 ELSE IF part > 1 THEN 1 ELSE 0
  BY <1>3 DEF Sent
<1>12. \A i \in DOMAIN reply.items : Sent(i)' >= Sent(i)
  <2> SUFFICES ASSUME NEW i \in DOMAIN reply.items PROVE Sent(i)' >= Sent(i)
    OBVIOUS
  <2>1. Sent(i) \in {0, 1, 3}
    BY DEF Sent
  <2>2. CASE i # at
    BY <1>8, <2>1, <2>2
  <2>3. CASE i = at
    <3>1. CASE at' = at + 1
      BY <1>9, <2>1, <2>3, <3>1
    <3>2. CASE at' = at /\ part' = part + 1 /\ part < length /\ InItems
      <4>1. part \in {1, 2, 3} /\ part' \in {2, 3, 4}
        BY <1>2, <3>2
      <4>2. QED
        BY <1>10, <1>11, <2>3, <3>2, <4>1
    <3>3. QED
      BY <1>1, <3>1, <3>2
  <2>4. QED
    BY <2>2, <2>3
<1> SUFFICES QuietRead \/ \E i \in DOMAIN reply.items : CallRead(i) \/ CodeRead(i)
  BY <1>12
<1>13. CASE ~InItems
  <2>1. queue' = <<>> \/ \E w : queue' = <<w>> /\ w.type \in {"completed", "incomplete"}
    BY <1>1, <1>2, <1>13 DEF Translated, Event, Written
  <2>2. /\ Len(queue') <= 1
        /\ \A k \in DOMAIN queue', e \in DOMAIN CallEvents : queue'[k].type # CallEvents[e]
    <3>1. CASE queue' = <<>>
      BY <3>1
    <3>2. CASE \E w : queue' = <<w>> /\ w.type \in {"completed", "incomplete"}
      <4>1. PICK w : queue' = <<w>> /\ w.type \in {"completed", "incomplete"}
        BY <3>2
      <4>2. \A e \in DOMAIN CallEvents : w.type # CallEvents[e]
        BY <4>1, CallEventsAre
      <4>3. Len(queue') = 1 /\ \A k \in DOMAIN queue' : queue'[k] = w
        BY <4>1
      <4>4. QED
        BY <4>2, <4>3
    <3>3. QED
      BY <2>1, <3>1, <3>2
  <2>3. known' = known /\ \A i \in DOMAIN reply.items : i # at
    BY <1>1, <1>2, <1>3, <1>13
  <2>4. QED
    BY <1>8, <2>2, <2>3, <1>3 DEF QuietRead, Sent
<1>14. CASE InItems
  <2>0. PICK i \in DOMAIN reply.items : i = at
    BY <1>4, <1>14
  <2> DEFINE item == reply.items[i]
  <2>1. event.item = item /\ reply.items[at] = item
    BY <1>4, <1>14, <2>0
  <2>o. ASSUME queue' = <<>> \/ queue' = <<Event("other", item)>>, known' = known,
               item.kind = "tool" => Sent(i)' = Sent(i)
        PROVE  QuietRead
    <3>1. Event("other", item).type = "other"
      BY DEF Event, Written
    <3>2. Len(queue') <= 1 /\ \A k \in DOMAIN queue' : queue'[k].type = "other"
      <4>1. CASE queue' = <<>>
        BY <4>1
      <4>2. CASE queue' = <<Event("other", item)>>
        <5>1. Len(queue') = 1 /\ \A k \in DOMAIN queue' : queue'[k] = Event("other", item)
          BY <4>2
        <5>2. QED
          BY <3>1, <5>1
      <4>3. QED
        BY <2>o, <4>1, <4>2
    <3>3. \A k \in DOMAIN queue', e \in DOMAIN CallEvents : queue'[k].type # CallEvents[e]
      BY <3>2, CallEventsAre
    <3>4. QED
      BY <1>8, <2>0, <2>o, <3>2, <3>3 DEF QuietRead
  <2>2. CASE length = 1 /\ part = 1 /\ event.type = "other"
    <3>1. queue' = <<Event("other", item)>> /\ known' = known /\ at' = at + 1 /\ item.kind # "tool"
      BY <1>1, <1>4, <1>14, <2>1, <2>2 DEF Translated, IsTool
    <3>2. QED
      BY <2>o, <3>1
  <2>3. CASE length = 4 /\ part = 1 /\ event.type = "added"
    <3>1. /\ queue' = IF item.kind = "tool" THEN <<Event("call_added", item)>> ELSE <<>>
          /\ at' = at /\ part' = 2
      BY <1>1, <1>14, <2>1, <2>3 DEF Translated
    <3>2. Sent(i) = 0 /\ Sent(i)' = 1
      BY <1>10, <1>11, <2>3, <2>0, <3>1
    <3>3. CASE item.kind = "tool"
      BY <1>1, <1>8, <2>0, <2>1, <2>3, <3>1, <3>2, <3>3 DEF CallRead
    <3>4. CASE item.kind # "tool"
      <4>1. queue' = <<>> /\ known' = known
        BY <1>1, <2>1, <3>1, <3>4
      <4>2. QED
        BY <2>o, <3>2, <3>4, <4>1
    <3>5. QED
      BY <3>3, <3>4
  <2>4. CASE length = 4 /\ part = 2 /\ event.type = "delta"
    <3>1. /\ queue' = <<>> \/ queue' = <<Event("other", item)>>
          /\ at' = at /\ part' = 3 /\ known' = known
      BY <1>1, <1>14, <2>1, <2>4 DEF Translated
    <3>2. Sent(i) = 1 /\ Sent(i)' = 1
      BY <1>10, <1>11, <2>4, <2>0, <3>1
    <3>3. QED
      BY <2>o, <3>1, <3>2
  <2>5. CASE length = 4 /\ part = 3 /\ event.type = "arguments"
    <3>1. /\ queue' = IF item \in known THEN <<Event("code_delta", item), Event("code_done", item)>>
                      ELSE <<Event("other", item)>>
          /\ at' = at /\ part' = 4 /\ known' = known
      BY <1>1, <1>14, <2>1, <2>5 DEF Translated
    <3>2. Sent(i) = 1 /\ Sent(i)' = 3
      BY <1>10, <1>11, <2>5, <2>0, <3>1
    <3>3. item \in known <=> item.kind = "tool"
      BY <1>7, <2>1, <3>2
    <3>4. CASE item.kind = "tool"
      BY <1>8, <2>0, <3>1, <3>2, <3>3, <3>4 DEF CodeRead
    <3>5. CASE item.kind # "tool"
      <4>1. queue' = <<Event("other", item)>>
        BY <3>1, <3>3, <3>5
      <4>2. QED
        BY <2>o, <3>1, <3>2, <3>5, <4>1
    <3>6. QED
      BY <3>4, <3>5
  <2>6. CASE length = 4 /\ part = 4 /\ event.type = "done"
    <3>1. queue' = <<>> /\ at' = at + 1 /\ known' = known
      BY <1>1, <1>14, <2>1, <2>6 DEF Translated
    <3>2. Sent(i) = 3 /\ Sent(i)' = 3
      BY <1>9, <1>11, <2>6, <2>0, <3>1
    <3>3. QED
      BY <2>o, <3>1, <3>2
  <2>7. QED
    BY <1>2, <1>14, <2>2, <2>3, <2>4, <2>5, <2>6
<1>15. QED
  BY <1>13, <1>14

\* The hop goes on: what is announced is of its calls, as far as they are sent.
LEMMA HopGoesOn ==
  ASSUME Queued, Queued', ResponsesTypeOK, HopItems, HopTold, queue = <<>>, step = "stream",
         UNCHANGED <<step, out, hop, reply>>,
         \A i \in DOMAIN reply.items : Sent(i)' >= Sent(i),
         \A k \in DOMAIN queue', e \in DOMAIN CallEvents : queue'[k].type = CallEvents[e] =>
           \E i \in DOMAIN reply.items : queue'[k].items[1] = reply.items[i] /\ e <= Sent(i)',
         \A i \in DOMAIN reply.items : reply.items[i].kind = "tool" => \A e \in 1..Sent(i)' :
           Told(reply.items[i], e) \/ \E k \in DOMAIN queue' : Tells(queue'[k], e, reply.items[i]),
         \A item : item \in known' <=>
           \E i \in DOMAIN reply.items : item = reply.items[i] /\ item.kind = "tool" /\ Sent(i)' > 0
  PROVE  HopTold'
<1>1. \A i \in DOMAIN reply.items : reply.items[i] \in ItemType /\ reply.items[i].hop = hop /\ reply.items[i].at = i
  BY DEF HopItems, ResponsesTypeOK
<1>2. hop \in Nat /\ \A i \in DOMAIN reply.items : Sent(i) \in {0, 1, 3} /\ Sent(i)' \in {0, 1, 3}
  BY RepliesAssumption DEF ResponsesTypeOK, Sent
<1>3. ASSUME NEW k \in DOMAIN Said', NEW e \in DOMAIN CallEvents, Said'[k].type = CallEvents[e]
      PROVE  /\ Said'[k].items[1] \in ItemType /\ Said'[k].items[1].hop <= hop
             /\ Said'[k].items[1].hop = hop =>
                  \E i \in DOMAIN reply.items :
                    i = Said'[k].items[1].at /\ Said'[k].items[1] = reply.items[i] /\ e <= Sent(i)'
  <2> DEFINE item == Said'[k].items[1]
  <2>1. CASE k \in DOMAIN Said
    <3>1. Said'[k] = Said[k]
      BY <2>1, SaidMore
    <3>2. /\ item \in ItemType /\ item.hop <= hop
          /\ item.hop = hop => \E i \in DOMAIN reply.items : i = item.at /\ item = reply.items[i] /\ e <= Sent(i)
      BY <1>3, <2>1, <3>1 DEF HopTold
    <3>3. e \in Nat
      BY CallEventsAre
    <3>4. \A i \in DOMAIN reply.items : e <= Sent(i) => e <= Sent(i)'
      BY <1>2, <3>3
    <3> HIDE DEF item
    <3>5. QED
      BY <3>2, <3>4 DEF item
  <2>2. CASE \E m \in DOMAIN queue' : Said'[k] = queue'[m]
    <3>1. PICK i \in DOMAIN reply.items : item = reply.items[i] /\ e <= Sent(i)'
      BY <1>3, <2>2
    <3>2. item \in ItemType /\ item.hop = hop /\ item.at = i
      BY <1>1, <3>1
    <3> HIDE DEF item
    <3>3. item.hop <= hop
      BY <1>2, <3>2
    <3>4. QED
      BY <3>1, <3>2, <3>3 DEF item
  <2>3. QED
    BY <2>1, <2>2, SaidMore
<1>4. ASSUME NEW i \in DOMAIN reply.items, reply.items[i].kind = "tool", NEW e \in 1..Sent(i)'
      PROVE  \E k \in DOMAIN Said' : Tells(Said'[k], e, reply.items[i])
  <2>1. Told(reply.items[i], e) => \E k \in DOMAIN Said' : Tells(Said'[k], e, reply.items[i])
    BY SaidMore
  <2>2. ASSUME NEW m \in DOMAIN queue', Tells(queue'[m], e, reply.items[i])
        PROVE  \E k \in DOMAIN Said' : Tells(Said'[k], e, reply.items[i])
    <3>1. Len(out) + m \in DOMAIN Said' /\ Said'[Len(out) + m] = queue'[m]
      BY SaidMore
    <3>2. QED
      BY <2>2, <3>1
  <2>3. QED
    BY <1>4, <2>1, <2>2
<1>5. (\A i \in DOMAIN reply.items : reply.items[i].kind = "tool" => \A e \in 1..Sent(i) : Told(reply.items[i], e))'
  BY <1>4 DEF Told
<1>6. (known = {reply.items[i] : i \in {j \in DOMAIN reply.items : reply.items[j].kind = "tool" /\ Sent(j) > 0}})'
  <2> DEFINE heard == {reply.items[i] : i \in {j \in DOMAIN reply.items : reply.items[j].kind = "tool" /\ Sent(j)' > 0}}
  <2>1. \A item : item \in heard <=>
          \E i \in DOMAIN reply.items : item = reply.items[i] /\ item.kind = "tool" /\ Sent(i)' > 0
    OBVIOUS
  <2> HIDE DEF heard
  <2>2. known' = heard
    BY <2>1
  <2>3. QED
    BY <2>2 DEF heard, Sent
<1>7. (\A k \in DOMAIN Said, e \in DOMAIN CallEvents : Said[k].type = CallEvents[e] =>
         /\ Said[k].items[1] \in ItemType /\ Said[k].items[1].hop <= hop
         /\ Said[k].items[1].hop = hop =>
              /\ Said[k].items[1].at \in DOMAIN reply.items
              /\ Said[k].items[1] = reply.items[Said[k].items[1].at]
              /\ e <= Sent(Said[k].items[1].at))'
  <2> SUFFICES ASSUME NEW k \in DOMAIN Said', NEW e \in DOMAIN CallEvents, Said'[k].type = CallEvents[e]
               PROVE  (/\ Said[k].items[1] \in ItemType /\ Said[k].items[1].hop <= hop
                       /\ Said[k].items[1].hop = hop =>
                            /\ Said[k].items[1].at \in DOMAIN reply.items
                            /\ Said[k].items[1] = reply.items[Said[k].items[1].at]
                            /\ e <= Sent(Said[k].items[1].at))'
    OBVIOUS
  <2>1. QED
    BY <1>3 DEF Sent
<1>8. QED
  BY <1>5, <1>6, <1>7 DEF HopTold

\* No event of a call is announced twice, nor one before those it comes after.
LEMMA ReadTold ==
  ASSUME IInv, IInv', HopItems, StreamGrows, ReadEvent
  PROVE  StreamGrows'
<1> SUFFICES ASSUME call.kind = "responses", call.stream PROVE StreamGrows'
  BY DEF StreamGrows, ReadEvent
<1>1. /\ step = "stream" /\ step \in LoopSteps /\ queue = <<>> /\ MoreEvents /\ Queued /\ Queued'
      /\ UNCHANGED <<step, call, out, executed, sequence, hop, reply>> /\ ResponsesTypeOK /\ StreamPlace
  BY DEF ReadEvent, clientVars, IInv, LoopSteps
<1>2. HopTold /\ (\A i \in DOMAIN executed : Told(executed[i], 7))
  BY <1>1 DEF StreamGrows
<1>3. Finals = {}
  BY <1>1, LoopAtWork DEF SaidFinal, Finals, Final
<1>4. /\ QuietRead \/ \E i \in DOMAIN reply.items : CallRead(i) \/ CodeRead(i)
      /\ \A i \in DOMAIN reply.items : Sent(i)' >= Sent(i)
  BY <1>1, <1>2, ReadIs
<1>5. \A i \in DOMAIN reply.items : Sent(i) \in {0, 1, 3} /\ Sent(i)' \in {0, 1, 3}
  BY DEF Sent
<1>6. \A i, j \in DOMAIN reply.items : reply.items[i] = reply.items[j] => i = j
  BY <1>1 DEF HopItems
<1>7. \A item : item \in known <=>
        \E i \in DOMAIN reply.items : item = reply.items[i] /\ item.kind = "tool" /\ Sent(i) > 0
  BY <1>1, <1>2 DEF HopTold
<1>8. \A i \in DOMAIN reply.items : reply.items[i].kind = "tool" => \A e \in 1..Sent(i) : Told(reply.items[i], e)
  BY <1>1, <1>2 DEF HopTold
<1>9. ASSUME NEW i \in DOMAIN reply.items, NEW e \in DOMAIN CallEvents, e > Sent(i)
      PROVE  \A j \in DOMAIN out : ~Tells(out[j], e, reply.items[i])
  <2> SUFFICES ASSUME NEW j \in DOMAIN out, Tells(out[j], e, reply.items[i]) PROVE FALSE
    OBVIOUS
  <2>1. j \in DOMAIN Said /\ Said[j].type = CallEvents[e] /\ Said[j].items[1] = reply.items[i]
    BY <1>1, <1>9, SaidMore DEF Tells
  <2>2. reply.items[i].hop = hop /\ reply.items[i].at = i
    BY <1>1 DEF HopItems
  <2>3. e <= Sent(i)
    BY <1>1, <1>2, <2>1, <2>2 DEF HopTold
  <2>4. e \in 1..7
    BY CallEventsAre
  <2>5. QED
    BY <1>5, <1>9, <2>3, <2>4
<1>10. \A item, e : Told(item, e) => \E j \in DOMAIN out : Tells(out[j], e, item)
  BY <1>1, SaidMore DEF Told
<1>m. ASSUME Follows(out, queue'), HopTold', \A k \in DOMAIN queue' : Final(queue'[k]) => k = Len(queue')
      PROVE  StreamGrows'
  <2>1. step' \in LoopSteps /\ step' # "process"
    BY <1>1 DEF LoopSteps
  <2>2. QED
    BY <1>1, <1>2, <1>3, <1>m, <2>1, MoreAnnounced
<1>11. CASE QuietRead
  <2>1. Follows(out, queue')
    BY <1>11 DEF QuietRead, Follows
  <2>2. \A k \in DOMAIN queue' : k = Len(queue')
    <3>1. queue' \in Seq(EventType) /\ Len(queue') <= 1
      BY <1>1, <1>11 DEF Queued, QuietRead
    <3>2. QED
      BY <3>1
  <2>3. \A i \in DOMAIN reply.items : reply.items[i].kind = "tool" => Sent(i)' = Sent(i)
    BY <1>11 DEF QuietRead
  <2>4. \A item : item \in known' <=>
          \E i \in DOMAIN reply.items : item = reply.items[i] /\ item.kind = "tool" /\ Sent(i)' > 0
    BY <1>7, <1>11, <2>3 DEF QuietRead
  <2>5. \A i \in DOMAIN reply.items : reply.items[i].kind = "tool" => \A e \in 1..Sent(i)' : Told(reply.items[i], e)
    BY <1>8, <2>3
  <2>6. \A k \in DOMAIN queue', e \in DOMAIN CallEvents : queue'[k].type # CallEvents[e]
    BY <1>11 DEF QuietRead
  <2>7. HopTold'
    BY <1>1, <1>2, <1>4, <2>4, <2>5, <2>6, HopGoesOn
  <2>8. QED
    BY <1>m, <2>1, <2>2, <2>7
<1>12. ASSUME NEW i \in DOMAIN reply.items, CallRead(i)
       PROVE  StreamGrows'
  <2> DEFINE item == reply.items[i]
             w == Event("call_added", item)
  <2>1. /\ item.kind = "tool" /\ Sent(i) = 0 /\ Sent(i)' = 1 /\ known' = known \cup {item}
        /\ \A j \in DOMAIN reply.items : j # i => Sent(j)' = Sent(j)
    BY <1>12 DEF CallRead
  <2>2. queue' = <<w>> /\ w.type = "call_added" /\ w.items = <<item>> /\ w.items[1] = item
    BY <1>12 DEF CallRead, Event, Written
  <2> HIDE DEF w
  <2>3. Len(queue') = 1 /\ DOMAIN queue' = 1..1 /\ queue'[1] = w
    BY <2>2
  <2>4. \A e \in DOMAIN CallEvents : w.type = CallEvents[e] <=> e = 1
    BY <2>2 DEF CallEvents
  <2>5. Tells(w, 1, item) /\ FirstEvent(item) = 1 /\ 1 \in DOMAIN CallEvents
    BY <2>1, <2>2, <2>4, CallEventsAre DEF Tells, FirstEvent
  <2>6. \A j \in DOMAIN out : ~Tells(out[j], 1, item)
    BY <1>9, <2>1, <2>5
  <2>7. Follows(out, queue')
    <3> SUFFICES ASSUME NEW m \in DOMAIN queue', NEW e \in DOMAIN CallEvents, queue'[m].type = CallEvents[e]
                 PROVE  /\ Tells(queue'[m], e, queue'[m].items[1]) /\ e >= FirstEvent(queue'[m].items[1])
                        /\ \A d \in FirstEvent(queue'[m].items[1])..e - 1 :
                             \/ \E j \in DOMAIN out : Tells(out[j], d, queue'[m].items[1])
                             \/ \E j \in 1..m - 1 : Tells(queue'[j], d, queue'[m].items[1])
                        /\ \A j \in DOMAIN out : ~Tells(out[j], e, queue'[m].items[1])
                        /\ \A j \in 1..m - 1 : ~Tells(queue'[j], e, queue'[m].items[1])
      BY DEF Follows
    <3>1. m = 1 /\ e = 1 /\ queue'[m] = w /\ queue'[m].items[1] = item
      BY <2>2, <2>3, <2>4
    <3>2. FirstEvent(item)..e - 1 = {} /\ 1..m - 1 = {}
      BY <2>5, <3>1
    <3>3. QED
      BY <2>5, <2>6, <3>1, <3>2
  <2>8. \A k \in DOMAIN queue' : k = Len(queue')
    BY <2>3
  <2>9. \A it : it \in known' <=>
          \E j \in DOMAIN reply.items : it = reply.items[j] /\ it.kind = "tool" /\ Sent(j)' > 0
    BY <1>7, <2>1
  <2>10. ASSUME NEW j \in DOMAIN reply.items, reply.items[j].kind = "tool", NEW e \in 1..Sent(j)'
         PROVE  Told(reply.items[j], e) \/ \E k \in DOMAIN queue' : Tells(queue'[k], e, reply.items[j])
    <3>1. CASE j = i
      <4>1. e = 1
        BY <2>1, <3>1
      <4>2. QED
        BY <2>3, <2>5, <3>1, <4>1
    <3>2. CASE j # i
      BY <1>8, <2>1, <2>10, <3>2
    <3>3. QED
      BY <3>1, <3>2
  <2>11. \A k \in DOMAIN queue', e \in DOMAIN CallEvents : queue'[k].type = CallEvents[e] =>
           \E j \in DOMAIN reply.items : queue'[k].items[1] = reply.items[j] /\ e <= Sent(j)'
    BY <2>1, <2>2, <2>3, <2>4
  <2>12. HopTold'
    BY <1>1, <1>2, <1>4, <2>9, <2>10, <2>11, HopGoesOn
  <2>13. QED
    BY <1>m, <2>7, <2>8, <2>12
<1>13. ASSUME NEW i \in DOMAIN reply.items, CodeRead(i)
       PROVE  StreamGrows'
  <2> DEFINE item == reply.items[i]
             v == Event("code_delta", item)
             w == Event("code_done", item)
  <2>1. /\ item.kind = "tool" /\ Sent(i) = 1 /\ Sent(i)' = 3 /\ known' = known
        /\ \A j \in DOMAIN reply.items : j # i => Sent(j)' = Sent(j)
    BY <1>13 DEF CodeRead
  <2>2. /\ queue' = <<v, w>> /\ v.type = "code_delta" /\ w.type = "code_done"
        /\ v.items = <<item>> /\ v.items[1] = item /\ w.items = <<item>> /\ w.items[1] = item
    BY <1>13 DEF CodeRead, Event, Written
  <2> HIDE DEF v, w
  <2>3. Len(queue') = 2 /\ DOMAIN queue' = 1..2 /\ queue'[1] = v /\ queue'[2] = w
    BY <2>2
  <2>4. \A e \in DOMAIN CallEvents : (v.type = CallEvents[e] <=> e = 2) /\ (w.type = CallEvents[e] <=> e = 3)
    BY <2>2 DEF CallEvents
  <2>5. /\ Tells(v, 2, item) /\ Tells(w, 3, item) /\ ~Tells(v, 3, item) /\ FirstEvent(item) = 1
        /\ 2 \in DOMAIN CallEvents /\ 3 \in DOMAIN CallEvents
    BY <2>1, <2>2, <2>4, CallEventsAre DEF Tells, FirstEvent
  <2>6. \A j \in DOMAIN out : ~Tells(out[j], 2, item) /\ ~Tells(out[j], 3, item)
    BY <1>9, <2>1, <2>5
  <2>7. \E j \in DOMAIN out : Tells(out[j], 1, item)
    BY <1>8, <1>10, <2>1
  <2>8. Follows(out, queue')
    <3> SUFFICES ASSUME NEW m \in DOMAIN queue', NEW e \in DOMAIN CallEvents, queue'[m].type = CallEvents[e]
                 PROVE  /\ Tells(queue'[m], e, queue'[m].items[1]) /\ e >= FirstEvent(queue'[m].items[1])
                        /\ \A d \in FirstEvent(queue'[m].items[1])..e - 1 :
                             \/ \E j \in DOMAIN out : Tells(out[j], d, queue'[m].items[1])
                             \/ \E j \in 1..m - 1 : Tells(queue'[j], d, queue'[m].items[1])
                        /\ \A j \in DOMAIN out : ~Tells(out[j], e, queue'[m].items[1])
                        /\ \A j \in 1..m - 1 : ~Tells(queue'[j], e, queue'[m].items[1])
      BY DEF Follows
    <3>1. \/ m = 1 /\ e = 2 /\ queue'[m] = v /\ queue'[m].items[1] = item
          \/ m = 2 /\ e = 3 /\ queue'[m] = w /\ queue'[m].items[1] = item
      BY <2>2, <2>3, <2>4
    <3>2. CASE m = 1 /\ e = 2 /\ queue'[m] = v /\ queue'[m].items[1] = item
      <4>1. FirstEvent(item)..e - 1 = {1} /\ 1..m - 1 = {} /\ e >= FirstEvent(item)
        BY <2>5, <3>2
      <4>2. QED
        BY <2>5, <2>6, <2>7, <3>2, <4>1
    <3>3. CASE m = 2 /\ e = 3 /\ queue'[m] = w /\ queue'[m].items[1] = item
      <4>1. FirstEvent(item)..e - 1 = {1, 2} /\ 1..m - 1 = {1} /\ e >= FirstEvent(item)
        BY <2>5, <3>3
      <4>2. QED
        BY <2>3, <2>5, <2>6, <2>7, <3>3, <4>1
    <3>4. QED
      BY <3>1, <3>2, <3>3
  <2>9. \A k \in DOMAIN queue' : ~Final(queue'[k])
    BY <2>2, <2>3 DEF Final
  <2>10. \A it : it \in known' <=>
           \E j \in DOMAIN reply.items : it = reply.items[j] /\ it.kind = "tool" /\ Sent(j)' > 0
    BY <1>7, <2>1
  <2>11. ASSUME NEW j \in DOMAIN reply.items, reply.items[j].kind = "tool", NEW e \in 1..Sent(j)'
         PROVE  Told(reply.items[j], e) \/ \E k \in DOMAIN queue' : Tells(queue'[k], e, reply.items[j])
    <3>1. CASE j = i
      <4>1. e = 1 \/ e = 2 \/ e = 3
        BY <2>1, <3>1
      <4>2. CASE e = 1
        BY <1>8, <2>1, <3>1, <4>2
      <4>3. CASE e = 2 \/ e = 3
        BY <2>3, <2>5, <3>1, <4>3
      <4>4. QED
        BY <4>1, <4>2, <4>3
    <3>2. CASE j # i
      BY <1>8, <2>1, <2>11, <3>2
    <3>3. QED
      BY <3>1, <3>2
  <2>12. \A k \in DOMAIN queue', e \in DOMAIN CallEvents : queue'[k].type = CallEvents[e] =>
           \E j \in DOMAIN reply.items : queue'[k].items[1] = reply.items[j] /\ e <= Sent(j)'
    BY <2>1, <2>2, <2>3, <2>4
  <2>13. HopTold'
    BY <1>1, <1>2, <1>4, <2>10, <2>11, <2>12, HopGoesOn
  <2>14. QED
    BY <1>m, <2>8, <2>9, <2>13
<1>14. QED
  BY <1>4, <1>11, <1>12, <1>13

\* Counting in fours: the place of the mth of the jth four, and back.
LEMMA FourByFour ==
  ASSUME NEW n \in Nat, NEW j \in 1..n, NEW m \in 1..4
  PROVE  LET k == 4 * (j - 1) + m
         IN  k \in 1..4 * n /\ (k + 3) \div 4 = j /\ ((k - 1) % 4) + 1 = m
  BY SMTT(30)

LEMMA InFours ==
  ASSUME NEW n \in Nat, NEW k \in 1..4 * n
  PROVE  LET j == (k + 3) \div 4
             m == ((k - 1) % 4) + 1
         IN  j \in 1..n /\ m \in 1..4 /\ k = 4 * (j - 1) + m
  BY SMTT(30)

\* The announcements: four for each execution, one execution after the other.
LEMMA AnnouncementsAre ==
  ASSUME ResponsesTypeOK
  PROVE  /\ Len(fresh) \in Nat /\ DOMAIN fresh = 1..Len(fresh)
         /\ DOMAIN Announcements = 1..4 * Len(fresh)
         /\ \A j \in DOMAIN fresh, m \in 1..4 :
              /\ 4 * (j - 1) + m \in DOMAIN Announcements
              /\ Tells(Announcements[4 * (j - 1) + m], m + 3, fresh[j])
         /\ \A k \in DOMAIN Announcements : \E j \in DOMAIN fresh, m \in 1..4 : k = 4 * (j - 1) + m
<1>1. fresh \in Seq(ItemType) /\ Len(fresh) \in Nat /\ DOMAIN fresh = 1..Len(fresh)
  BY DEF ResponsesTypeOK
<1>2. DOMAIN Announcements = 1..4 * Len(fresh)
  BY DEF Announcements
<1>3. ASSUME NEW j \in DOMAIN fresh, NEW m \in 1..4
      PROVE  /\ 4 * (j - 1) + m \in DOMAIN Announcements
             /\ Tells(Announcements[4 * (j - 1) + m], m + 3, fresh[j])
  <2> DEFINE k == 4 * (j - 1) + m
  <2>0. j \in 1..Len(fresh) /\ Len(fresh) \in Nat
    BY <1>1
  <2>1. k \in 1..4 * Len(fresh) /\ (k + 3) \div 4 = j /\ ((k - 1) % 4) + 1 = m
    BY <2>0, FourByFour
  <2> HIDE DEF k
  <2>2. Announcements[k] = Announcement(fresh[j])[m]
    BY <2>1 DEF Announcements
  <2>3. \A item : Tells(Announcement(item)[m], m + 3, item)
    BY DEF Announcement, Tells, Event, Written, CallEvents
  <2>4. QED
    BY <1>2, <2>1, <2>2, <2>3 DEF k
<1>4. ASSUME NEW k \in DOMAIN Announcements
      PROVE  \E j \in DOMAIN fresh, m \in 1..4 : k = 4 * (j - 1) + m
  <2> DEFINE j == (k + 3) \div 4
             m == ((k - 1) % 4) + 1
  <2>0. k \in 1..4 * Len(fresh) /\ Len(fresh) \in Nat
    BY <1>1, <1>2
  <2>1. j \in 1..Len(fresh) /\ m \in 1..4 /\ k = 4 * (j - 1) + m
    BY <2>0, InFours
  <2> HIDE DEF j, m
  <2>2. QED
    BY <1>1, <2>1
<1>5. QED
  BY <1>1, <1>2, <1>3, <1>4

LEMMA ConcatOne ==
  ASSUME NEW S, NEW s \in Seq(S), NEW w \in S
  PROVE  /\ Len(s \o <<w>>) = Len(s) + 1 /\ DOMAIN (s \o <<w>>) = 1..Len(s) + 1
         /\ (s \o <<w>>)[Len(s) + 1] = w
         /\ \A k \in 1..Len(s) : (s \o <<w>>)[k] = s[k]
<1>1. <<w>> \in Seq(S) /\ Len(<<w>>) = 1 /\ <<w>>[1] = w /\ Len(s) \in Nat
  OBVIOUS
<1>2. /\ s \o <<w>> \in Seq(S) /\ Len(s \o <<w>>) = Len(s) + 1
      /\ \A k \in 1..Len(s) + 1 : (s \o <<w>>)[k] = IF k <= Len(s) THEN s[k] ELSE <<w>>[k - Len(s)]
  BY <1>1, ConcatProperties
<1>3. (s \o <<w>>)[Len(s) + 1] = w
  <2>1. Len(s) + 1 \in 1..Len(s) + 1 /\ ~(Len(s) + 1 <= Len(s)) /\ (Len(s) + 1) - Len(s) = 1
    BY <1>1
  <2>2. QED
    BY <1>1, <1>2, <2>1
<1>4. QED
  BY <1>1, <1>2, <1>3

\* What a hop leaves to be written: its announcements and, for a mixed one, the end.
LEMMA SettledQueue ==
  ASSUME ResponsesTypeOK, SettleStream
  PROVE  /\ DOMAIN queue' = 1..Len(queue') /\ Len(queue') \in Nat
         /\ Len(queue') \in {4 * Len(fresh), 4 * Len(fresh) + 1}
         /\ \A k \in DOMAIN Announcements : k \in DOMAIN queue' /\ queue'[k] = Announcements[k]
         /\ \A k \in DOMAIN queue' :
              k \in DOMAIN Announcements \/ (k = Len(queue') /\ queue'[k].type = "completed")
<1> DEFINE end == IF HasUser(reply.items) THEN <<Written("completed", public, total)>> ELSE <<>>
<1>1. queue' = Announcements \o end
  BY DEF SettleStream
<1>2. Len(fresh) \in Nat /\ DOMAIN Announcements = 1..4 * Len(fresh)
  BY AnnouncementsAre
<1>3. Announcements \in Seq(EventType) /\ Len(Announcements) = 4 * Len(fresh)
  BY <1>1, <1>2, AnnouncementsType
<1>4. CASE end = <<>>
  <2>1. queue' = Announcements
    BY <1>1, <1>3, <1>4, ConcatEmptySeq
  <2>2. QED
    BY <1>2, <1>3, <2>1
<1>5. CASE end = <<Written("completed", public, total)>>
  <2> DEFINE w == Written("completed", public, total)
             S == EventType \cup {w}
  <2>1. w.type = "completed" /\ end = <<w>>
    BY <1>5 DEF Written
  <2> HIDE DEF w
  <2>2. Announcements \in Seq(S) /\ w \in S
    BY <1>3, SeqMonotonic
  <2> HIDE DEF S
  <2>3. /\ Len(queue') = 4 * Len(fresh) + 1 /\ DOMAIN queue' = 1..Len(queue') /\ queue'[Len(queue')] = w
        /\ \A k \in 1..4 * Len(fresh) : queue'[k] = Announcements[k]
    BY <1>1, <1>3, <2>1, <2>2, ConcatOne
  <2>4. \A k \in 1..4 * Len(fresh) : k \in 1..Len(queue') /\ queue'[k] = Announcements[k]
    BY <1>2, <2>3
  <2>5. \A k \in 1..Len(queue') : k \in 1..4 * Len(fresh) \/ (k = Len(queue') /\ queue'[k] = w)
    <3> SUFFICES ASSUME NEW k \in 1..Len(queue'), k \notin 1..4 * Len(fresh)
                 PROVE  k = Len(queue')
      BY <2>3
    <3>1. Len(fresh) \in Nat /\ Len(queue') = 4 * Len(fresh) + 1
      BY <1>2, <2>3
    <3>2. QED
      BY <3>1
  <2>6. QED
    BY <1>2, <2>1, <2>3, <2>4, <2>5
<1>6. QED
  BY <1>4, <1>5

\* The end of a hop tells of what has run in it.
LEMMA SettleTold ==
  ASSUME IInv, IInv', HopItems, StreamGrows, SettleStream
  PROVE  StreamGrows'
<1> SUFFICES ASSUME call.kind = "responses", call.stream PROVE StreamGrows'
  BY DEF StreamGrows, SettleStream
<1> DEFINE end == IF HasUser(reply.items) THEN <<Written("completed", public, total)>> ELSE <<>>
           events == Announcements
           q == queue'
<1>1. /\ step = "process" /\ step \in LoopSteps /\ at > Len(reply.items) /\ q = events \o end
      /\ step' \in {"send", "finish"} /\ step' \in LoopSteps /\ step' # "process"
      /\ UNCHANGED <<call, out, executed, sequence, hop>> /\ ResponsesTypeOK /\ Queued /\ Queued'
  BY DEF SettleStream, clientVars, hopVars, IInv, LoopSteps
<1>2. queue = <<>> /\ Finals = {}
  BY <1>1, LoopAtWork DEF SaidFinal, Finals, Final
<1>3. HopTold /\ \A i \in DOMAIN executed : Told(executed[i], 7) \/ executed[i] \in Range(fresh)
  BY <1>1 DEF StreamGrows
<1>4. /\ Len(fresh) \in Nat /\ DOMAIN fresh = 1..Len(fresh) /\ DOMAIN events = 1..4 * Len(fresh)
      /\ \A j \in DOMAIN fresh, m \in 1..4 :
           4 * (j - 1) + m \in DOMAIN events /\ Tells(events[4 * (j - 1) + m], m + 3, fresh[j])
      /\ \A k \in DOMAIN events : \E j \in DOMAIN fresh, m \in 1..4 : k = 4 * (j - 1) + m
  BY <1>1, AnnouncementsAre
<1>5. /\ DOMAIN q = 1..Len(q) /\ Len(q) \in Nat /\ Len(q) \in {4 * Len(fresh), 4 * Len(fresh) + 1}
      /\ \A k \in DOMAIN events : k \in DOMAIN q /\ q[k] = events[k]
      /\ \A k \in DOMAIN q : k \in DOMAIN events \/ (k = Len(q) /\ q[k].type = "completed")
  BY <1>1, SettledQueue
<1> HIDE DEF events, end, q
<1>6. \A j \in DOMAIN fresh, m \in 1..4 : 4 * (j - 1) + m \in DOMAIN q /\ Tells(q[4 * (j - 1) + m], m + 3, fresh[j])
  BY <1>4, <1>5
<1>7. \A m \in 1..4 : m + 3 \in DOMAIN CallEvents
  BY CallEventsAre
<1>8. ASSUME NEW k \in DOMAIN q, NEW e \in DOMAIN CallEvents, q[k].type = CallEvents[e]
      PROVE  \E j \in DOMAIN fresh, m \in 1..4 :
               k = 4 * (j - 1) + m /\ e = m + 3 /\ Tells(q[k], e, fresh[j])
  <2>1. q[k].type # "completed"
    BY <1>8, CallEventsAre
  <2>2. PICK j \in DOMAIN fresh, m \in 1..4 : k = 4 * (j - 1) + m
    BY <1>4, <1>5, <2>1
  <2>3. Tells(q[k], m + 3, fresh[j])
    BY <1>6, <2>2
  <2>4. e = m + 3
    BY <1>7, <1>8, <2>3, CallEventsAre DEF Tells
  <2>5. QED
    BY <2>2, <2>3, <2>4
<1>9. \A j \in DOMAIN fresh :
        /\ fresh[j] \in ItemType /\ fresh[j].hop = hop
        /\ fresh[j].kind = "tool" => \A e \in 1..3 : Told(fresh[j], e)
  <2> SUFFICES ASSUME NEW j \in DOMAIN fresh
               PROVE  /\ fresh[j] \in ItemType /\ fresh[j].hop = hop
                      /\ fresh[j].kind = "tool" => \A e \in 1..3 : Told(fresh[j], e)
    OBVIOUS
  <2>1. PICK i \in DOMAIN reply.items : fresh[j] = reply.items[i]
    BY <1>1 DEF HopItems
  <2>2. reply.items[i].hop = hop /\ reply.items[i] \in ItemType
    BY <1>1 DEF HopItems, ResponsesTypeOK
  <2>3. reply.items[i].kind = "tool" => \A e \in 1..3 : Told(reply.items[i], e)
    BY <1>1, <1>3 DEF HopTold
  <2>4. QED
    BY <2>1, <2>2, <2>3
<1>10. \A i, j \in DOMAIN fresh : fresh[i] = fresh[j] => i = j
  BY <1>1 DEF HopItems, IsInjective
<1>11. \A item, e : Told(item, e) <=> \E j \in DOMAIN out : Tells(out[j], e, item)
  BY <1>1, <1>2, SaidMore DEF Told
<1>12. Follows(out, queue')
  <2> SUFFICES ASSUME NEW k \in DOMAIN q, NEW e \in DOMAIN CallEvents, q[k].type = CallEvents[e]
               PROVE  /\ Tells(q[k], e, q[k].items[1]) /\ e >= FirstEvent(q[k].items[1])
                      /\ \A d \in FirstEvent(q[k].items[1])..e - 1 :
                           \/ \E j \in DOMAIN out : Tells(out[j], d, q[k].items[1])
                           \/ \E j \in 1..k - 1 : Tells(q[j], d, q[k].items[1])
                      /\ \A j \in DOMAIN out : ~Tells(out[j], e, q[k].items[1])
                      /\ \A j \in 1..k - 1 : ~Tells(q[j], e, q[k].items[1])
    BY DEF Follows, q
  <2>1. PICK j \in DOMAIN fresh, m \in 1..4 : k = 4 * (j - 1) + m /\ e = m + 3 /\ Tells(q[k], e, fresh[j])
    BY <1>8
  <2> DEFINE item == fresh[j]
  <2>2. q[k].items[1] = item /\ Tells(q[k], e, item)
    BY <2>1 DEF Tells
  <2>3. item.hop = hop /\ (FirstEvent(item) = 4 \/ (FirstEvent(item) = 1 /\ item.kind = "tool"))
    BY <1>9 DEF FirstEvent
  <2>4. e >= FirstEvent(item)
    BY <2>1, <2>3
  <2>5. ASSUME NEW d \in FirstEvent(item)..e - 1
        PROVE  \/ \E x \in DOMAIN out : Tells(out[x], d, item)
               \/ \E x \in 1..k - 1 : Tells(q[x], d, item)
    <3>1. CASE d <= 3
      <4>1. item.kind = "tool" /\ d \in 1..3
        BY <2>1, <2>3, <2>5, <3>1
      <4>2. QED
        BY <1>9, <1>11, <4>1
    <3>2. CASE d >= 4
      <4> DEFINE n == d - 3
                 x == 4 * (j - 1) + n
      <4>0. d \in Int /\ d <= m + 2 /\ j \in Int /\ j >= 1
        BY <1>4, <2>1, <2>3
      <4>1. n \in 1..4 /\ n + 3 = d /\ x \in 1..k - 1
        BY <2>1, <3>2, <4>0
      <4> HIDE DEF n
      <4>2. Tells(q[x], d, item)
        BY <1>6, <4>1
      <4> HIDE DEF x
      <4>3. QED
        BY <4>1, <4>2
    <3>3. d \in Int
      BY <2>3
    <3>4. QED
      BY <3>1, <3>2, <3>3
  <2>6. ASSUME NEW x \in DOMAIN out, Tells(out[x], e, item)
        PROVE  FALSE
    <3>1. x \in DOMAIN Said /\ Said[x].type = CallEvents[e] /\ Said[x].items[1] = item
      BY <1>1, <1>2, <2>6, SaidMore DEF Tells
    <3>2. e <= 3
      BY <1>1, <1>3, <2>3, <3>1 DEF HopTold
    <3>3. QED
      BY <2>1, <3>2
  <2>7. ASSUME NEW x \in 1..k - 1, Tells(q[x], e, item)
        PROVE  FALSE
    <3>0. k \in 1..Len(q) /\ Len(q) \in Nat
      BY <1>5
    <3>1. x \in DOMAIN q /\ q[x].type = CallEvents[e] /\ x < k
      <4>1. x \in 1..Len(q) /\ x < k
        BY <3>0
      <4>2. QED
        BY <1>5, <2>7, <4>1 DEF Tells
    <3>2. PICK i \in DOMAIN fresh, n \in 1..4 : x = 4 * (i - 1) + n /\ e = n + 3 /\ Tells(q[x], e, fresh[i])
      BY <1>8, <3>1
    <3>3. fresh[i] = item
      <4>1. q[x].items[1] = item /\ q[x].items[1] = fresh[i]
        BY <2>7, <3>2 DEF Tells
      <4>2. QED
        BY <4>1
    <3>4. i = j /\ n = m
      BY <1>10, <2>1, <3>2, <3>3
    <3>5. QED
      BY <2>1, <3>1, <3>2, <3>4
  <2> HIDE DEF item
  <2>8. QED
    BY <2>2, <2>4, <2>5, <2>6, <2>7
<1>13. HopTold'
  <2> SUFFICES ASSUME NEW k \in DOMAIN Said', NEW e \in DOMAIN CallEvents, Said'[k].type = CallEvents[e]
               PROVE  Said'[k].items[1] \in ItemType /\ Said'[k].items[1].hop <= hop
    BY <1>1 DEF HopTold
  <2>1. CASE k \in DOMAIN Said
    <3>1. Said'[k] = Said[k]
      BY <1>1, <1>2, <2>1, SaidMore
    <3>2. QED
      BY <1>3, <2>1, <3>1 DEF HopTold
  <2>2. CASE \E n \in DOMAIN q : Said'[k] = q[n]
    <3>1. PICK n \in DOMAIN q : Said'[k] = q[n]
      BY <2>2
    <3>2. PICK j \in DOMAIN fresh : Tells(q[n], e, fresh[j])
      BY <1>8, <3>1
    <3>3. Said'[k].items[1] = fresh[j]
      BY <3>1, <3>2 DEF Tells
    <3>4. hop <= hop
      BY <1>1, RepliesAssumption DEF ResponsesTypeOK
    <3>5. QED
      BY <1>9, <3>3, <3>4
  <2>3. QED
    BY <1>1, <1>2, <2>1, <2>2, SaidMore DEF q
<1>14. \A k \in DOMAIN queue' : Final(queue'[k]) => k = Len(queue')
  <2> SUFFICES ASSUME NEW k \in DOMAIN q, k \in DOMAIN events PROVE ~Final(q[k])
    BY <1>5 DEF q
  <2>1. PICK j \in DOMAIN fresh, m \in 1..4 : k = 4 * (j - 1) + m
    BY <1>4
  <2>2. q[k].type = CallEvents[m + 3]
    BY <1>6, <2>1 DEF Tells
  <2>3. QED
    BY <1>7, <2>2, CallEventsAre DEF Final
<1>15. \A i \in DOMAIN executed :
         Told(executed[i], 7) \/ \E k \in DOMAIN queue' : Tells(queue'[k], 7, executed[i])
  <2> SUFFICES ASSUME NEW i \in DOMAIN executed, executed[i] \in Range(fresh)
               PROVE  \E k \in DOMAIN q : Tells(q[k], 7, executed[i])
    BY <1>3 DEF q
  <2>1. PICK j \in DOMAIN fresh : fresh[j] = executed[i]
    BY DEF Range
  <2> DEFINE k == 4 * (j - 1) + 4
  <2>2. 4 \in 1..4 /\ 4 + 3 = 7
    OBVIOUS
  <2>3. k \in DOMAIN q /\ Tells(q[k], 7, fresh[j])
    BY <1>6, <2>2
  <2> HIDE DEF k
  <2>4. QED
    BY <2>1, <2>3
<1>16. QED
  BY <1>1, <1>2, <1>12, <1>13, <1>14, <1>15, MoreAnnounced

LEMMA LoopTold ==
  ASSUME IInv, IInv', HopItems, StreamGrows, Responses
  PROVE  StreamGrows'
<1> USE DEF hopVars, loopVars, responsesVars, sharedVars, clientVars, ReturnError
<1>0. ResponsesNext /\ Queued /\ ResponsesTypeOK
  BY DEF Responses, IInv
<1>v. ASSUME call' = call, ~call.stream PROVE StreamGrows'
  BY <1>v DEF StreamGrows
<1>e. ASSUME call' = call, executed' = executed, step' \in {"failed", "done"}, UNCHANGED out
      PROVE  StreamGrows'
  BY <1>0, <1>e, StreamEnded DEF LoopSteps
<1>t. ASSUME step \in LoopSteps, call.kind = "responses", call.stream PROVE HopTold
  BY <1>t DEF StreamGrows
<1>1. CASE InvokeHop
  <2>1. step = "send" /\ step \in LoopSteps /\ UNCHANGED <<call, out, queue, sequence, executed>>
    BY <1>1 DEF InvokeHop, LoopSteps
  <2>2. HopTold => HopTold'
    BY <1>0, <1>1, InvokeTold
  <2>3. QED
    BY <2>1, <2>2, StreamQuiet
<1>2. CASE TooManyHops \/ FinishStream
  BY <1>e, <1>2 DEF TooManyHops, FinishStream
<1>3. CASE HopFails \/ ExecuteItemFails
  <2>1. CASE call.stream
    BY <1>e, <1>3, <2>1 DEF HopFails, ExecuteItemFails
  <2>2. CASE ~call.stream
    BY <1>v, <1>3, <2>2 DEF HopFails, ExecuteItemFails
  <2>3. QED
    BY <2>1, <2>2
<1>4. CASE StreamBreaks
  BY <1>e, <1>4 DEF StreamBreaks
<1>5. CASE \E r \in Replies : ReceiveAnswer(r)
  BY <1>v, <1>5 DEF ReceiveAnswer
<1>6. CASE SettleAnswer
  BY <1>v, <1>6 DEF SettleAnswer
<1>7. CASE \E r \in Replies : ReceiveStream(r)
  <2>1. PICK r \in Replies : ReceiveStream(r)
    BY <1>7
  <2>2. step = "await" /\ step \in LoopSteps /\ UNCHANGED <<call, executed>>
    BY <2>1 DEF ReceiveStream, LoopSteps
  <2>3. CASE r.status = "error"
    <3>1. step' = "done" /\ Write(500, Written("forwarded", <<>>, 0))
      BY <2>1, <2>3 DEF ReceiveStream
    <3>2. Finals = {}
      BY <2>2, LoopAtWork DEF SaidFinal, Finals, Final
    <3>3. Written("forwarded", <<>>, 0).n = 0 /\ Written("forwarded", <<>>, 0).type = "forwarded"
      BY DEF Written
    <3>4. step' \notin LoopSteps
      BY <3>1 DEF LoopSteps
    <3>5. QED
      BY <1>0, <2>2, <3>1, <3>2, <3>3, <3>4, StreamEnded
  <2>4. CASE r.status # "error"
    <3>1. step' = "stream" /\ UNCHANGED <<out, queue, sequence>>
      BY <2>1, <2>4 DEF ReceiveStream
    <3>2. HopTold => HopTold'
      BY <1>0, <2>1, <3>1, ReceiveTold
    <3>3. QED
      BY <2>2, <3>1, <3>2, StreamQuiet
  <2>5. QED
    BY <2>3, <2>4
<1>8. CASE KeepItem \/ ExecuteItem
  BY <1>8, RunTold
<1>9. CASE ReadEvent
  BY <1>9, ReadTold
<1>10. CASE WriteEvent
  BY <1>10, WriteTold
<1>11. CASE EndAnswer
  BY <1>11, EndAnswerTold
<1>12. CASE EndHop
  <2>1. step = "stream" /\ step \in LoopSteps /\ UNCHANGED <<call, out, queue, sequence, executed>>
    BY <1>12 DEF EndHop, LoopSteps
  <2>2. HopTold => HopTold'
    BY <1>0, <1>12, EndHopTold
  <2>3. QED
    BY <2>1, <2>2, StreamQuiet
<1>13. CASE SettleStream
  BY <1>13, SettleTold
<1>14. QED
  BY <1>0, <1>1, <1>2, <1>3, <1>4, <1>5, <1>6, <1>7, <1>8, <1>9, <1>10, <1>11, <1>12, <1>13
     DEF ResponsesNext

LEMMA TellStep == IInv /\ IInv' /\ HopItems /\ StreamGrows /\ [Next]_vars => StreamGrows'
<1> SUFFICES ASSUME IInv, IInv', HopItems, StreamGrows, [Next]_vars PROVE StreamGrows'
  OBVIOUS
<1>1. CASE Plan
  <2>1. (PlanGoesOn \/ PlanAnswers \/ RunnerStarts) /\ step \in PlanSteps /\ Ownership
    BY <1>1, PlanEffect DEF IInv, Plan
  <2>2. UNCHANGED responsesVars /\ ResponsesInit /\ out = <<>>
    BY <1>1, <2>1 DEF Plan, Ownership, NoCall
  <2>3. CASE call'.kind = "responses"
    <3>1. step' = "send" /\ out' = out
      BY <2>1, <2>2, <2>3 DEF PlanGoesOn, PlanAnswers, RunnerStarts, Ownership, NoCall, clientVars
    <3>2. executed' = <<>> /\ queue' = <<>> /\ out' = <<>> /\ sequence' = 1
      BY <2>2, <3>1 DEF ResponsesInit, responsesVars, hopVars, loopVars
    <3>3. Said' = <<>>
      BY <3>2 DEF Said
    <3>4. HopTold'
      BY <3>1, <3>3 DEF HopTold
    <3>5. Numbered' /\ InOrder(out)' /\ FinalTold' /\ FinalLast' /\ InOrder(Said)'
      BY <3>2, <3>3 DEF Numbered, InOrder, FinalTold, FinalLast, Finals
    <3>6. sequence' = Len(out') + 1
      BY <3>2
    <3>7. QED
      BY <3>2, <3>4, <3>5, <3>6 DEF StreamGrows
  <2>4. CASE call'.kind # "responses"
    BY <2>4 DEF StreamGrows
  <2>5. QED
    BY <2>3, <2>4
<1>2. CASE Responses
  BY <1>2, LoopTold
<1>3. CASE Chat
  BY <1>3, ChatStays DEF IInv, Ownership, StreamGrows
<1>4. CASE Report
  <2>1. /\ step' = "done" /\ UNCHANGED call /\ UNCHANGED responsesVars
        /\ Write(502, Written("error", <<>>, 0)) /\ Queued
    BY <1>4 DEF Report, ReportError, ApiError, IInv
  <2>2. executed' = executed /\ step' \notin LoopSteps
    BY <2>1 DEF responsesVars, loopVars, LoopSteps
  <2>3. Written("error", <<>>, 0).n = 0 /\ Written("error", <<>>, 0).type = "error"
    BY DEF Written
  <2>4. QED
    BY <2>1, <2>2, <2>3, StreamEnded
<1>5. CASE UNCHANGED vars
  <2>1. UNCHANGED <<step, call, out, queue, sequence, executed, fresh, hop, reply, at, part, known>>
    BY <1>5 DEF vars, sharedVars, clientVars, responsesVars, hopVars, loopVars
  <2>2. Said' = Said /\ Numbered' = Numbered /\ FinalTold' = FinalTold /\ FinalLast' = FinalLast
        /\ Finals' = Finals
    BY <2>1 DEF Said, Numbered, FinalTold, FinalLast, Finals
  <2>3. HopTold => HopTold'
    BY <2>1, <2>2 DEF HopTold, Told, Sent
  <2>4. (\A i \in DOMAIN executed : Told(executed[i], 7) \/ (step = "process" /\ executed[i] \in Range(fresh)))
          => (\A i \in DOMAIN executed : Told(executed[i], 7) \/ (step = "process" /\ executed[i] \in Range(fresh)))'
    BY <2>1, <2>2 DEF Told
  <2>5. InOrder(out) => InOrder(out)'
    BY <2>1
  <2>6. InOrder(Said) => InOrder(Said)'
    BY <2>2
  <2>7. QED
    BY <2>1, <2>2, <2>3, <2>4, <2>5, <2>6 DEF StreamGrows, Final
<1>6. QED
  BY <1>1, <1>2, <1>3, <1>4, <1>5 DEF Next, HandlerEnded

----------------------------------------------------------------------------
(* Where the client's stream ends *)

\* Nothing is written.
LEMMA EndsKept ==
  ASSUME StopTold, StopLast, LaterHopsAfter, UNCHANGED out, executed' = executed \/ Stops = {}
  PROVE  StopTold' /\ StopLast' /\ LaterHopsAfter'
<1>1. Stops' = Stops
  BY DEF Stops, PassedOn, ToolBefore, HopOf, Incomplete
<1>2. StopTold'
  BY <1>1 DEF StopTold
<1>3. StopLast'
  BY <1>1 DEF StopLast
<1>4. LaterHopsAfter'
  BY DEF LaterHopsAfter, MayFollow, HopOf, Incomplete
<1>5. QED
  BY <1>2, <1>3, <1>4

\* One more event leaves those before it, and what is before them, as they are.
LEMMA EventAppended ==
  ASSUME NEW w, Queued, out' = Append(out, w)
  PROVE  /\ Len(out) \in Nat /\ DOMAIN out = 1..Len(out)
         /\ Len(out') = Len(out) + 1 /\ DOMAIN out' = 1..Len(out) + 1 /\ out'[Len(out) + 1] = w
         /\ \A k \in DOMAIN out : k \in DOMAIN out' /\ out'[k] = out[k]
         /\ \A k \in DOMAIN out' : k \in DOMAIN out \/ k = Len(out) + 1
<1> DEFINE S == Range(out) \cup {w}
<1>1. out \in Seq(S) /\ w \in S
  BY SeqMonotonic DEF Queued
<1> HIDE DEF S
<1>2. /\ Len(out) \in Nat /\ DOMAIN out = 1..Len(out)
      /\ Len(out') = Len(out) + 1 /\ DOMAIN out' = 1..Len(out) + 1 /\ out'[Len(out) + 1] = w
      /\ \A k \in 1..Len(out) : out'[k] = out[k]
  BY <1>1, AppendProperties
<1>3. \A k \in 1..Len(out) + 1 : k \in 1..Len(out) \/ k = Len(out) + 1
  BY <1>2
<1>4. \A k \in 1..Len(out) : k \in 1..Len(out) + 1
  BY <1>2
<1>5. QED
  BY <1>2, <1>3, <1>4

LEMMA BeforeKept ==
  ASSUME NEW w, Queued, out' = Append(out, w), NEW k \in DOMAIN out
  PROVE  ToolBefore(out', k) <=> ToolBefore(out, k)
<1>1. \A j \in 1..Len(out) : out'[j] = out[j]
  BY EventAppended
<1>2. k \in 1..Len(out) /\ 1..k - 1 \subseteq 1..Len(out)
  BY EventAppended
<1>3. QED
  BY <1>1, <1>2 DEF ToolBefore, HopOf

\* One more event is written, which may follow those that are there.
LEMMA EndsWritten ==
  ASSUME NEW w, Queued, out' = Append(out, w), executed' = executed,
         StopTold, StopLast, LaterHopsAfter,
         \A k \in DOMAIN out : Incomplete(out[k]) =>
           MayFollow(w, k) /\ (w.type = "error" \/ ToolBefore(out, k)),
         Incomplete(w) =>
           \/ ToolBefore(out', Len(out) + 1)
           \/ \A i \in DOMAIN executed : \E k \in DOMAIN out' : Tells(out'[k], 7, executed[i])
  PROVE  StopTold' /\ StopLast' /\ LaterHopsAfter'
<1>1. /\ Len(out) \in Nat /\ DOMAIN out = 1..Len(out)
      /\ Len(out') = Len(out) + 1 /\ DOMAIN out' = 1..Len(out) + 1 /\ out'[Len(out) + 1] = w
      /\ \A k \in DOMAIN out : k \in DOMAIN out' /\ out'[k] = out[k]
      /\ \A k \in DOMAIN out' : k \in DOMAIN out \/ k = Len(out) + 1
  BY EventAppended
<1>2. ASSUME NEW k \in Stops' PROVE k \in Stops \/ (k = Len(out) + 1 /\ Incomplete(w) /\ ~ToolBefore(out', k))
  <2>1. k \in DOMAIN out' /\ Incomplete(out'[k]) /\ ~ToolBefore(out', k)
    BY <1>2 DEF Stops, PassedOn
  <2>2. CASE k \in DOMAIN out
    <3>1. ~ToolBefore(out, k) /\ Incomplete(out[k])
      BY <1>1, <2>1, <2>2, BeforeKept
    <3>2. QED
      BY <2>2, <3>1 DEF Stops, PassedOn
  <2>3. CASE k = Len(out) + 1
    BY <1>1, <2>1, <2>3
  <2>4. QED
    BY <1>1, <2>1, <2>2, <2>3
<1>3. StopTold'
  <2> SUFFICES ASSUME Stops' # {}, NEW i \in DOMAIN executed
               PROVE  \E k \in DOMAIN out' : Tells(out'[k], 7, executed[i])
    BY CallEventsAre DEF StopTold
  <2>1. PICK k \in Stops' : TRUE
    OBVIOUS
  <2>2. CASE k \in Stops
    <3>1. PICK j \in DOMAIN out : Tells(out[j], 7, executed[i])
      BY <2>2, CallEventsAre DEF StopTold
    <3>2. QED
      BY <1>1, <3>1
  <2>3. CASE k = Len(out) + 1 /\ Incomplete(w) /\ ~ToolBefore(out', k)
    <3>1. ~ToolBefore(out', Len(out) + 1)
      BY <2>3
    <3>2. QED
      BY <2>3, <3>1
  <2>4. QED
    BY <1>2, <2>2, <2>3
<1>4. \A k \in DOMAIN out : \A j \in k + 1..Len(out) + 1 : j \in k + 1..Len(out) \/ j = Len(out) + 1
  BY <1>1
<1>5. \A k \in DOMAIN out : \A j \in k + 1..Len(out) : j \in DOMAIN out
  BY <1>1
<1>6. (Len(out) + 1) + 1..Len(out) + 1 = {}
  BY <1>1
<1>7. StopLast'
  <2> SUFFICES ASSUME NEW k \in Stops', NEW j \in k + 1..Len(out) + 1 PROVE out'[j].type = "error"
    BY <1>1 DEF StopLast
  <2>1. k \in Stops
    BY <1>2, <1>6
  <2>2. k \in DOMAIN out /\ Incomplete(out[k]) /\ ~ToolBefore(out, k)
    BY <2>1 DEF Stops, PassedOn
  <2>3. CASE j \in k + 1..Len(out)
    BY <1>1, <1>5, <2>1, <2>2, <2>3 DEF StopLast
  <2>4. CASE j = Len(out) + 1
    BY <1>1, <2>2, <2>4
  <2>5. QED
    BY <1>4, <2>2, <2>3, <2>4
<1>8. LaterHopsAfter'
  <2> SUFFICES ASSUME NEW k \in DOMAIN out', Incomplete(out'[k]), NEW j \in k + 1..Len(out) + 1
               PROVE  out'[j].type \in {"completed", "error", "forwarded"} \/ HopOf(out'[j]) > HopOf(out'[k])
    BY <1>1 DEF LaterHopsAfter, MayFollow, HopOf, Incomplete
  <2>1. k \in DOMAIN out /\ out'[k] = out[k]
    BY <1>1, <1>6
  <2>2. CASE j \in k + 1..Len(out)
    <3>1. MayFollow(out[j], k) /\ out'[j] = out[j]
      BY <1>1, <1>5, <2>1, <2>2 DEF LaterHopsAfter
    <3>2. QED
      BY <2>1, <3>1 DEF MayFollow
  <2>3. CASE j = Len(out) + 1
    <3>1. MayFollow(w, k) /\ out'[j] = w
      BY <1>1, <2>1, <2>3
    <3>2. QED
      BY <2>1, <3>1 DEF MayFollow
  <2>4. QED
    BY <1>4, <2>1, <2>2, <2>3
<1>9. QED
  BY <1>3, <1>7, <1>8

\* The handler ends, with an error or without; what the model has refused is
\* forwarded only at the beginning of a hop.
LEMMA EndsEnded ==
  ASSUME Queued, EndsGrow, call' = call, executed' = executed, step' \notin LoopSteps,
         \/ UNCHANGED out
         \/ \E code, w : /\ Write(code, w)
                         /\ w.type = "error" \/ (w.type = "forwarded" /\ Stops = {})
  PROVE  EndsGrow'
<1> SUFFICES ASSUME call.kind = "responses", call.stream PROVE StopTold' /\ StopLast' /\ LaterHopsAfter'
  BY DEF EndsGrow
<1>1. StopTold /\ StopLast /\ LaterHopsAfter
  BY DEF EndsGrow
<1>2. CASE UNCHANGED out
  BY <1>1, <1>2, EndsKept
<1>3. CASE \E code, w : /\ Write(code, w)
                        /\ w.type = "error" \/ (w.type = "forwarded" /\ Stops = {})
  <2>1. PICK code, w : /\ Write(code, w)
                       /\ w.type = "error" \/ (w.type = "forwarded" /\ Stops = {})
    BY <1>3
  <2>2. out' = Append(out, w)
    BY <2>1 DEF Write
  <2>3. ASSUME NEW k \in DOMAIN out, Incomplete(out[k])
        PROVE  MayFollow(w, k) /\ (w.type = "error" \/ ToolBefore(out, k))
    <3>1. MayFollow(w, k)
      BY <2>1 DEF MayFollow
    <3>2. Stops = {} => ToolBefore(out, k)
      BY <2>3 DEF Stops, PassedOn
    <3>3. QED
      BY <2>1, <3>1, <3>2
  <2>4. ~Incomplete(w)
    BY <2>1 DEF Incomplete
  <2>5. QED
    BY <1>1, <2>2, <2>3, <2>4, EndsWritten
<1>4. QED
  BY <1>2, <1>3

\* Between the streams of two hops, what has been passed on is all there is.
LEMMA AllPassedOn ==
  ASSUME EndsGrow, call.kind = "responses", call.stream, step \in {"send", "await", "process"}
  PROVE  /\ Stops = {}
         /\ \A k \in DOMAIN out : Incomplete(out[k]) =>
              /\ ToolBefore(out, k) /\ out[k].items # <<>> /\ HopOf(out[k]) \in 0..hop
              /\ step = "await" => HopOf(out[k]) < hop
              /\ step = "process" /\ HopOf(out[k]) = hop => reply.items = <<>>
<1>1. \A k \in DOMAIN out : Incomplete(out[k]) => IncompleteWritten(k)
  BY DEF EndsGrow, LoopSteps
<1>2. \A k \in DOMAIN out : Incomplete(out[k]) => ToolBefore(out, k)
  BY <1>1 DEF IncompleteWritten
<1>3. Stops = {}
  BY <1>2 DEF Stops, PassedOn
<1>4. QED
  BY <1>1, <1>2, <1>3 DEF IncompleteWritten

\* A step of the loop that writes nothing.
LEMMA EndsQuiet ==
  ASSUME EndsGrow, UNCHANGED <<call, out>>, call.kind = "responses", call.stream,
         executed' = executed \/ Stops = {},
         step' = "stream" => HopShown',
         \A k \in DOMAIN out : Incomplete(out[k]) => IncompleteWritten(k)',
         \A m \in DOMAIN queue' : Incomplete(queue'[m]) => IncompleteQueued(m)'
  PROVE  EndsGrow'
<1>1. StopTold' /\ StopLast' /\ LaterHopsAfter'
  BY EndsKept DEF EndsGrow
<1>2. (\A k \in DOMAIN out : Incomplete(out[k]) => IncompleteWritten(k))'
  BY DEF Incomplete
<1>3. (\A m \in DOMAIN queue : Incomplete(queue[m]) => IncompleteQueued(m))'
  BY DEF Incomplete
<1>4. QED
  BY <1>1, <1>2, <1>3 DEF EndsGrow

\* What has been written before stays with its hop.
LEMMA WrittenKept ==
  ASSUME UNCHANGED out, NEW k \in DOMAIN out, ToolBefore(out, k), out[k].items # <<>>,
         HopOf(out[k]) \in 0..hop', step' = "await" => HopOf(out[k]) < hop',
         step' = "stream" /\ HopOf(out[k]) = hop' => ~MoreEvents' /\ ~completed',
         step' = "process" /\ HopOf(out[k]) = hop' => reply'.items = <<>>,
         \A m \in DOMAIN queue' : MayFollow(queue'[m], k)
  PROVE  IncompleteWritten(k)'
<1>1. ToolBefore(out', k) /\ HopOf(out'[k]) = HopOf(out[k]) /\ out'[k].items # <<>>
  OBVIOUS
<1>2. \A m \in DOMAIN queue' : MayFollow(queue[m], k)'
  BY DEF MayFollow
<1>3. QED
  BY <1>1, <1>2 DEF IncompleteWritten

LEMMA InvokeEnds ==
  ASSUME ResponsesTypeOK, EndsGrow, call.kind = "responses", call.stream, InvokeHop
  PROVE  EndsGrow'
<1>1. /\ step = "send" /\ step' = "await" /\ queue = <<>> /\ queue' = <<>> /\ hop' = hop + 1 /\ hop \in Nat
      /\ UNCHANGED <<call, out, executed>>
  BY RepliesAssumption DEF InvokeHop, clientVars, ResponsesTypeOK
<1>2. \A k \in DOMAIN out : Incomplete(out[k]) => IncompleteWritten(k)'
  <2> SUFFICES ASSUME NEW k \in DOMAIN out, Incomplete(out[k]) PROVE IncompleteWritten(k)'
    OBVIOUS
  <2>1. ToolBefore(out, k) /\ out[k].items # <<>> /\ HopOf(out[k]) \in 0..hop
    BY <1>1, AllPassedOn
  <2>2. HopOf(out[k]) \in 0..hop' /\ HopOf(out[k]) < hop'
    BY <1>1, <2>1
  <2>3. QED
    BY <1>1, <2>1, <2>2, WrittenKept
<1>3. QED
  BY <1>1, <1>2, EndsQuiet

LEMMA ReceiveEnds ==
  ASSUME IInv, EndsGrow, call.kind = "responses", call.stream, NEW r \in Replies, ReceiveStream(r)
  PROVE  EndsGrow'
<1>1. step = "await" /\ step \in LoopSteps /\ UNCHANGED <<call, executed, queue>> /\ queue = <<>>
  BY LoopAtWork DEF ReceiveStream, loopVars, LoopSteps
<1>2. CASE r.status = "error"
  <2>1. step' = "done" /\ Write(500, Written("forwarded", <<>>, 0)) /\ step' \notin LoopSteps
    BY <1>2 DEF ReceiveStream, LoopSteps
  <2>2. Stops = {} /\ Queued
    BY <1>1, AllPassedOn, LoopAtWork
  <2>3. Written("forwarded", <<>>, 0).type = "forwarded"
    BY DEF Written
  <2>4. QED
    BY <1>1, <2>1, <2>2, <2>3, EndsEnded
<1>3. CASE r.status # "error"
  <2>1. /\ step' = "stream" /\ UNCHANGED <<out, hop>> /\ at' = 1 /\ part' = 1 /\ hadTool' = FALSE
        /\ completed' = FALSE /\ reply' = Received(r) /\ hop \in Nat
    BY <1>3, LoopAtWork, <1>1, RepliesAssumption DEF ReceiveStream, clientVars, loopVars, ResponsesTypeOK
  <2>2. Received(r).items \in Seq(ItemType)
    BY <2>1, ItemsReceived
  <2>3. HopShown'
    <3>1. \A i \in DOMAIN reply'.items : Sent(i)' = 0
      BY <2>1, <2>2 DEF Sent
    <3>2. QED
      BY <2>1, <3>1 DEF HopShown
  <2>4. \A k \in DOMAIN out : Incomplete(out[k]) => IncompleteWritten(k)'
    <3> SUFFICES ASSUME NEW k \in DOMAIN out, Incomplete(out[k]) PROVE IncompleteWritten(k)'
      OBVIOUS
    <3>1. /\ ToolBefore(out, k) /\ out[k].items # <<>> /\ HopOf(out[k]) \in 0..hop
          /\ HopOf(out[k]) < hop
      BY <1>1, AllPassedOn
    <3>2. HopOf(out[k]) # hop'
      BY <2>1, <3>1
    <3>3. QED
      BY <1>1, <2>1, <3>1, <3>2, WrittenKept
  <2>5. QED
    BY <1>1, <2>1, <2>3, <2>4, EndsQuiet
<1>4. QED
  BY <1>2, <1>3

LEMMA RunEnds ==
  ASSUME IInv, EndsGrow, call.kind = "responses", call.stream, KeepItem \/ ExecuteItem
  PROVE  EndsGrow'
<1>1. /\ step = "process" /\ step' = "process" /\ UNCHANGED <<call, out, hop, reply, queue>>
      /\ step \in LoopSteps
  BY DEF KeepItem, ExecuteItem, sharedVars, clientVars, LoopSteps
<1>2. queue = <<>> /\ Stops = {}
  BY <1>1, LoopAtWork, AllPassedOn
<1>3. \A k \in DOMAIN out : Incomplete(out[k]) => IncompleteWritten(k)'
  BY <1>1, <1>2, AllPassedOn, WrittenKept
<1>4. QED
  BY <1>1, <1>2, <1>3, EndsQuiet

LEMMA EndHopEnds ==
  ASSUME IInv, EndsGrow, call.kind = "responses", call.stream, EndHop
  PROVE  EndsGrow'
<1>1. /\ step = "stream" /\ step' = "process" /\ hadTool /\ queue = <<>> /\ queue' = <<>>
      /\ UNCHANGED <<call, out, hop, executed>> /\ (~completed => reply'.items = <<>>)
  <2>1. DOMAIN reply = {"items", "usage", "ending"}
    BY DEF IInv, ResponsesTypeOK
  <2>2. QED
    BY <2>1 DEF EndHop, ProcessItems, clientVars, loopVars
<1>2. \A k \in DOMAIN out : Incomplete(out[k]) => IncompleteWritten(k)'
  <2> SUFFICES ASSUME NEW k \in DOMAIN out, Incomplete(out[k]) PROVE IncompleteWritten(k)'
    OBVIOUS
  <2>1. IncompleteWritten(k)
    BY <1>1 DEF EndsGrow, LoopSteps
  <2>2. /\ ToolBefore(out, k) /\ out[k].items # <<>> /\ HopOf(out[k]) \in 0..hop
        /\ HopOf(out[k]) = hop => ~completed
    BY <1>1, <2>1 DEF IncompleteWritten
  <2>3. QED
    BY <1>1, <2>2, WrittenKept
<1>3. QED
  BY <1>1, <1>2, EndsQuiet

LEMMA EndAnswerEnds ==
  ASSUME IInv, EndsGrow, call.kind = "responses", call.stream, EndAnswer
  PROVE  EndsGrow'
<1>1. /\ step = "stream" /\ step' \in {"finish", "panicked"} /\ queue = <<>>
      /\ UNCHANGED <<call, out, hop, executed>>
      /\ queue' = <<>> \/ (completed /\ \E w : queue' = <<w>> /\ w.type = "completed")
  BY DEF EndAnswer, clientVars, Written
<1>2. \A m \in DOMAIN queue' : completed /\ queue'[m].type = "completed"
  BY <1>1
<1>3. \A k \in DOMAIN out : Incomplete(out[k]) => IncompleteWritten(k)'
  <2> SUFFICES ASSUME NEW k \in DOMAIN out, Incomplete(out[k]) PROVE IncompleteWritten(k)'
    OBVIOUS
  <2>1. IncompleteWritten(k)
    BY <1>1 DEF EndsGrow, LoopSteps
  <2>2. /\ out[k].items # <<>> /\ HopOf(out[k]) \in 0..hop
        /\ completed => ToolBefore(out, k)
    BY <1>1, <2>1 DEF IncompleteWritten
  <2>3. CASE completed
    <3>1. \A m \in DOMAIN queue' : MayFollow(queue'[m], k)
      BY <1>2 DEF MayFollow
    <3>2. QED
      BY <1>1, <2>2, <2>3, <3>1, WrittenKept
  <2>4. CASE ~completed
    <3>1. queue' = <<>>
      BY <1>1, <2>4
    <3>2. HopOf(out'[k]) = HopOf(out[k]) /\ out'[k].items # <<>>
      BY <1>1, <2>2
    <3>3. QED
      BY <1>1, <2>2, <3>1, <3>2 DEF IncompleteWritten
  <2>5. QED
    BY <2>3, <2>4
<1>4. \A m \in DOMAIN queue' : ~Incomplete(queue'[m])
  BY <1>2 DEF Incomplete
<1>5. QED
  BY <1>1, <1>3, <1>4, EndsQuiet

\* What a hop without output leaves to be written is not an execution.
LEMMA SettleEnds ==
  ASSUME IInv, HopItems, EndsGrow, call.kind = "responses", call.stream, SettleStream
  PROVE  EndsGrow'
<1>1. /\ step = "process" /\ step' \in {"send", "finish"} /\ UNCHANGED <<call, out, hop, executed>>
      /\ ResponsesTypeOK /\ hop \in Nat
  BY RepliesAssumption DEF SettleStream, clientVars, IInv, ResponsesTypeOK
<1>2. ASSUME NEW m \in DOMAIN queue'
      PROVE  \/ queue'[m].type = "completed"
             \/ /\ reply.items # <<>> /\ HopOf(queue'[m]) = hop
                /\ \E e \in 1..7 : queue'[m].type = CallEvents[e]
  <2>1. CASE m \in DOMAIN Announcements
    <3>1. PICK j \in DOMAIN fresh, n \in 1..4 : m = 4 * (j - 1) + n
      BY <1>1, <2>1, AnnouncementsAre
    <3>2. Tells(queue'[m], n + 3, fresh[j])
      BY <1>1, <2>1, <3>1, AnnouncementsAre, SettledQueue
    <3>3. PICK i \in DOMAIN reply.items : fresh[j] = reply.items[i]
      BY <1>1 DEF HopItems
    <3>4. reply.items # <<>> /\ fresh[j].hop = hop
      BY <1>1, <3>3 DEF HopItems
    <3>5. n + 3 \in 1..7
      OBVIOUS
    <3>6. queue'[m].type = CallEvents[n + 3] /\ HopOf(queue'[m]) = hop
      BY <3>2, <3>4 DEF Tells, HopOf
    <3>7. QED
      BY <3>4, <3>5, <3>6
  <2>2. CASE m \notin DOMAIN Announcements
    BY <1>1, <2>2, SettledQueue
  <2>3. QED
    BY <2>1, <2>2
<1>3. \A m \in DOMAIN queue' : ~Incomplete(queue'[m])
  BY <1>2, CallEventsAre DEF Incomplete
<1>4. ASSUME NEW k \in DOMAIN out, Incomplete(out[k]) PROVE IncompleteWritten(k)'
  <2>1. /\ ToolBefore(out, k) /\ out[k].items # <<>> /\ HopOf(out[k]) \in 0..hop
        /\ HopOf(out[k]) = hop => reply.items = <<>>
    BY <1>1, <1>4, AllPassedOn
  <2>2. ASSUME NEW m \in DOMAIN queue', queue'[m].type # "completed" PROVE HopOf(queue'[m]) > HopOf(out[k])
    <3>1. HopOf(queue'[m]) = hop /\ HopOf(out[k]) # hop
      BY <1>2, <2>1, <2>2
    <3>2. QED
      BY <1>1, <2>1, <3>1
  <2>3. \A m \in DOMAIN queue' : MayFollow(queue'[m], k)
    BY <2>2 DEF MayFollow
  <2>4. QED
    BY <1>1, <2>1, <2>3, WrittenKept
<1>5. QED
  BY <1>1, <1>3, <1>4, EndsQuiet

\* What is announced for one event of the model: of its item, or the end.
LEMMA ReadTells ==
  ASSUME ResponsesTypeOK, StreamPlace, HopItems, ReadEvent
  PROVE  /\ NextEvent.item.hop = hop
         /\ \A m \in DOMAIN queue' :
              queue'[m].type = "completed" \/ queue'[m].items = <<NextEvent.item>>
         /\ \A m \in DOMAIN queue' : Incomplete(queue'[m]) =>
              /\ Len(queue') = 1 /\ queue'[m].items = <<Item(hop, 0, "none")>>
              /\ ~InItems /\ NextEvent.type = "incomplete"
<1> DEFINE event == NextEvent
<1>1. step = "stream" /\ MoreEvents /\ queue' = Translated(event)
  BY DEF ReadEvent
<1>2. at \in Nat \ {0} /\ DOMAIN reply.items = 1..Len(reply.items) /\ Len(reply.items) \in Nat
  BY DEF ResponsesTypeOK
<1>3. /\ InItems => event.item = reply.items[at] /\ at \in DOMAIN reply.items
      /\ ~InItems => event.item = Item(hop, 0, "none")
  BY <1>2 DEF InItems, NextEvent
<1>4. event.item.hop = hop
  BY <1>1, <1>3 DEF HopItems, Item
<1>5. /\ InItems => event.type \in {"other", "added", "delta", "arguments", "done"}
      /\ ~InItems => event.type \in {"completed", "incomplete"}
  BY <1>1, NextEventIs
<1> HIDE DEF event
<1>6. CASE event.type = "incomplete"
  <2>1. queue' = <<Event("incomplete", event.item)>> /\ ~InItems
    BY <1>1, <1>5, <1>6 DEF Translated
  <2>2. Event("incomplete", event.item).items = <<event.item>>
    BY DEF Event, Written
  <2>3. Len(queue') = 1 /\ \A m \in DOMAIN queue' : queue'[m].items = <<event.item>>
    BY <2>1, <2>2
  <2>4. QED
    BY <1>3, <1>4, <1>6, <2>1, <2>3 DEF event
<1>7. CASE event.type = "completed"
  <2>1. queue' = <<>> \/ queue' = <<Written("completed", reply.items, reply.usage)>>
    BY <1>1, <1>7 DEF Translated
  <2>2. \A m \in DOMAIN queue' : queue'[m].type = "completed"
    BY <2>1 DEF Written
  <2>3. QED
    BY <1>4, <2>2 DEF Incomplete, event
<1>8. CASE event.type \notin {"incomplete", "completed"}
  <2> DEFINE W == {Event(t, event.item) : t \in {"call_added", "code_delta", "code_done", "other"}}
  <2>1. queue' = <<>> \/ (\E w \in W : queue' = <<w>>) \/ \E v, w \in W : queue' = <<v, w>>
    BY <1>1, <1>5, <1>8 DEF Translated
  <2>2. \A w \in W : w.items = <<event.item>> /\ ~Incomplete(w)
    BY DEF Event, Written, Incomplete
  <2> HIDE DEF W
  <2>3. \A m \in DOMAIN queue' : queue'[m] \in W
    BY <2>1
  <2>4. QED
    BY <1>4, <2>2, <2>3 DEF event
<1>9. QED
  BY <1>6, <1>7, <1>8

\* The stream tells of each call that the model has sent whole.
LEMMA ReadShows ==
  ASSUME ResponsesTypeOK, StreamPlace, HopItems, HopTold, HopShown, ReadEvent
  PROVE  HopShown'
<1> DEFINE event == NextEvent
           length == Len(ItemEvents(reply.items[at]))
<1>1. /\ step = "stream" /\ MoreEvents /\ queue = <<>> /\ queue' = Translated(event)
      /\ UNCHANGED <<out, reply, hop>>
      /\ hadTool' = (hadTool \/ event.type \in {"added", "done"} \/ event.item \in known)
      /\ IF InItems /\ part < length THEN part' = part + 1 /\ at' = at ELSE part' = 1 /\ at' = at + 1
  BY DEF ReadEvent, clientVars
<1>2. /\ at \in Nat \ {0} /\ part \in 1..4 /\ DOMAIN reply.items = 1..Len(reply.items) /\ Len(reply.items) \in Nat
      /\ at' \in {at, at + 1}
  BY <1>1 DEF ResponsesTypeOK
<1>3. /\ InItems => at \in DOMAIN reply.items /\ event.item = reply.items[at]
      /\ InItems => (length = 4 /\ IsTool(reply.items[at])) \/ (length = 1 /\ ~IsTool(reply.items[at]))
  BY <1>2 DEF InItems, NextEvent, ItemEvents
<1>4. /\ InItems /\ length = 4 /\ part = 3 => event.type = "arguments"
      /\ event.type \in {"added", "done"} => InItems /\ length = 4
  BY <1>1, NextEventIs
<1> HIDE DEF event, length
<1>5. hadTool' => \E i \in DOMAIN reply.items : i <= at' /\ IsTool(reply.items[i])
  <2>1. CASE hadTool
    <3>1. PICK i \in DOMAIN reply.items : i <= at /\ IsTool(reply.items[i])
      BY <2>1 DEF HopShown
    <3>2. i <= at'
      BY <1>2, <3>1
    <3>3. QED
      BY <3>1, <3>2
  <2>2. CASE event.type \in {"added", "done"}
    <3>1. at \in DOMAIN reply.items /\ IsTool(reply.items[at])
      BY <1>3, <1>4, <2>2
    <3>2. at <= at'
      BY <1>2
    <3>3. QED
      BY <3>1, <3>2
  <2>3. CASE event.item \in known
    <3>1. PICK i \in DOMAIN reply.items : reply.items[i].kind = "tool" /\ Sent(i) > 0
      BY <1>1, <2>3 DEF HopTold
    <3>2. i <= at
      BY <1>2, <3>1 DEF Sent
    <3>3. i <= at' /\ IsTool(reply.items[i])
      BY <1>2, <3>1, <3>2 DEF IsTool
    <3>4. QED
      BY <3>3
  <2>4. QED
    BY <1>1, <2>1, <2>2, <2>3
<1>6. ASSUME NEW i \in DOMAIN reply.items, IsTool(reply.items[i]), Sent(i)' = 3
      PROVE  \/ \E k \in DOMAIN out : out[k].items = <<reply.items[i]>>
             \/ \E m \in DOMAIN queue' : queue'[m].items = <<reply.items[i]>>
  <2>1. CASE Sent(i) = 3
    <3>1. InStream(reply.items[i])
      BY <1>6, <2>1 DEF HopShown
    <3>2. QED
      BY <1>1, <3>1 DEF InStream
  <2>2. CASE Sent(i) # 3
    <3>1. ~(i < at) /\ (i = at => part # 4)
      BY <2>2 DEF Sent
    <3>2. i < at' \/ (i = at' /\ part' = 4)
      BY <1>6 DEF Sent
    <3>3. i = at
      BY <1>1, <1>2, <3>1, <3>2
    <3>4. InItems /\ length = 4 /\ part # 4
      BY <1>2, <1>3, <1>6, <3>1, <3>3 DEF InItems
    <3>5. part < length
      BY <1>2, <3>4
    <3>6. part' = 4 /\ part' = part + 1
      BY <1>1, <1>2, <3>2, <3>3, <3>4, <3>5
    <3>7. part = 3
      BY <1>2, <3>6
    <3>8. event.type = "arguments" /\ event.item = reply.items[i]
      BY <1>3, <1>4, <3>3, <3>4, <3>7
    <3> DEFINE item == reply.items[i]
    <3>9. \/ queue' = <<Event("code_delta", item), Event("code_done", item)>>
          \/ queue' = <<Event("other", item)>>
      BY <1>1, <3>8 DEF Translated
    <3>10. 1 \in DOMAIN queue' /\ queue'[1] \in {Event("code_delta", item), Event("other", item)}
      BY <3>9
    <3>11. queue'[1].items = <<item>>
      BY <3>10 DEF Event, Written
    <3>12. QED
      BY <3>10, <3>11
  <2>3. QED
    BY <2>1, <2>2
<1>7. (\A i \in DOMAIN reply.items : IsTool(reply.items[i]) /\ Sent(i) = 3 => InStream(reply.items[i]))'
  BY <1>1, <1>6 DEF InStream, IsTool
<1>8. (hadTool => \E i \in DOMAIN reply.items : i <= at /\ IsTool(reply.items[i]))'
  BY <1>1, <1>5 DEF IsTool
<1>9. QED
  BY <1>7, <1>8 DEF HopShown

LEMMA ReadEnds ==
  ASSUME IInv, HopItems, StreamGrows, EndsGrow, call.kind = "responses", call.stream, ReadEvent
  PROVE  EndsGrow'
<1>1. /\ step = "stream" /\ step' = "stream" /\ MoreEvents /\ queue = <<>>
      /\ UNCHANGED <<call, out, hop, executed, reply>> /\ step \in LoopSteps
      /\ completed' = (completed \/ NextEvent.type = "completed")
      /\ ~InItems => at' = at + 1
  BY DEF ReadEvent, clientVars, LoopSteps
<1>2. /\ HopTold /\ HopShown /\ ResponsesTypeOK /\ StreamPlace /\ hop \in Nat /\ ~completed
      /\ \A k \in DOMAIN out : Incomplete(out[k]) => IncompleteWritten(k)
  BY <1>1, RepliesAssumption DEF StreamGrows, EndsGrow, IInv, ResponsesTypeOK, StreamPlace
<1>3. /\ NextEvent.item.hop = hop
      /\ \A m \in DOMAIN queue' : queue'[m].type = "completed" \/ queue'[m].items = <<NextEvent.item>>
      /\ \A m \in DOMAIN queue' : Incomplete(queue'[m]) =>
           /\ Len(queue') = 1 /\ queue'[m].items = <<Item(hop, 0, "none")>>
           /\ ~InItems /\ NextEvent.type = "incomplete"
  BY <1>2, ReadTells
<1>4. ASSUME NEW k \in DOMAIN out, Incomplete(out[k]) PROVE IncompleteWritten(k)'
  <2>1. IncompleteWritten(k)
    BY <1>2, <1>4
  <2>2. ToolBefore(out, k) /\ out[k].items # <<>> /\ HopOf(out[k]) \in 0..hop /\ HopOf(out[k]) # hop
    BY <1>1, <2>1 DEF IncompleteWritten
  <2>3. HopOf(out[k]) < hop
    BY <1>2, <2>2
  <2>4. \A m \in DOMAIN queue' : MayFollow(queue'[m], k)
    <3> SUFFICES ASSUME NEW m \in DOMAIN queue', queue'[m].type # "completed" PROVE MayFollow(queue'[m], k)
      BY DEF MayFollow
    <3>1. HopOf(queue'[m]) = hop
      BY <1>3 DEF HopOf
    <3>2. HopOf(queue'[m]) > HopOf(out[k])
      BY <1>2, <2>2, <2>3, <3>1
    <3>3. QED
      BY <3>2 DEF MayFollow
  <2>5. QED
    BY <1>1, <2>2, <2>4, WrittenKept
<1>5. ASSUME NEW m \in DOMAIN queue', Incomplete(queue'[m]) PROVE IncompleteQueued(m)'
  <2>1. Len(queue') = 1 /\ queue'[m].items = <<Item(hop, 0, "none")>> /\ ~InItems /\ NextEvent.type = "incomplete"
    BY <1>3, <1>5
  <2>2. ~completed'
    BY <1>1, <1>2, <2>1
  <2>3. ~MoreEvents'
    <3>1. at \in Nat /\ Len(reply.items) \in Nat
      BY <1>2 DEF ResponsesTypeOK
    <3>2. at' = at + 1 /\ ~(at <= Len(reply.items)) /\ reply' = reply
      BY <1>1, <2>1 DEF InItems
    <3>3. ~(at' <= Len(reply'.items) + 1)
      BY <3>1, <3>2
    <3>4. QED
      BY <3>3 DEF MoreEvents
  <2>4. QED
    BY <1>1, <2>1, <2>2, <2>3 DEF IncompleteQueued, Item
<1>6. HopShown'
  BY <1>2, ReadShows
<1>7. QED
  BY <1>1, <1>4, <1>5, <1>6, EndsQuiet

\* What is written had been announced.  If it is response.incomplete, then all
\* that has run has been told, and so has a call of its hop.
LEMMA WriteEnds ==
  ASSUME IInv, IInv', HopItems, StreamGrows', EndsGrow, call.kind = "responses", call.stream, WriteEvent
  PROVE  EndsGrow'
<1> DEFINE w == [Head(queue) EXCEPT !.n = sequence]
           n == Len(out) + 1
<1>1. /\ queue # <<>> /\ queue' = Tail(queue) /\ out' = Append(out, w)
      /\ UNCHANGED <<step, call, executed, reply, at, part, hadTool, completed, hop>>
      /\ Queued /\ Queued' /\ step \in {"stream", "send", "finish"} /\ step \in LoopSteps
      /\ ResponsesTypeOK /\ hop \in Nat
  BY RepliesAssumption DEF WriteEvent, Write, IInv, hopVars, Ownership, LoopSteps, ResponsesTypeOK
<1>2. /\ Head(queue) \in EventType /\ Head(queue) = queue[1] /\ Len(queue) \in Nat /\ Len(queue) > 0
      /\ Len(queue') = Len(queue) - 1 /\ DOMAIN queue = 1..Len(queue) /\ DOMAIN queue' = 1..Len(queue) - 1
      /\ \A k \in 1..Len(queue) - 1 : k + 1 \in 1..Len(queue) /\ queue'[k] = queue[k + 1]
  BY <1>1, EmptySeq DEF Queued
<1>3. w.type = queue[1].type /\ w.items = queue[1].items /\ 1 \in DOMAIN queue
  BY <1>2 DEF EventType
<1> HIDE DEF w
<1>4. /\ Len(out) \in Nat /\ DOMAIN out = 1..Len(out)
      /\ Len(out') = n /\ DOMAIN out' = 1..n /\ out'[n] = w /\ n \in DOMAIN out'
      /\ \A k \in DOMAIN out : k \in DOMAIN out' /\ out'[k] = out[k]
      /\ \A k \in DOMAIN out' : k \in DOMAIN out \/ k = n
  BY <1>1, EventAppended
<1>5. \A k \in DOMAIN queue' : \E m \in DOMAIN queue : queue'[k] = queue[m]
  BY <1>2
<1>6. /\ StopTold /\ StopLast /\ LaterHopsAfter /\ (step = "stream" => HopShown)
      /\ \A k \in DOMAIN out : Incomplete(out[k]) => IncompleteWritten(k)
      /\ \A m \in DOMAIN queue : Incomplete(queue[m]) => IncompleteQueued(m)
  BY <1>1 DEF EndsGrow
<1>7. \A m \in DOMAIN queue : Incomplete(queue[m]) =>
        /\ Len(queue) = 1 /\ queue' = <<>> /\ m = 1
        /\ queue[m].items = <<Item(hop, 0, "none")>>
        /\ step = "stream" /\ ~MoreEvents /\ ~completed
  <2> SUFFICES ASSUME NEW m \in DOMAIN queue, Incomplete(queue[m])
               PROVE  /\ Len(queue) = 1 /\ queue' = <<>> /\ m = 1
                      /\ queue[m].items = <<Item(hop, 0, "none")>>
                      /\ step = "stream" /\ ~MoreEvents /\ ~completed
    OBVIOUS
  <2>1. IncompleteQueued(m)
    BY <1>6
  <2>2. Len(queue) = 1 /\ Len(queue') = 0 /\ m = 1
    BY <1>2, <2>1 DEF IncompleteQueued
  <2>3. queue' = <<>>
    BY <1>1, <2>2, EmptySeq DEF Queued
  <2>4. QED
    BY <2>1, <2>2, <2>3 DEF IncompleteQueued
\* A call that the model has sent is told of: in what is written, if all is.
<1>8. ASSUME NEW item, step = "stream", InStream(item)
      PROVE  (\E k \in DOMAIN out' : out'[k].items = <<item>>) \/ (\E m \in DOMAIN queue' : queue'[m].items = <<item>>)
  <2>1. CASE \E k \in DOMAIN out : out[k].items = <<item>>
    BY <1>4, <2>1
  <2>2. CASE \E m \in DOMAIN queue : queue[m].items = <<item>>
    <3>1. PICK m \in DOMAIN queue : queue[m].items = <<item>>
      BY <2>2
    <3>2. CASE m = 1
      BY <1>3, <1>4, <3>1, <3>2
    <3>3. CASE m # 1
      <4>1. m - 1 \in DOMAIN queue' /\ queue'[m - 1] = queue[m]
        BY <1>2, <3>3
      <4>2. QED
        BY <3>1, <4>1
    <3>4. QED
      BY <3>2, <3>3
  <2>3. QED
    BY <1>8, <2>1, <2>2 DEF InStream
<1>9. Incomplete(w) /\ hadTool => ToolBefore(out', n)
  <2> SUFFICES ASSUME Incomplete(w), hadTool PROVE ToolBefore(out', n)
    OBVIOUS
  <2>1. /\ Incomplete(queue[1]) /\ queue' = <<>> /\ w.items = <<Item(hop, 0, "none")>>
        /\ step = "stream" /\ ~MoreEvents
    <3>1. Incomplete(queue[1])
      BY <1>3 DEF Incomplete
    <3>2. QED
      BY <1>3, <1>7, <3>1
  <2>2. PICK i \in DOMAIN reply.items : IsTool(reply.items[i])
    BY <1>6, <2>1 DEF HopShown
  <2>3. Sent(i) = 3
    <3>1. i \in Nat /\ i <= Len(reply.items) /\ at \in Nat /\ Len(reply.items) \in Nat
      BY <1>1 DEF ResponsesTypeOK
    <3>2. i < at
      BY <2>1, <3>1 DEF MoreEvents
    <3>3. QED
      BY <3>2 DEF Sent
  <2>4. InStream(reply.items[i])
    BY <1>6, <2>1, <2>2, <2>3 DEF HopShown
  <2>5. PICK k \in DOMAIN out' : out'[k].items = <<reply.items[i]>>
    <3>1. \/ \E k \in DOMAIN out' : out'[k].items = <<reply.items[i]>>
          \/ \E m \in DOMAIN queue' : queue'[m].items = <<reply.items[i]>>
      BY <1>8, <2>1, <2>4, Zenon
    <3>2. DOMAIN queue' = {}
      BY <2>1
    <3>3. QED
      BY <3>1, <3>2
  <2>6. reply.items[i].hop = hop /\ Item(hop, 0, "none").hop = hop /\ ~IsTool(Item(hop, 0, "none"))
    BY <2>1 DEF HopItems, Item, IsTool
  <2>7. k # n
    <3>1. k = n => <<reply.items[i]>> = <<Item(hop, 0, "none")>>
      BY <1>4, <2>1, <2>5
    <3>2. <<reply.items[i]>> = <<Item(hop, 0, "none")>> => reply.items[i] = Item(hop, 0, "none")
      OBVIOUS
    <3>3. QED
      BY <2>2, <2>6, <3>1, <3>2
  <2>8. k \in 1..n - 1
    BY <1>4, <2>7
  <2>9. out'[k].items # <<>> /\ out'[k].items[1] = reply.items[i] /\ out'[n].items[1] = Item(hop, 0, "none")
    BY <1>4, <2>1, <2>5
  <2>10. QED
    BY <2>2, <2>6, <2>8, <2>9 DEF ToolBefore, HopOf
<1>10. Incomplete(w) => \A i \in DOMAIN executed : \E k \in DOMAIN out' : Tells(out'[k], 7, executed[i])
  <2> SUFFICES ASSUME Incomplete(w), NEW i \in DOMAIN executed
               PROVE  \E k \in DOMAIN out' : Tells(out'[k], 7, executed[i])
    OBVIOUS
  <2>1. queue' = <<>> /\ step' = "stream" /\ step' \in LoopSteps
    BY <1>1, <1>3, <1>7 DEF Incomplete
  <2>2. Told(executed[i], 7)'
    BY <1>1, <2>1 DEF StreamGrows
  <2>3. DOMAIN Said' = DOMAIN out' /\ \A k \in DOMAIN out' : Said'[k] = out'[k]
    <3>1. out' \in Seq(Range(out'))
      BY <1>1 DEF Queued
    <3>2. Said' = out'
      BY <2>1, <3>1, ConcatEmptySeq DEF Said
    <3>3. QED
      BY <3>2
  <2>4. \E k \in DOMAIN Said' : Tells(Said'[k], 7, executed[i])
    BY <1>1, <2>2 DEF Told
  <2>5. QED
    BY <2>3, <2>4
<1>11. ASSUME NEW k \in DOMAIN out, Incomplete(out[k]) PROVE MayFollow(w, k) /\ ToolBefore(out, k)
  <2>1. MayFollow(queue[1], k) /\ ToolBefore(out, k)
    BY <1>3, <1>6, <1>11 DEF IncompleteWritten
  <2>2. QED
    BY <1>3, <2>1 DEF MayFollow, HopOf
<1>12. StopTold' /\ StopLast' /\ LaterHopsAfter'
  BY <1>1, <1>6, <1>10, <1>11, EndsWritten
<1>13. step' = "stream" => HopShown'
  <2> SUFFICES ASSUME step = "stream" PROVE HopShown'
    BY <1>1
  <2>1. \A i \in DOMAIN reply.items : IsTool(reply.items[i]) /\ Sent(i) = 3 =>
          \/ \E k \in DOMAIN out' : out'[k].items = <<reply.items[i]>>
          \/ \E m \in DOMAIN queue' : queue'[m].items = <<reply.items[i]>>
    BY <1>6, <1>8 DEF HopShown
  <2>2. \A i : Sent(i)' = Sent(i)
    BY <1>1 DEF Sent
  <2>3. (\A i \in DOMAIN reply.items : IsTool(reply.items[i]) /\ Sent(i) = 3 => InStream(reply.items[i]))'
    BY <1>1, <2>1, <2>2 DEF InStream, IsTool
  <2>4. (hadTool => \E i \in DOMAIN reply.items : i <= at /\ IsTool(reply.items[i]))'
    BY <1>1, <1>6 DEF HopShown, IsTool
  <2>5. QED
    BY <2>3, <2>4 DEF HopShown
<1>14. \A m \in DOMAIN queue' : ~Incomplete(queue'[m])
  <2> SUFFICES ASSUME NEW m \in DOMAIN queue', Incomplete(queue'[m]) PROVE FALSE
    OBVIOUS
  <2>1. PICK k \in DOMAIN queue : queue'[m] = queue[k]
    BY <1>5
  <2>2. queue' = <<>>
    BY <1>7, <2>1
  <2>3. QED
    BY <2>2
<1>15. ASSUME NEW k \in DOMAIN out', Incomplete(out'[k]) PROVE IncompleteWritten(k)'
  <2>1. CASE k \in DOMAIN out
    <3>1. IncompleteWritten(k) /\ out'[k] = out[k] /\ ToolBefore(out, k) /\ ToolBefore(out', k)
      BY <1>1, <1>4, <1>6, <1>11, <1>15, <2>1, BeforeKept
    <3>2. \A m \in DOMAIN queue' : MayFollow(queue'[m], k)
      BY <1>5, <3>1 DEF IncompleteWritten
    <3>3. \A m \in DOMAIN queue' : MayFollow(queue[m], k)'
      BY <3>1, <3>2 DEF MayFollow
    <3>4. MoreEvents' <=> MoreEvents
      BY <1>1 DEF MoreEvents
    <3>5. /\ out[k].items # <<>> /\ HopOf(out[k]) \in 0..hop
          /\ step = "stream" /\ HopOf(out[k]) = hop => ~MoreEvents /\ ~completed
      BY <3>1 DEF IncompleteWritten
    <3>6. step # "await" /\ step # "process"
      BY <1>1
    <3>7. QED
      BY <1>1, <3>1, <3>3, <3>4, <3>5, <3>6 DEF IncompleteWritten
  <2>2. CASE k = n
    <3>1. /\ Incomplete(w) /\ queue' = <<>> /\ w.items = <<Item(hop, 0, "none")>>
          /\ step = "stream" /\ ~MoreEvents /\ ~completed
      <4>1. Incomplete(w) /\ Incomplete(queue[1])
        BY <1>3, <1>4, <1>15, <2>2 DEF Incomplete
      <4>2. QED
        BY <1>3, <1>7, <4>1
    <3>2. out'[k] = w /\ w.items # <<>> /\ HopOf(w) = hop
      BY <1>4, <2>2, <3>1 DEF HopOf, Item
    <3>3. ToolBefore(out', k) \/ ~hadTool
      BY <1>9, <2>2, <3>1
    <3>4. MoreEvents' <=> MoreEvents
      BY <1>1 DEF MoreEvents
    <3>5. hop \in 0..hop
      BY <1>1
    <3>6. out'[k].items # <<>> /\ HopOf(out'[k]) = hop /\ HopOf(out'[k]) \in 0..hop'
      BY <1>1, <3>2, <3>5
    <3>7. /\ step' = "stream" /\ hop' = hop /\ ~MoreEvents' /\ ~completed' /\ (hadTool' <=> hadTool)
          /\ DOMAIN queue' = {}
      BY <1>1, <3>1, <3>4
    <3>8. ToolBefore(out', k) \/ ~hadTool'
      BY <3>3, <3>7
    <3>9. QED
      BY <3>6, <3>7, <3>8 DEF IncompleteWritten
  <2>3. QED
    BY <1>4, <2>1, <2>2
<1>16. (\A k \in DOMAIN out : Incomplete(out[k]) => IncompleteWritten(k))'
  BY <1>15 DEF Incomplete
<1>17. (\A m \in DOMAIN queue : Incomplete(queue[m]) => IncompleteQueued(m))'
  BY <1>14 DEF Incomplete
<1>18. QED
  BY <1>12, <1>13, <1>16, <1>17 DEF EndsGrow

LEMMA LoopEnds ==
  ASSUME IInv, IInv', HopItems, StreamGrows, StreamGrows', EndsGrow, Responses
  PROVE  EndsGrow'
<1> USE DEF hopVars, loopVars, responsesVars, sharedVars, clientVars, ReturnError
<1>0. ResponsesNext /\ Queued /\ ResponsesTypeOK
  BY DEF Responses, IInv
<1>v. ASSUME call' = call, ~call.stream PROVE EndsGrow'
  BY <1>v DEF EndsGrow
<1>e. ASSUME call' = call, executed' = executed, step' \in {"failed", "done"}, UNCHANGED out
      PROVE  EndsGrow'
  <2>1. step' \notin LoopSteps
    BY <1>e DEF LoopSteps
  <2>2. QED
    BY <1>0, <1>e, <2>1, EndsEnded
<1>k. ASSUME step \in LoopSteps PROVE call.kind = "responses"
  BY <1>k, LoopAtWork
<1>1. CASE InvokeHop
  <2>1. step \in LoopSteps /\ call' = call
    BY <1>1 DEF InvokeHop, LoopSteps
  <2>2. QED
    BY <1>0, <1>1, <1>k, <1>v, <2>1, InvokeEnds
<1>2. CASE TooManyHops \/ FinishStream
  BY <1>e, <1>2 DEF TooManyHops, FinishStream
<1>3. CASE HopFails \/ ExecuteItemFails
  <2>1. CASE call.stream
    BY <1>e, <1>3, <2>1 DEF HopFails, ExecuteItemFails
  <2>2. CASE ~call.stream
    BY <1>v, <1>3, <2>2 DEF HopFails, ExecuteItemFails
  <2>3. QED
    BY <2>1, <2>2
<1>4. CASE StreamBreaks
  BY <1>e, <1>4 DEF StreamBreaks
<1>5. CASE (\E r \in Replies : ReceiveAnswer(r)) \/ SettleAnswer
  BY <1>v, <1>5 DEF ReceiveAnswer, SettleAnswer
<1>6. CASE \E r \in Replies : ReceiveStream(r)
  <2>1. step \in LoopSteps /\ call' = call /\ call.stream
    BY <1>6 DEF ReceiveStream, LoopSteps
  <2>2. QED
    BY <1>6, <1>k, <2>1, ReceiveEnds
<1>7. CASE KeepItem \/ ExecuteItem
  <2>1. step \in LoopSteps /\ call' = call
    BY <1>7 DEF KeepItem, ExecuteItem, LoopSteps
  <2>2. QED
    BY <1>7, <1>k, <1>v, <2>1, RunEnds
<1>8. CASE ReadEvent \/ EndAnswer \/ EndHop \/ SettleStream
  <2>1. step \in LoopSteps /\ call' = call
    BY <1>8 DEF ReadEvent, EndAnswer, EndHop, SettleStream, LoopSteps
  <2>2. QED
    BY <1>8, <1>k, <1>v, <2>1, ReadEnds, EndAnswerEnds, EndHopEnds, SettleEnds
<1>9. CASE WriteEvent
  <2>1. step \in LoopSteps /\ call' = call
    BY <1>9 DEF WriteEvent, IInv, Ownership, LoopSteps
  <2>2. QED
    BY <1>9, <1>k, <1>v, <2>1, WriteEnds
<1>10. QED
  BY <1>0, <1>1, <1>2, <1>3, <1>4, <1>5, <1>6, <1>7, <1>8, <1>9 DEF ResponsesNext

LEMMA EndsStep ==
  IInv /\ IInv' /\ HopItems /\ StreamGrows /\ StreamGrows' /\ EndsGrow /\ [Next]_vars => EndsGrow'
<1> SUFFICES ASSUME IInv, IInv', HopItems, StreamGrows, StreamGrows', EndsGrow, [Next]_vars
             PROVE  EndsGrow'
  OBVIOUS
<1>1. CASE Plan
  <2>1. (PlanGoesOn \/ PlanAnswers \/ RunnerStarts) /\ step \in PlanSteps /\ Ownership
    BY <1>1, PlanEffect DEF IInv, Plan
  <2>2. UNCHANGED responsesVars /\ ResponsesInit /\ out = <<>>
    BY <1>1, <2>1 DEF Plan, Ownership, NoCall
  <2>3. CASE call'.kind = "responses"
    <3>1. step' = "send" /\ out' = <<>> /\ queue' = <<>>
      BY <2>1, <2>2, <2>3 DEF PlanGoesOn, PlanAnswers, RunnerStarts, Ownership, NoCall,
         clientVars, ResponsesInit, responsesVars
    <3>2. StopTold' /\ StopLast' /\ LaterHopsAfter'
      BY <3>1 DEF StopTold, StopLast, LaterHopsAfter, Stops
    <3>3. QED
      BY <3>1, <3>2 DEF EndsGrow
  <2>4. CASE call'.kind # "responses"
    BY <2>4 DEF EndsGrow
  <2>5. QED
    BY <2>3, <2>4
<1>2. CASE Responses
  BY <1>2, LoopEnds
<1>3. CASE Chat
  BY <1>3, ChatStays DEF IInv, Ownership, EndsGrow
<1>4. CASE Report
  <2>1. /\ step' = "done" /\ UNCHANGED call /\ UNCHANGED responsesVars
        /\ Write(502, Written("error", <<>>, 0)) /\ Queued
    BY <1>4 DEF Report, ReportError, ApiError, IInv
  <2>2. executed' = executed /\ step' \notin LoopSteps
    BY <2>1 DEF responsesVars, loopVars, LoopSteps
  <2>3. Written("error", <<>>, 0).type = "error"
    BY DEF Written
  <2>4. QED
    BY <2>1, <2>2, <2>3, EndsEnded
<1>5. CASE UNCHANGED vars
  <2>1. UNCHANGED <<step, call, out, queue, executed, hop, reply, at, part, hadTool, completed>>
    BY <1>5 DEF vars, sharedVars, clientVars, responsesVars, hopVars, loopVars
  <2>2. StopTold /\ StopLast /\ LaterHopsAfter => StopTold' /\ StopLast' /\ LaterHopsAfter'
    BY <2>1, EndsKept
  <2>s. UNCHANGED part /\ \A i : Sent(i)' = Sent(i)
    BY <1>5, <2>1 DEF vars, responsesVars, hopVars, Sent
  <2>h. HopShown => HopShown'
    BY <2>1, <2>s DEF HopShown, InStream
  <2>3. (\A k \in DOMAIN out : Incomplete(out[k]) => IncompleteWritten(k))'
          = \A k \in DOMAIN out : Incomplete(out[k]) => IncompleteWritten(k)
    BY <2>1 DEF IncompleteWritten, MoreEvents, MayFollow
  <2>4. (\A m \in DOMAIN queue : Incomplete(queue[m]) => IncompleteQueued(m))'
          = \A m \in DOMAIN queue : Incomplete(queue[m]) => IncompleteQueued(m)
    BY <2>1 DEF IncompleteQueued, MoreEvents
  <2>5. QED
    BY <2>1, <2>2, <2>h, <2>3, <2>4 DEF EndsGrow
<1>6. QED
  BY <1>1, <1>2, <1>3, <1>4, <1>5 DEF Next, HandlerEnded

\* The stream that the router puts together from those of several hops, with the
\* events of the executions between them, is one stream: its numbers follow each
\* other, each call is told of in order and to its end, and nothing but an error
\* follows the end of the response.  It ends with response.completed, or with
\* response.incomplete of a hop that has called no tool; behind that of a hop that
\* has, only later hops go on (emitResponsesEvent and handleResponsesStream in
\* responses_runner.go).
THEOREM StreamAlwaysWellFormed == Spec => []StreamWellFormed
<1>1. Init => StreamGrows /\ EndsGrow
  BY DEF Init, SharedInit, NoCall, StreamGrows, EndsGrow
<1>2. Init => ReplayGrows
  BY DEF Init, SharedInit, ReplayGrows, HopItems
<1>3. ReplayGrows => HopItems
  BY DEF ReplayGrows
<1>4. StreamGrows /\ EndsGrow => StreamWellFormed
  <2> SUFFICES ASSUME StreamGrows, EndsGrow, call.kind = "responses", call.stream
               PROVE  ToldToEnd /\ NothingAfterEnd
    BY DEF StreamGrows, EndsGrow, StreamWellFormed
  <2>1. Ends = Finals \cup Stops
    BY DEF Ends, Stops
  <2>2. FinalTold /\ FinalLast /\ StopTold /\ StopLast
    BY DEF StreamGrows, EndsGrow
  <2>3. ToldToEnd
    BY <2>1, <2>2 DEF ToldToEnd, FinalTold, StopTold
  <2>4. NothingAfterEnd
    BY <2>1, <2>2 DEF NothingAfterEnd, FinalLast, StopLast
  <2>5. QED
    BY <2>3, <2>4
<1>5. QED
  BY <1>1, <1>2, <1>3, <1>4, ReplayStep, TellStep, EndsStep, InvariantHolds, PTL DEF Spec
=============================================================================
