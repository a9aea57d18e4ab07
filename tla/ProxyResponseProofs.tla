------------------------- MODULE ProxyResponseProofs -------------------------
(***************************************************************************)
(* Proofs about ProxyResponse, for every set of requests, answers, lines   *)
(* and usage reports and for streams of any length: the client sees the    *)
(* backend's lines in their order, a request is billed once, for the last  *)
(* usage its stream has reported, and what the client is told is what was  *)
(* billed.                                                                 *)
(***************************************************************************)
EXTENDS ProxyResponse, SequenceTheorems, TLAPS

----------------------------------------------------------------------------
(* The operators *)

LEMMA NoUsageType == NoUsage \in UsageType
BY DEF NoUsage, UsageType

LEMMA LineType == \A l \in Lines : l.usage \in UsageType
BY ConstantsAssumption, NoUsageType DEF UsageType

\* A body that reports a usage reports one with tokens.
LEMMA BodyUsageType == BodyUsage \in UsageType /\ BodyUsage.total > 0
<1>1. PICK u \in Usages : u.total > 0
  BY ConstantsAssumption
<1>2. BodyUsage \in Usages /\ BodyUsage.total > 0
  BY <1>1 DEF BodyUsage
<1>3. QED
  BY <1>2, ConstantsAssumption DEF UsageType

LEMMA MergeType ==
  ASSUME NEW u \in UsageType, NEW v \in UsageType
  PROVE  Merge(u, v) \in UsageType
BY DEF Merge, UsageType

\* A usage that is reported stays one with its total.
LEMMA TotalType ==
  ASSUME NEW u \in UsageType
  PROVE  Total(u) \in UsageType /\ (Reports(u) => Total(u) # NoUsage)
<1>1. Total(u) \in UsageType
  BY DEF Total, UsageType
<1>2. Reports(u) => Total(u).total > 0
  BY DEF Total, Reports, UsageType
<1>3. NoUsage.total = 0
  BY DEF NoUsage
<1>4. QED
  BY <1>1, <1>2, <1>3

\* One more line adds its place, if it is shown.
LEMMA ShownAppend ==
  ASSUME NEW s \in Seq(Lines), NEW l \in Lines
  PROVE  Shown(Append(s, l)) =
           Shown(s) \cup (IF ~ Hidden(l)
                             /\ ~ (l.kind = "blank" /\ s # <<>> /\ Hidden(Last(s)))
                          THEN {Len(s) + 1} ELSE {})
BY DEF Shown, Last

\* One more line, at a later place.
LEMMA InOrderAppend ==
  ASSUME NEW part \in Seq(Lines), NEW lines \in Seq(Lines), NEW places \in SUBSET Nat,
         NEW q \in Nat, \A p \in places : p < q, InOrder(part, lines, places)
  PROVE  InOrder(Append(part, lines[q]), lines, places \cup {q})
<1>1. PICK at \in [1..Len(part) -> places] :
        /\ \A i \in 1..Len(part) : part[i] = lines[at[i]]
        /\ \A i, j \in 1..Len(part) : i < j => at[i] < at[j]
        /\ \A p \in places : \E i \in 1..Len(part) : at[i] = p
  BY DEF InOrder
<1> DEFINE n == Len(part) + 1
           at2 == [i \in 1..n |-> IF i = n THEN q ELSE at[i]]
<1>2. Len(Append(part, lines[q])) = n /\ Len(part) \in Nat
  OBVIOUS
<1>3. at2 \in [1..n -> places \cup {q}]
  BY <1>1, <1>2
<1>4. \A i \in 1..n : Append(part, lines[q])[i] = lines[at2[i]]
  BY <1>1, <1>2
<1>5. \A i, j \in 1..n : i < j => at2[i] < at2[j]
  <2>1. \A i \in 1..Len(part) : at[i] < q
    BY <1>1
  <2>2. \A i \in 1..n : i # n => i \in 1..Len(part)
    BY <1>2
  <2>3. TAKE i, j \in 1..n
  <2>4. HAVE i < j
  <2>5. i \in 1..Len(part) /\ at2[i] = at[i]
    BY <1>2, <2>2, <2>4
  <2>6. CASE j = n
    BY <2>1, <2>5, <2>6
  <2>7. CASE j # n
    BY <1>1, <2>2, <2>4, <2>5, <2>7
  <2>8. QED
    BY <2>6, <2>7
<1>6. \A p \in places \cup {q} : \E i \in 1..n : at2[i] = p
  BY <1>1, <1>2
<1> DEFINE new == Append(part, lines[q])
<1>7. /\ at2 \in [1..Len(new) -> places \cup {q}]
      /\ \A i \in 1..Len(new) : new[i] = lines[at2[i]]
      /\ \A i, j \in 1..Len(new) : i < j => at2[i] < at2[j]
      /\ \A p \in places \cup {q} : \E i \in 1..Len(new) : at2[i] = p
  BY <1>2, <1>3, <1>4, <1>5, <1>6
<1> HIDE DEF n, at2, new
<1>8. InOrder(new, lines, places \cup {q})
  BY <1>7 DEF InOrder
<1>9. QED
  BY <1>8 DEF new

\* The places do not depend on lines that come after them.
LEMMA InOrderExtend ==
  ASSUME NEW part \in Seq(Lines), NEW s \in Seq(Lines), NEW l \in Lines,
         NEW places \in SUBSET (1..Len(s)), InOrder(part, s, places)
  PROVE  InOrder(part, Append(s, l), places)
<1>1. \A p \in places : Append(s, l)[p] = s[p]
  OBVIOUS
<1>2. PICK at \in [1..Len(part) -> places] :
        /\ \A i \in 1..Len(part) : part[i] = s[at[i]]
        /\ \A i, j \in 1..Len(part) : i < j => at[i] < at[j]
        /\ \A p \in places : \E i \in 1..Len(part) : at[i] = p
  BY DEF InOrder
<1>3. \A i \in 1..Len(part) : part[i] = Append(s, l)[at[i]]
  BY <1>1, <1>2
<1>4. QED
  BY <1>2, <1>3 DEF InOrder

LEMMA ReportedAtAppend ==
  ASSUME NEW s \in Seq(Lines), NEW l \in Lines, NEW f \in DOMAIN NoUsage
  PROVE  ReportedAt(Append(s, l), f) =
           ReportedAt(s, f) \cup
             (IF l.kind # "long" /\ l.usage[f] > 0 THEN {Len(s) + 1} ELSE {})
BY DEF ReportedAt

LEMMA HasLastAppend ==
  ASSUME NEW s \in Seq(Lines), NEW l \in Lines, HasLast(s)
  PROVE  HasLast(Append(s, l))
<1> SUFFICES ASSUME NEW f \in DOMAIN NoUsage
             PROVE  \/ ReportedAt(Append(s, l), f) = {}
                    \/ \E i \in ReportedAt(Append(s, l), f) :
                         \A j \in ReportedAt(Append(s, l), f) : j <= i
  BY DEF HasLast
<1>1. \A j \in ReportedAt(s, f) : j \in Nat /\ j <= Len(s)
  BY DEF ReportedAt
<1>2. CASE l.kind # "long" /\ l.usage[f] > 0
  <2>1. \A j \in ReportedAt(Append(s, l), f) : j <= Len(s) + 1
    BY <1>1, <1>2, ReportedAtAppend
  <2>2. QED
    BY <1>2, <2>1, ReportedAtAppend
<1>3. CASE ~ (l.kind # "long" /\ l.usage[f] > 0)
  BY <1>3, ReportedAtAppend DEF HasLast
<1>4. QED
  BY <1>2, <1>3

\* What has been reported, one line later.
LEMMA ReportedAppend ==
  ASSUME NEW s \in Seq(Lines), NEW l \in Lines, HasLast(s)
  PROVE  Reported(Append(s, l)) =
           IF l.kind = "long" THEN Reported(s) ELSE Merge(Reported(s), l.usage)
<1> DEFINE t == Append(s, l)
<1>1. ASSUME NEW f \in DOMAIN NoUsage
      PROVE  Reported(t)[f] =
               IF l.kind # "long" /\ l.usage[f] > 0 THEN l.usage[f] ELSE Reported(s)[f]
  <2>0. \A j \in ReportedAt(s, f) : j \in 1..Len(s) /\ t[j] = s[j]
    BY DEF ReportedAt
  <2>1. CASE l.kind # "long" /\ l.usage[f] > 0
    <3> DEFINE at == ReportedAt(t, f)
               k  == CHOOSE i \in at : \A j \in at : j <= i
    <3>1. at = ReportedAt(s, f) \cup {Len(s) + 1}
      BY <2>1, ReportedAtAppend
    <3>2. \A j \in at : j \in Nat /\ j <= Len(s) + 1
      BY <2>0, <3>1
    <3>3. k \in at /\ \A j \in at : j <= k
      BY <3>1, <3>2
    <3>4. k = Len(s) + 1
      BY <3>1, <3>2, <3>3
    <3>5. Reported(t)[f] = t[k].usage[f]
      BY <3>1 DEF Reported
    <3>6. t[Len(s) + 1] = l
      OBVIOUS
    <3>7. QED
      BY <2>1, <3>4, <3>5, <3>6
  <2>2. CASE ~ (l.kind # "long" /\ l.usage[f] > 0)
    <3> DEFINE at == ReportedAt(s, f)
               k  == CHOOSE i \in at : \A j \in at : j <= i
    <3>1. ReportedAt(t, f) = at
      <4>1. ReportedAt(t, f) = at \cup (IF l.kind # "long" /\ l.usage[f] > 0 THEN {Len(s) + 1} ELSE {})
        BY ReportedAtAppend
      <4> HIDE DEF at, t
      <4>2. QED
        BY <2>2, <4>1
    <3>2. CASE at = {}
      BY <2>2, <3>1, <3>2, SMTT(30) DEF Reported
    <3>3. CASE at # {}
      <4>1. k \in at
        BY <3>3 DEF HasLast
      <4>2. Reported(t)[f] = t[k].usage[f] /\ Reported(s)[f] = s[k].usage[f]
        BY <3>1, <3>3 DEF Reported
      <4>3. QED
        BY <2>0, <2>2, <4>1, <4>2
    <3>4. QED
      BY <3>2, <3>3
  <2>3. QED
    BY <2>1, <2>2
<1>2. \A r \in {s, t} : Reported(r) = [f \in DOMAIN NoUsage |-> Reported(r)[f]]
  BY DEF Reported
<1>3. DOMAIN Reported(s) = DOMAIN NoUsage
  BY DEF Reported
<1> HIDE DEF t
<1>4. ASSUME l.kind = "long" PROVE Reported(t) = Reported(s)
  BY <1>1, <1>2, <1>4
<1>5. ASSUME l.kind # "long" PROVE Reported(t) = Merge(Reported(s), l.usage)
  <2>1. Merge(Reported(s), l.usage) =
          [f \in DOMAIN NoUsage |-> IF l.usage[f] > 0 THEN l.usage[f] ELSE Reported(s)[f]]
    BY <1>3 DEF Merge
  <2>2. QED
    BY <1>1, <1>2, <1>5, <2>1
<1>6. QED
  BY <1>4, <1>5 DEF t

LEMMA EmptyStream ==
  /\ HasLast(<<>>) /\ Reported(<<>>) = NoUsage
  /\ Shown(<<>>) = {} /\ InOrder(<<>>, <<>>, {})
<1>1. \A f \in DOMAIN NoUsage : ReportedAt(<<>>, f) = {}
  BY DEF ReportedAt
<1>2. HasLast(<<>>)
  BY <1>1 DEF HasLast
<1>3. Reported(<<>>) = NoUsage
  <2>1. Reported(<<>>) = [f \in DOMAIN NoUsage |-> 0]
    BY <1>1 DEF Reported
  <2>2. QED
    BY <2>1 DEF NoUsage
<1>4. Shown(<<>>) = {}
  BY DEF Shown
<1>5. InOrder(<<>>, <<>>, {})
  <2>1. 1..Len(<<>>) = {}
    OBVIOUS
  <2>2. [i \in {} |-> i] \in [{} -> {}]
    OBVIOUS
  <2>3. QED
    BY <2>1, <2>2 DEF InOrder
<1>6. QED
  BY <1>2, <1>3, <1>4, <1>5

----------------------------------------------------------------------------
(* The steps *)

LEMMA InitInvariant == Init => IInv
<1> SUFFICES ASSUME Init PROVE IInv
  OBVIOUS
<1> USE DEF Init
<1>1. TypeOK
  <2>1. <<>> \in Seq(Lines) /\ <<>> \in Seq(UsageType)
    OBVIOUS
  <2>2. QED
    BY <2>1, NoUsageType DEF TypeOK
<1>2. Stages
  BY DEF Stages
<1>3. Recorded
  BY EmptyStream DEF Recorded
<1>4. StreamBill /\ BodyBill
  BY DEF StreamBill, BodyBill
<1>5. Delivery
  <2>1. Delivered(0)
    <3>1. {p \in Shown(sent) : p <= 0} = {}
      BY EmptyStream
    <3>2. QED
      BY <3>1, EmptyStream DEF Delivered
  <2>2. Len(sent) = 0
    OBVIOUS
  <2>3. 0 \in 0..Len(sent) /\ Delivered(Len(sent))
    BY <2>1, <2>2
  <2>4. QED
    BY <2>1, <2>3 DEF Delivery
<1>6. QED
  BY <1>1, <1>2, <1>3, <1>4, <1>5 DEF IInv

\* One event more at most.
LEMMA BillType ==
  ASSUME events \in Seq(UsageType)
  PROVE  /\ ZeroIfKey(events) \in Seq(UsageType)
         /\ \A u \in UsageType : Billed(events, u) \in Seq(UsageType)
         /\ events = <<>> =>
              /\ ZeroIfKey(events) = IF query.key = "set" THEN <<NoUsage>> ELSE <<>>
              /\ Len(ZeroIfKey(events)) = IF query.key = "set" THEN 1 ELSE 0
              /\ \A u \in UsageType : Len(Billed(events, u)) = 1
<1>1. /\ ZeroIfKey(events) \in Seq(UsageType)
      /\ \A u \in UsageType : Billed(events, u) \in Seq(UsageType)
  BY NoUsageType DEF ZeroIfKey, Billed
<1>2. ASSUME events = <<>>
      PROVE  /\ ZeroIfKey(events) = IF query.key = "set" THEN <<NoUsage>> ELSE <<>>
             /\ Len(ZeroIfKey(events)) = IF query.key = "set" THEN 1 ELSE 0
             /\ \A u \in UsageType : Len(Billed(events, u)) = 1
  BY <1>2 DEF ZeroIfKey, Billed
<1>3. QED
  BY <1>1, <1>2

\* Nothing changes for the client while no line is scanned or written.
LEMMA DeliveryFrame ==
  ASSUME UNCHANGED <<query, sent, received>>
  PROVE  Shown(sent)' = Shown(sent) /\ \A n \in Nat : Delivered(n)' <=> Delivered(n)
BY DEF Delivered, Shown, Hidden

\* ModifyResponse, and the copy of a body that is not a stream.
LEMMA BodySteps ==
  ASSUME IInv,
         Upgrade \/ StartStream \/ BufferFails \/ BufferBody \/ PassHuge \/ PassBody \/ CopyBody \/ CloseBody
  PROVE  IInv'
<1> USE DEF streamVars, bodyVars, usageVars, Streaming
<1>0. TypeOK /\ Stages /\ Recorded /\ StreamBill /\ BodyBill /\ Delivery
  BY DEF IInv
<1>1. CASE Upgrade
  <2>1. TypeOK'
    BY <1>0, <1>1, BillType DEF Upgrade, TypeOK
  <2>2. Stages'
    BY <1>0, <1>1 DEF Upgrade, TypeOK, Stages
  <2>3. Recorded'
    BY <1>0, <1>1 DEF Upgrade, Stages, Recorded
  <2>4. StreamBill'
    BY <1>0, <1>1 DEF Upgrade, TypeOK, Stages, StreamBill, Billed
  <2>5. BodyBill'
    BY <1>0, <1>1, BodyUsageType, NoUsageType DEF Upgrade, TypeOK, Stages, BodyBill, Billed, ZeroIfKey, Buffers, UsageType
  <2>6. Delivery'
    BY <1>0, <1>1, DeliveryFrame DEF Upgrade, TypeOK, Stages, Delivery, Hidden, Last
  <2>7. QED
    BY <2>1, <2>2, <2>3, <2>4, <2>5, <2>6 DEF IInv
<1>2. CASE StartStream
  <2>1. TypeOK'
    BY <1>0, <1>2 DEF StartStream, TypeOK
  <2>2. Stages'
    BY <1>0, <1>2 DEF StartStream, TypeOK, Stages
  <2>3. Recorded'
    BY <1>0, <1>2 DEF StartStream, Stages, Recorded
  <2>4. StreamBill'
    BY <1>0, <1>2 DEF StartStream, TypeOK, Stages, StreamBill, Billed
  <2>5. BodyBill'
    BY <1>0, <1>2, BodyUsageType, NoUsageType DEF StartStream, TypeOK, Stages, BodyBill, Billed, ZeroIfKey, Buffers, UsageType
  <2>6. Delivery'
    BY <1>0, <1>2, DeliveryFrame DEF StartStream, TypeOK, Stages, Delivery, Hidden, Last
  <2>7. QED
    BY <2>1, <2>2, <2>3, <2>4, <2>5, <2>6 DEF IInv
<1>3. CASE BufferFails
  <2>1. TypeOK'
    BY <1>0, <1>3 DEF BufferFails, TypeOK
  <2>2. Stages'
    BY <1>0, <1>3 DEF BufferFails, TypeOK, Stages, Buffers
  <2>3. Recorded'
    BY <1>0, <1>3 DEF BufferFails, Stages, Recorded
  <2>4. StreamBill'
    BY <1>0, <1>3 DEF BufferFails, TypeOK, Stages, StreamBill, Billed
  <2>5. BodyBill'
    BY <1>0, <1>3, BodyUsageType, NoUsageType DEF BufferFails, TypeOK, Stages, BodyBill, Billed, ZeroIfKey, Buffers, UsageType
  <2>6. Delivery'
    BY <1>0, <1>3, DeliveryFrame DEF BufferFails, TypeOK, Stages, Delivery, Hidden, Last
  <2>7. QED
    BY <2>1, <2>2, <2>3, <2>4, <2>5, <2>6 DEF IInv
<1>4. CASE BufferBody
  <2>1. TypeOK'
    BY <1>0, <1>4, BillType, BodyUsageType DEF BufferBody, TypeOK
  <2>2. Stages'
    BY <1>0, <1>4 DEF BufferBody, TypeOK, Stages, Buffers
  <2>3. Recorded'
    BY <1>0, <1>4 DEF BufferBody, Stages, Recorded
  <2>4. StreamBill'
    BY <1>0, <1>4 DEF BufferBody, StreamBill, Buffers
  <2>5. BodyBill'
    <3>1. /\ answer.status = "ok" /\ ~ Streaming /\ query.metrics /\ answer.body # "huge"
          /\ events = <<>> /\ ~ called /\ header = NoUsage /\ noted = NoUsage
          /\ proxy' = "done" /\ UNCHANGED <<query, answer, noted>>
      BY <1>0, <1>4 DEF BufferBody, BodyBill, Buffers
    <3>2. BodyUsage # NoUsage
      BY BodyUsageType DEF NoUsage
    <3>3. CASE answer.body = "usage"
      <4>1. called' /\ events' = Billed(<<>>, BodyUsage) /\ header' = BodyUsage
        BY <1>4, <3>1, <3>3 DEF BufferBody
      <4>2. Len(events') = 1 /\ Len(events') <= 1
        BY <4>1 DEF Billed
      <4>3. Billed(<<>>, header)' = Billed(<<>>, BodyUsage)
        BY <3>1, <4>1 DEF Billed
      <4>4. QED
        BY <3>1, <3>2, <4>1, <4>2, <4>3 DEF BodyBill, Buffers
    <3>4. CASE answer.body # "usage"
      <4>1. events' = ZeroIfKey(events) /\ UNCHANGED <<called, header>>
        BY <1>4, <3>4 DEF BufferBody
      <4>2. Len(events') <= 1 /\ (query.key = "set" => Len(events') = 1)
        <5>1. Len(ZeroIfKey(events)) = IF query.key = "set" THEN 1 ELSE 0
          BY <1>0, <3>1, BillType DEF TypeOK
        <5>2. QED
          BY <4>1, <5>1
      <4>3. QED
        BY <3>1, <4>1, <4>2 DEF BodyBill, Buffers
    <3>5. QED
      BY <3>3, <3>4
  <2>6. Delivery'
    BY <1>0, <1>4, DeliveryFrame DEF BufferBody, TypeOK, Stages, Delivery, Hidden, Last
  <2>7. QED
    BY <2>1, <2>2, <2>3, <2>4, <2>5, <2>6 DEF IInv
<1>5. CASE PassHuge
  <2>1. TypeOK'
    BY <1>0, <1>5 DEF PassHuge, TypeOK
  <2>2. Stages'
    BY <1>0, <1>5 DEF PassHuge, TypeOK, Stages, Buffers
  <2>3. Recorded'
    BY <1>0, <1>5 DEF PassHuge, Stages, Recorded
  <2>4. StreamBill'
    BY <1>0, <1>5 DEF PassHuge, TypeOK, Stages, StreamBill, Billed
  <2>5. BodyBill'
    BY <1>0, <1>5, BodyUsageType, NoUsageType DEF PassHuge, TypeOK, Stages, BodyBill, Billed, ZeroIfKey, Buffers, UsageType
  <2>6. Delivery'
    BY <1>0, <1>5, DeliveryFrame DEF PassHuge, TypeOK, Stages, Delivery, Hidden, Last
  <2>7. QED
    BY <2>1, <2>2, <2>3, <2>4, <2>5, <2>6 DEF IInv
<1>6. CASE PassBody
  <2>1. TypeOK'
    BY <1>0, <1>6 DEF PassBody, TypeOK
  <2>2. Stages'
    BY <1>0, <1>6 DEF PassBody, TypeOK, Stages
  <2>3. Recorded'
    BY <1>0, <1>6 DEF PassBody, Stages, Recorded
  <2>4. StreamBill'
    BY <1>0, <1>6 DEF PassBody, TypeOK, Stages, StreamBill, Billed
  <2>5. BodyBill'
    BY <1>0, <1>6, BodyUsageType, NoUsageType DEF PassBody, TypeOK, Stages, BodyBill, Billed, ZeroIfKey, Buffers, UsageType
  <2>6. Delivery'
    BY <1>0, <1>6, DeliveryFrame DEF PassBody, TypeOK, Stages, Delivery, Hidden, Last
  <2>7. QED
    BY <2>1, <2>2, <2>3, <2>4, <2>5, <2>6 DEF IInv
<1>7. CASE CopyBody
  <2>1. TypeOK'
    BY <1>0, <1>7 DEF CopyBody, TypeOK
  <2>2. Stages'
    BY <1>0, <1>7 DEF CopyBody, TypeOK, Stages
  <2>3. Recorded'
    BY <1>0, <1>7 DEF CopyBody, Stages, Recorded
  <2>4. StreamBill'
    BY <1>0, <1>7 DEF CopyBody, TypeOK, Stages, StreamBill, Billed
  <2>5. BodyBill'
    BY <1>0, <1>7, BodyUsageType, NoUsageType DEF CopyBody, TypeOK, Stages, BodyBill, Billed, ZeroIfKey, Buffers, UsageType
  <2>6. Delivery'
    BY <1>0, <1>7, DeliveryFrame DEF CopyBody, TypeOK, Stages, Delivery, Hidden, Last
  <2>7. QED
    BY <2>1, <2>2, <2>3, <2>4, <2>5, <2>6 DEF IInv
<1>8. CASE CloseBody
  <2>1. TypeOK'
    BY <1>0, <1>8, BillType, BodyUsageType DEF CloseBody, TypeOK
  <2>2. Stages'
    BY <1>0, <1>8 DEF CloseBody, TypeOK, Stages
  <2>3. Recorded'
    BY <1>0, <1>8 DEF CloseBody, Stages, Recorded
  <2>4. StreamBill'
    BY <1>0, <1>8 DEF CloseBody, TypeOK, Stages, StreamBill, Billed
  <2>5. BodyBill'
    <3> DEFINE wrapped == ~ Buffers /\ answer.status = "ok"
               found   == /\ wrapped /\ answer.type = "json"
                          /\ answer.body # "plain" /\ reading = "all"
    <3>1. /\ ~ Streaming /\ proxy = "close" /\ answer.status # "upgrade"
          /\ events = <<>> /\ header = NoUsage /\ noted = NoUsage
          /\ called' = found /\ proxy' \in {"done", "aborted"}
          /\ events' = IF found THEN Billed(events, BodyUsage)
                       ELSE IF wrapped THEN ZeroIfKey(events) ELSE events
          /\ UNCHANGED <<query, answer, noted, header>>
      BY <1>0, <1>8 DEF CloseBody, Stages, BodyBill
    <3>2. found => ~ query.metrics
      BY DEF Buffers
    <3>3. /\ Len(events') <= 1
          /\ ~ wrapped => events' = <<>>
          /\ wrapped /\ query.key = "set" => Len(events') = 1
      <4>1. Len(ZeroIfKey(events)) = IF query.key = "set" THEN 1 ELSE 0
        BY <1>0, <3>1, BillType DEF TypeOK
      <4>2. Len(Billed(events, BodyUsage)) = 1 /\ 1 <= 1 /\ 0 <= 1
        BY <1>0, <3>1, BillType, BodyUsageType DEF TypeOK
      <4>3. Len(<<>>) = 0
        OBVIOUS
      <4>4. QED
        <5>1. CASE found
          BY <3>1, <4>2, <5>1
        <5>2. CASE ~ found /\ wrapped
          <6>1. events' = ZeroIfKey(events)
            BY <3>1, <5>2
          <6>2. Len(events') = 1 \/ Len(events') = 0
            BY <4>1, <6>1
          <6>3. QED
            BY <4>1, <4>2, <5>2, <6>1, <6>2
        <5>3. CASE ~ wrapped
          BY <3>1, <4>3, <5>3
        <5>4. QED
          BY <5>1, <5>2, <5>3
    <3>4. answer.status \in {"ok", "error"}
      BY <1>0, <3>1, ConstantsAssumption DEF TypeOK
    <3>5. wrapped \/ answer.status = "error" \/ (Buffers /\ answer.body = "huge")
      BY <1>0, <3>1, <3>4 DEF BodyBill
    <3>6. Buffers' = Buffers
      BY <3>1 DEF Buffers
    <3>7. QED
      BY <3>1, <3>2, <3>3, <3>5, <3>6 DEF BodyBill
  <2>6. Delivery'
    BY <1>0, <1>8, DeliveryFrame DEF CloseBody, TypeOK, Stages, Delivery, Hidden, Last
  <2>7. QED
    BY <2>1, <2>2, <2>3, <2>4, <2>5, <2>6 DEF IInv
<1>9. QED
  BY <1>1, <1>2, <1>3, <1>4, <1>5, <1>6, <1>7, <1>8

\* The goroutine of a stream, but for the lines it scans.
LEMMA ExtractorSteps ==
  ASSUME IInv, NEW how \in {"ended", "failed"},
         ScanEnds(how) \/ WriteLine \/ WriteFails \/ Report \/ CloseWriter
  PROVE  IInv'
<1> USE DEF streamVars, bodyVars, usageVars, Streaming
<1>0. TypeOK /\ Stages /\ Recorded /\ StreamBill /\ BodyBill /\ Delivery
  BY DEF IInv
<1>1. CASE ScanEnds(how)
  <2>1. TypeOK'
    BY <1>0, <1>1 DEF ScanEnds, TypeOK
  <2>2. Stages'
    BY <1>0, <1>1 DEF ScanEnds, TypeOK, Stages
  <2>3. Recorded'
    BY <1>0, <1>1 DEF ScanEnds, Stages, Recorded
  <2>4. StreamBill'
    BY <1>0, <1>1 DEF ScanEnds, TypeOK, Stages, StreamBill, Billed
  <2>5. BodyBill'
    BY <1>0, <1>1, BodyUsageType, NoUsageType DEF ScanEnds, TypeOK, Stages, BodyBill, Billed, ZeroIfKey, Buffers, UsageType
  <2>6. Delivery'
    BY <1>0, <1>1, DeliveryFrame DEF ScanEnds, TypeOK, Stages, Delivery, Hidden, Last
  <2>7. QED
    BY <2>1, <2>2, <2>3, <2>4, <2>5, <2>6 DEF IInv
<1>2. CASE WriteLine
  <2>1. TypeOK'
    <3>1. line \in Lines
      BY <1>0, <1>2 DEF WriteLine, TypeOK, Delivery, Last
    <3>2. QED
      BY <1>0, <1>2, <3>1 DEF WriteLine, TypeOK
  <2>2. Stages'
    BY <1>0, <1>2 DEF WriteLine, TypeOK, Stages
  <2>3. Recorded'
    BY <1>0, <1>2 DEF WriteLine, Stages, Recorded
  <2>4. StreamBill'
    BY <1>0, <1>2 DEF WriteLine, TypeOK, Stages, StreamBill, Billed
  <2>5. BodyBill'
    BY <1>0, <1>2, BodyUsageType, NoUsageType DEF WriteLine, TypeOK, Stages, BodyBill, Billed, ZeroIfKey, Buffers, UsageType
  <2>6. Delivery'
    <3> DEFINE n == Len(sent)
    <3>1. /\ sent \in Seq(Lines) /\ received \in Seq(Lines) /\ sent # <<>>
          /\ n \in Shown(sent) /\ line = sent[n] /\ line.kind # "long"
          /\ Delivered(n - 1)
      BY <1>0, <1>2 DEF WriteLine, TypeOK, Delivery, Last
    <3>2. /\ Shown(sent) \in SUBSET (1..n) /\ n \in Nat \ {0}
      BY <3>1 DEF Shown
    <3>3. {p \in Shown(sent) : p <= n} = {p \in Shown(sent) : p <= n - 1} \cup {n}
      BY <3>1, <3>2
    <3>4. InOrder(Append(received, line), sent, {p \in Shown(sent) : p <= n})
      <4> DEFINE places == {p \in Shown(sent) : p <= n - 1}
      <4>1. places \in SUBSET Nat /\ (\A p \in places : p < n) /\ n \in Nat
        BY <3>2
      <4>2. InOrder(received, sent, places)
        BY <3>1 DEF Delivered
      <4> HIDE DEF places
      <4>3. InOrder(Append(received, sent[n]), sent, places \cup {n})
        BY <3>1, <4>1, <4>2, InOrderAppend
      <4>4. QED
        BY <3>1, <3>3, <4>3 DEF places
    <3>5. /\ received' = Append(received, line) /\ extractor' = "scan"
          /\ UNCHANGED <<query, answer, sent, filtered, pipe, upstream>>
      BY <1>2 DEF WriteLine
    <3>6. Shown(sent)' = Shown(sent)
      BY <3>5 DEF Shown, Hidden
    <3>7. Delivered(n)'
      BY <3>4, <3>5, <3>6 DEF Delivered
    <3>8. QED
      BY <1>0, <1>2, <3>1, <3>2, <3>5, <3>7 DEF WriteLine, Delivery, Hidden, Last
  <2>7. QED
    BY <2>1, <2>2, <2>3, <2>4, <2>5, <2>6 DEF IInv
<1>3. CASE WriteFails
  <2>1. TypeOK'
    BY <1>0, <1>3 DEF WriteFails, TypeOK
  <2>2. Stages'
    BY <1>0, <1>3 DEF WriteFails, TypeOK, Stages
  <2>3. Recorded'
    BY <1>0, <1>3 DEF WriteFails, Stages, Recorded
  <2>4. StreamBill'
    BY <1>0, <1>3 DEF WriteFails, TypeOK, Stages, StreamBill, Billed
  <2>5. BodyBill'
    BY <1>0, <1>3, BodyUsageType, NoUsageType DEF WriteFails, TypeOK, Stages, BodyBill, Billed, ZeroIfKey, Buffers, UsageType
  <2>6. Delivery'
    BY <1>0, <1>3, DeliveryFrame DEF WriteFails, TypeOK, Stages, Delivery, Hidden, Last
  <2>7. QED
    BY <2>1, <2>2, <2>3, <2>4, <2>5, <2>6 DEF IInv
<1>4. CASE Report
  <2>1. TypeOK'
    <3>1. /\ usage \in UsageType /\ noted \in UsageType /\ Total(usage) \in UsageType
          /\ Billed(events, Total(usage)) \in Seq(UsageType) /\ events \in Seq(UsageType)
      BY <1>0, BillType, TotalType DEF TypeOK
    <3>2. /\ usage' \in UsageType /\ noted' \in UsageType /\ called' \in BOOLEAN
          /\ events' \in Seq(UsageType) /\ extractor' = "close"
      BY <1>0, <1>4, <3>1 DEF Report, TypeOK
    <3>3. QED
      BY <1>0, <1>4, <3>2 DEF Report, TypeOK
  <2>2. Stages'
    BY <1>0, <1>4 DEF Report, TypeOK, Stages
  <2>3. Recorded'
    BY <1>0, <1>4 DEF Report, Stages, Recorded
  <2>4. StreamBill'
    <3>1. /\ usage = Reported(sent) /\ usage \in UsageType
          /\ UNCHANGED <<query, answer, proxy, sent, trailer, header>>
      BY <1>0, <1>4 DEF Report, TypeOK, Recorded
    <3>2. Reports(usage) => Total(usage) # NoUsage
      BY <3>1, TotalType
    <3>3. Streaming /\ answer.status # "upgrade"
      BY <1>0, <1>4 DEF Report, Stages
    <3>4. events = <<>> /\ ~ called /\ noted = NoUsage
      BY <1>0, <1>4, <3>3 DEF Report, StreamBill
    <3>5. proxy # "done"
      BY <1>0, <1>4 DEF Report, Stages
    <3>6. (called' <=> Reports(usage)) /\ extractor' = "close"
      BY <1>4, <3>4 DEF Report
    <3>7. CASE Reports(usage)
      BY <1>0, <1>4, <3>1, <3>2, <3>3, <3>4, <3>5, <3>6, <3>7 DEF Report, StreamBill, Billed
    <3>8. CASE ~ Reports(usage)
      BY <1>0, <1>4, <3>1, <3>3, <3>4, <3>5, <3>6, <3>8 DEF Report, StreamBill
    <3>9. QED
      BY <3>7, <3>8
  <2>5. BodyBill'
    BY <1>0, <1>4, BodyUsageType, NoUsageType DEF Report, TypeOK, Stages, BodyBill, Billed, ZeroIfKey, Buffers, UsageType
  <2>6. Delivery'
    BY <1>0, <1>4, DeliveryFrame DEF Report, TypeOK, Stages, Delivery, Hidden, Last
  <2>7. QED
    BY <2>1, <2>2, <2>3, <2>4, <2>5, <2>6 DEF IInv
<1>5. CASE CloseWriter
  <2>1. TypeOK'
    BY <1>0, <1>5 DEF CloseWriter, TypeOK
  <2>2. Stages'
    BY <1>0, <1>5 DEF CloseWriter, TypeOK, Stages
  <2>3. Recorded'
    BY <1>0, <1>5 DEF CloseWriter, Stages, Recorded
  <2>4. StreamBill'
    BY <1>0, <1>5 DEF CloseWriter, TypeOK, Stages, StreamBill, Billed
  <2>5. BodyBill'
    BY <1>0, <1>5, BodyUsageType, NoUsageType DEF CloseWriter, TypeOK, Stages, BodyBill, Billed, ZeroIfKey, Buffers, UsageType
  <2>6. Delivery'
    BY <1>0, <1>5, DeliveryFrame DEF CloseWriter, TypeOK, Stages, Delivery, Hidden, Last
  <2>7. QED
    BY <2>1, <2>2, <2>3, <2>4, <2>5, <2>6 DEF IInv
<1>6. QED
  BY <1>1, <1>2, <1>3, <1>4, <1>5

\* The copy of a stream.
LEMMA CopySteps ==
  ASSUME IInv,
         ClientGone \/ ConnectionLost \/ CopyEnds \/ WriteTrailer
  PROVE  IInv'
<1> USE DEF streamVars, bodyVars, usageVars, Streaming
<1>0. TypeOK /\ Stages /\ Recorded /\ StreamBill /\ BodyBill /\ Delivery
  BY DEF IInv
<1>1. CASE ClientGone
  <2>1. TypeOK'
    BY <1>0, <1>1 DEF ClientGone, TypeOK
  <2>2. Stages'
    BY <1>0, <1>1 DEF ClientGone, TypeOK, Stages
  <2>3. Recorded'
    BY <1>0, <1>1 DEF ClientGone, Stages, Recorded
  <2>4. StreamBill'
    BY <1>0, <1>1 DEF ClientGone, TypeOK, Stages, StreamBill, Billed
  <2>5. BodyBill'
    BY <1>0, <1>1, BodyUsageType, NoUsageType DEF ClientGone, TypeOK, Stages, BodyBill, Billed, ZeroIfKey, Buffers, UsageType
  <2>6. Delivery'
    BY <1>0, <1>1, DeliveryFrame DEF ClientGone, TypeOK, Stages, Delivery, Hidden, Last
  <2>7. QED
    BY <2>1, <2>2, <2>3, <2>4, <2>5, <2>6 DEF IInv
<1>2. CASE ConnectionLost
  <2>1. TypeOK'
    BY <1>0, <1>2 DEF ConnectionLost, TypeOK
  <2>2. Stages'
    BY <1>0, <1>2 DEF ConnectionLost, TypeOK, Stages
  <2>3. Recorded'
    BY <1>0, <1>2 DEF ConnectionLost, Stages, Recorded
  <2>4. StreamBill'
    BY <1>0, <1>2 DEF ConnectionLost, TypeOK, Stages, StreamBill, Billed
  <2>5. BodyBill'
    BY <1>0, <1>2, BodyUsageType, NoUsageType DEF ConnectionLost, TypeOK, Stages, BodyBill, Billed, ZeroIfKey, Buffers, UsageType
  <2>6. Delivery'
    BY <1>0, <1>2, DeliveryFrame DEF ConnectionLost, TypeOK, Stages, Delivery, Hidden, Last
  <2>7. QED
    BY <2>1, <2>2, <2>3, <2>4, <2>5, <2>6 DEF IInv
<1>3. CASE CopyEnds
  <2>1. TypeOK'
    BY <1>0, <1>3 DEF CopyEnds, TypeOK
  <2>2. Stages'
    BY <1>0, <1>3 DEF CopyEnds, TypeOK, Stages
  <2>3. Recorded'
    BY <1>0, <1>3 DEF CopyEnds, Stages, Recorded
  <2>4. StreamBill'
    BY <1>0, <1>3 DEF CopyEnds, TypeOK, Stages, StreamBill, Billed
  <2>5. BodyBill'
    BY <1>0, <1>3, BodyUsageType, NoUsageType DEF CopyEnds, TypeOK, Stages, BodyBill, Billed, ZeroIfKey, Buffers, UsageType
  <2>6. Delivery'
    BY <1>0, <1>3, DeliveryFrame DEF CopyEnds, TypeOK, Stages, Delivery, Hidden, Last
  <2>7. QED
    BY <2>1, <2>2, <2>3, <2>4, <2>5, <2>6 DEF IInv
<1>4. CASE WriteTrailer
  <2>1. TypeOK'
    BY <1>0, <1>4 DEF WriteTrailer, TypeOK
  <2>2. Stages'
    BY <1>0, <1>4 DEF WriteTrailer, TypeOK, Stages
  <2>3. Recorded'
    BY <1>0, <1>4 DEF WriteTrailer, Stages, Recorded
  <2>4. StreamBill'
    BY <1>0, <1>4 DEF WriteTrailer, TypeOK, Stages, StreamBill, Billed
  <2>5. BodyBill'
    BY <1>0, <1>4, BodyUsageType, NoUsageType DEF WriteTrailer, TypeOK, Stages, BodyBill, Billed, ZeroIfKey, Buffers, UsageType
  <2>6. Delivery'
    BY <1>0, <1>4, DeliveryFrame DEF WriteTrailer, TypeOK, Stages, Delivery, Hidden, Last
  <2>7. QED
    BY <2>1, <2>2, <2>3, <2>4, <2>5, <2>6 DEF IInv
<1>5. QED
  BY <1>1, <1>2, <1>3, <1>4

\* A line is scanned.
LEMMA ScanSteps ==
  ASSUME IInv, NEW l \in Lines,
         ScanLine(l) \/ ScanLong(l)
  PROVE  IInv'
<1> USE DEF streamVars, bodyVars, usageVars, Streaming
<1>0. TypeOK /\ Stages /\ Recorded /\ StreamBill /\ BodyBill /\ Delivery
  BY DEF IInv
<1>1. CASE ScanLine(l)
  <2>1. TypeOK'
    <3>1. usage \in UsageType /\ l.usage \in UsageType
      BY <1>0, LineType DEF TypeOK
    <3>2. Merge(usage, l.usage) \in UsageType /\ Hidden(l) \in BOOLEAN
      BY <3>1, MergeType DEF Hidden
    <3>3. extractor' \in {"scan", "write"} /\ line' \in Lines \cup {NoLine}
      BY <1>0, <1>1 DEF ScanLine, TypeOK
    <3>4. QED
      BY <1>0, <1>1, <3>2, <3>3 DEF ScanLine, TypeOK
  <2>2. Stages'
    BY <1>0, <1>1 DEF ScanLine, TypeOK, Stages
  <2>3. Recorded'
    BY <1>0, <1>1, HasLastAppend, ReportedAppend DEF ScanLine, TypeOK, Recorded
  <2>4. StreamBill'
    BY <1>0, <1>1 DEF ScanLine, TypeOK, Stages, StreamBill, Billed
  <2>5. BodyBill'
    BY <1>0, <1>1, BodyUsageType, NoUsageType DEF ScanLine, TypeOK, Stages, BodyBill, Billed, ZeroIfKey, Buffers, UsageType
  <2>6. Delivery'
    <3>0. PICK n \in Nat : n = Len(sent)
      BY <1>0 DEF TypeOK
    <3>1. /\ sent \in Seq(Lines) /\ received \in Seq(Lines) /\ n \in Nat
          /\ sent' = Append(sent, l) /\ sent' # <<>> /\ Last(sent)' = l /\ Len(sent') = n + 1
          /\ UNCHANGED <<query, answer, received, pipe, upstream>>
      <4>1. sent \in Seq(Lines) /\ received \in Seq(Lines) /\ n \in Nat
        BY <1>0 DEF TypeOK
      <4>2. sent' = Append(sent, l) /\ UNCHANGED <<query, answer, received, pipe, upstream>>
        BY <1>1 DEF ScanLine
      <4>3. QED
        BY <3>0, <4>1, <4>2 DEF Last
    <3>2. ASSUME NEW m \in 0..n, Delivered(m) PROVE Delivered(m)'
      <4>1. {p \in Shown(sent') : p <= m} = {p \in Shown(sent) : p <= m}
        BY <3>0, <3>1, ShownAppend
      <4>2. {p \in Shown(sent) : p <= m} \in SUBSET (1..Len(sent))
        BY DEF Shown
      <4>3. InOrder(received, sent', {p \in Shown(sent') : p <= m})
        BY <3>1, <3>2, <4>1, <4>2, InOrderExtend DEF Delivered
      <4>4. Shown(sent)' = Shown(sent')
        BY <3>1 DEF Shown, Hidden
      <4>5. QED
        BY <3>1, <4>3, <4>4 DEF Delivered
    <3>3. extractor \in {"scan"} /\ l.kind # "long" /\ (Streaming => upstream # "ended")
      BY <1>1 DEF ScanLine
    <3>4. ~ (sent # <<>> /\ Last(sent).kind = "long")
      BY <1>0, <3>3 DEF Delivery
    <3>5. /\ filtered = (sent # <<>> /\ Hidden(Last(sent)))
          /\ pipe # "reader_closed" => Delivered(n)
      BY <1>0, <3>0, <3>3, <3>4 DEF Delivery
    <3>6. filtered' = Hidden(l) /\ Hidden(l)' = Hidden(l)
      BY <1>1, <3>1 DEF ScanLine, Hidden
    <3>7. \E m \in 0..Len(sent') : Delivered(m)'
      <4>1. PICK m \in 0..n : Delivered(m)
        BY <1>0, <3>0 DEF Delivery
      <4>2. m \in 0..(n + 1) /\ Delivered(m)'
        BY <3>1, <3>2, <4>1
      <4>3. QED
        BY <3>1, <4>2
    <3>8. Shown(sent)' = Shown(sent')
      BY <3>1 DEF Shown, Hidden
    <3>9. CASE Hidden(l) \/ (filtered /\ l.kind = "blank")
      <4>1. extractor' = "scan" /\ line' = line
        BY <1>1, <3>9 DEF ScanLine
      <4>2. Shown(sent') = Shown(sent)
        BY <3>1, <3>5, <3>9, <3>0, ShownAppend
      <4>3. ASSUME pipe # "reader_closed" PROVE Delivered(n + 1)'
        <5>1. Delivered(n)'
          BY <3>0, <3>1, <3>2, <3>5, <4>3
        <5>2. {p \in Shown(sent') : p <= n} = {p \in Shown(sent') : p <= n + 1}
          BY <3>1, <4>2 DEF Shown
        <5>3. QED
          BY <3>8, <5>1, <5>2 DEF Delivered
      <4>4. QED
        <5>1. pipe' # "reader_closed" => Delivered(Len(sent))'
          BY <3>1, <4>3 DEF Delivered
        <5>2. QED
          <6>1. filtered' = (sent' # <<>> /\ Hidden(Last(sent))')
            BY <3>1, <3>6 DEF Last, Hidden
          <6>2. ~ (sent' # <<>> /\ Last(sent)'.kind = "long")
            BY <3>1, <3>3
          <6>3. QED
            BY <3>7, <4>1, <5>1, <6>1, <6>2 DEF Delivery
    <3>10. CASE ~ (Hidden(l) \/ (filtered /\ l.kind = "blank"))
      <4>1. extractor' = "write" /\ line' = l
        BY <1>1, <3>10 DEF ScanLine
      <4>2. n + 1 \in Shown(sent')
        <5>1. ~ Hidden(l) /\ ~ (l.kind = "blank" /\ sent # <<>> /\ Hidden(Last(sent)))
          BY <3>5, <3>10
        <5>2. Shown(Append(sent, l)) = Shown(sent) \cup {Len(sent) + 1}
          BY <3>1, <5>1, ShownAppend
        <5>3. QED
          BY <3>0, <3>1, <5>2
      <4>3. pipe # "reader_closed" => Delivered(n)'
        BY <3>0, <3>1, <3>2, <3>5, SMTT(30)
      <4>4. QED
        <5>1. pipe' # "reader_closed" => Delivered(Len(sent) - 1)'
          BY <3>1, <4>3 DEF Delivered
        <5>2. Len(sent') \in Shown(sent)'
          BY <3>1, <3>8, <4>2
        <5>3. QED
          <6>1. filtered' = (sent' # <<>> /\ Hidden(Last(sent))')
            BY <3>1, <3>6 DEF Last, Hidden
          <6>2. ~ (sent' # <<>> /\ Last(sent)'.kind = "long")
            BY <3>1, <3>3
          <6>3. line' = Last(sent)' /\ sent' # <<>>
            BY <3>1, <4>1
          <6>4. QED
            BY <3>7, <4>1, <5>1, <5>2, <6>1, <6>2, <6>3 DEF Delivery
    <3>11. QED
      BY <3>9, <3>10
  <2>7. QED
    BY <2>1, <2>2, <2>3, <2>4, <2>5, <2>6 DEF IInv
<1>2. CASE ScanLong(l)
  <2>1. TypeOK'
    BY <1>0, <1>2 DEF ScanLong, TypeOK
  <2>2. Stages'
    BY <1>0, <1>2 DEF ScanLong, TypeOK, Stages
  <2>3. Recorded'
    BY <1>0, <1>2, HasLastAppend, ReportedAppend DEF ScanLong, TypeOK, Recorded
  <2>4. StreamBill'
    BY <1>0, <1>2 DEF ScanLong, TypeOK, Stages, StreamBill, Billed
  <2>5. BodyBill'
    BY <1>0, <1>2, BodyUsageType, NoUsageType DEF ScanLong, TypeOK, Stages, BodyBill, Billed, ZeroIfKey, Buffers, UsageType
  <2>6. Delivery'
    <3>0. PICK n \in Nat : n = Len(sent)
      BY <1>0 DEF TypeOK
    <3>1. /\ sent \in Seq(Lines) /\ received \in Seq(Lines) /\ n \in Nat
          /\ sent' = Append(sent, l) /\ sent' # <<>> /\ Last(sent)' = l /\ Len(sent') = n + 1
          /\ UNCHANGED <<query, answer, received, pipe, upstream>>
      BY <1>0, <1>2, <3>0 DEF ScanLong, TypeOK, Last
    <3>2. ASSUME NEW m \in 0..n, Delivered(m) PROVE Delivered(m)'
      <4>1. {p \in Shown(sent') : p <= m} = {p \in Shown(sent) : p <= m}
        BY <3>0, <3>1, ShownAppend
      <4>2. {p \in Shown(sent) : p <= m} \in SUBSET (1..Len(sent))
        BY DEF Shown
      <4>3. InOrder(received, sent', {p \in Shown(sent') : p <= m})
        BY <3>1, <3>2, <4>1, <4>2, InOrderExtend DEF Delivered
      <4>4. Shown(sent)' = Shown(sent')
        BY <3>1 DEF Shown, Hidden
      <4>5. QED
        BY <3>1, <4>3, <4>4 DEF Delivered
    <3>3. PICK m \in 0..n : Delivered(m)
      BY <1>0, <3>0 DEF Delivery
    <3>4. Delivered(m)' /\ m \in 0..(n + 1)
      BY <3>1, <3>2, <3>3
    <3>5. extractor' = "report" /\ l.kind = "long" /\ (Streaming => upstream # "ended")
      BY <1>2 DEF ScanLong
    <3>6. QED
      BY <3>1, <3>4, <3>5 DEF Delivery
  <2>7. QED
    BY <2>1, <2>2, <2>3, <2>4, <2>5, <2>6 DEF IInv
<1>3. QED
  BY <1>1, <1>2

LEMMA StutteringStep == ASSUME IInv, UNCHANGED vars PROVE IInv'
<1> USE DEF vars, streamVars, bodyVars, usageVars, Streaming
<1>0. TypeOK /\ Stages /\ Recorded /\ StreamBill /\ BodyBill /\ Delivery
  BY DEF IInv
<1>1. TypeOK' /\ Stages' /\ Recorded'
  BY <1>0 DEF TypeOK, Stages, Recorded
<1>2. StreamBill' /\ BodyBill'
  BY <1>0 DEF StreamBill, BodyBill, Billed, Buffers
<1>3. Delivery'
  BY <1>0, DeliveryFrame DEF TypeOK, Delivery, Hidden, Last
<1>4. QED
  BY <1>1, <1>2, <1>3 DEF IInv

\* The inductive invariant: how the copy and the goroutine of a stream follow each
\* other, what has been recorded and billed so far, and what the client lacks.
THEOREM InvariantHolds == Spec => []IInv
<1>1. Init => IInv
  BY InitInvariant
<1>2. IInv /\ [Next]_vars => IInv'
  BY BodySteps, ExtractorSteps, CopySteps, ScanSteps, StutteringStep DEF Next
<1>3. QED
  BY <1>1, <1>2, PTL DEF Spec

\* Every variable has its type, for every value of the constants.
THEOREM TypeCorrect == Spec => []TypeOK
<1>1. IInv => TypeOK
  BY DEF IInv
<1>2. QED
  BY <1>1, InvariantHolds, PTL

\* The client sees the lines of the stream in their order, without gaps but for
\* the hidden chunks and the blank lines that end them, and all of them when
\* nothing has broken off (extractor.go:166-242).
THEOREM LinesPassThrough == Spec => []PassesThrough
<1>1. IInv => PassesThrough
  <2> SUFFICES ASSUME IInv PROVE PassesThrough
    OBVIOUS
  <2>1. \E n \in 0..Len(sent) : Delivered(n)
    BY DEF IInv, Delivery
  <2>2. ASSUME proxy = "done", Streaming, upstream = "ended" PROVE Delivered(Len(sent))
    BY <2>2 DEF IInv, Stages, Delivery
  <2>3. QED
    BY <2>1, <2>2 DEF PassesThrough
<1>2. QED
  BY <1>1, InvariantHolds, PTL

\* A stream is billed once, for the last usage it has reported; another answer at
\* most once, a successful one of a request with a key exactly once, and an error
\* never (extractor.go:244-259, proxy.go:137-181).
THEOREM AnswersBilledOnce == Spec => []BilledOnce
<1>1. IInv => BilledOnce
  <2> SUFFICES ASSUME IInv PROVE BilledOnce
    OBVIOUS
  <2>1. ASSUME Over, Streaming, answer.status # "upgrade"
        PROVE  LET u == Reported(sent)
               IN events = IF Reports(u) THEN Billed(<<>>, Total(u)) ELSE <<>>
    <3>1. extractor = "done"
      BY <2>1 DEF IInv, Stages, Over
    <3>2. QED
      BY <2>1, <3>1 DEF IInv, StreamBill
  <2>2. ASSUME Over, ~ Streaming
        PROVE  /\ Len(events) <= 1
               /\ (answer.status = "error" \/ proxy = "failed") => events = <<>>
               /\ (/\ answer.status # "error" /\ proxy # "failed" /\ query.key = "set"
                   /\ ~ (Buffers /\ answer.body = "huge")) => Len(events) = 1
    BY <2>2 DEF IInv, BodyBill, Over
  <2>3. QED
    BY <2>1, <2>2 DEF BilledOnce
<1>2. QED
  BY <1>1, InvariantHolds, PTL

\* The usage in the header or the trailer is the usage that was billed, and a
\* client that asked for it and got the whole answer has it (usage_writer.go:57-67).
THEOREM HeaderAlwaysMatchesBill == Spec => []HeaderMatchesBill
<1>1. IInv => HeaderMatchesBill
  <2> SUFFICES ASSUME IInv PROVE HeaderMatchesBill
    OBVIOUS
  <2>1. CASE Streaming /\ answer.status # "upgrade"
    <3>1. proxy = "done" => extractor = "done"
      BY <2>1 DEF IInv, Stages
    <3>2. header # NoUsage => proxy = "done" /\ trailer = "on" /\ header = noted
      BY <2>1 DEF IInv, StreamBill
    <3>3. proxy = "done" => trailer = IF query.metrics THEN "on" ELSE "off"
      BY <2>1 DEF IInv, Stages
    <3>4. QED
      BY <2>1, <3>1, <3>2, <3>3 DEF IInv, StreamBill, HeaderMatchesBill
  <2>2. CASE ~ (Streaming /\ answer.status # "upgrade")
    BY <2>2 DEF IInv, BodyBill, HeaderMatchesBill
  <2>3. QED
    BY <2>1, <2>2
<1>2. QED
  BY <1>1, InvariantHolds, PTL

=============================================================================
