---------------------------- MODULE BatcherProofs ----------------------------
(***************************************************************************)
(* Proofs about the telemetry path, for any batch size, channel capacity,  *)
(* number of retries and number of events.                                 *)
(***************************************************************************)
EXTENDS EventBatcher, SequenceTheorems, TLAPS

(* The batch that is being published, as the service would receive it.     *)
Current == [seq |-> batchSeq, events |-> sending]

(* While a post is under way there is something in it, and only then.      *)
SendingInv ==
    /\ Publishing => sending # <<>>
    /\ task = "select" => sending = <<>> /\ attempts = 0

(* A batch that arrived before the one being published, if there is one.   *)
Earlier(r) ==
    /\ r.seq <= batchSeq /\ (sending # <<>> => r.seq < batchSeq)
    /\ \A x \in Range(r.events), y \in Range(Pipeline) : x < y

ArrivedInv ==
    \A i \in DOMAIN arrived :
      \/ sending # <<>> /\ arrived[i] = Current
      \/ Earlier(arrived[i])

(* The inductive invariant: what arrived is older than what is still in    *)
(* the pipeline, except for earlier attempts at the current batch.         *)
IInv == TypeOK /\ SendingInv /\ EveryEventAccounted /\ ArrivesInOrder /\ ArrivedInv

-----------------------------------------------------------------------------
(* Sequences of numbers in order, and what the batcher does to them.       *)
Increasing(s) == \A i, j \in DOMAIN s : i < j => s[i] < s[j]

(* Appending an event adds it to the events of a sequence.                 *)
LEMMA RangeAppend ==
  ASSUME NEW S, NEW s \in Seq(S), NEW e \in S
  PROVE  Range(Append(s, e)) = Range(s) \cup {e}
<1>1. /\ DOMAIN Append(s, e) = 1..(Len(s) + 1) /\ DOMAIN s = 1..Len(s) /\ Len(s) \in Nat
      /\ \A i \in 1..Len(s) : Append(s, e)[i] = s[i]
      /\ Append(s, e)[Len(s) + 1] = e
  OBVIOUS
<1> QED BY <1>1 DEF Range

(* An event above all others keeps a sequence in order at its end.         *)
LEMMA IncreasingAppend ==
  ASSUME NEW s \in Seq(Nat), Increasing(s), NEW e \in Nat, \A x \in Range(s) : x < e
  PROVE  Increasing(Append(s, e))
<1>1. /\ DOMAIN Append(s, e) = 1..(Len(s) + 1) /\ DOMAIN s = 1..Len(s) /\ Len(s) \in Nat
      /\ \A i \in 1..Len(s) : Append(s, e)[i] = s[i]
      /\ Append(s, e)[Len(s) + 1] = e
  OBVIOUS
<1>2. \A i \in 1..Len(s) : s[i] < e
  BY Zenon, <1>1 DEF Range
<1>3. ASSUME NEW i \in 1..(Len(s) + 1), NEW j \in 1..(Len(s) + 1), i < j
      PROVE  Append(s, e)[i] < Append(s, e)[j]
  <2>1. i \in 1..Len(s)
    BY <1>1, <1>3
  <2>2. CASE j = Len(s) + 1
    BY Zenon, <1>1, <1>2, <2>1, <2>2
  <2>3. CASE j \in 1..Len(s)
    BY Zenon, <1>1, <1>3, <2>1, <2>3 DEF Increasing
  <2> QED BY <1>1, <2>2, <2>3
<1> QED BY Zenon, <1>1, <1>3 DEF Increasing

(* The front of an increasing sequence is below its rest, which increases. *)
LEMMA IncreasingSplit ==
  ASSUME NEW s \in Seq(Nat), NEW t \in Seq(Nat), Increasing(s \o t)
  PROVE  /\ Increasing(t)
         /\ \A x \in Range(s), y \in Range(t) : x < y
<1>1. /\ DOMAIN (s \o t) = 1..(Len(s) + Len(t))
      /\ DOMAIN s = 1..Len(s) /\ DOMAIN t = 1..Len(t)
      /\ Len(s) \in Nat /\ Len(t) \in Nat
      /\ \A i \in 1..Len(s) : (s \o t)[i] = s[i]
      /\ \A i \in 1..Len(t) : (s \o t)[Len(s) + i] = t[i]
  OBVIOUS
<1>2. ASSUME NEW i \in 1..Len(t), NEW j \in 1..Len(t), i < j PROVE t[i] < t[j]
  <2>1. /\ Len(s) + i \in 1..(Len(s) + Len(t)) /\ Len(s) + j \in 1..(Len(s) + Len(t))
        /\ Len(s) + i < Len(s) + j
    BY <1>1, <1>2
  <2> QED BY Zenon, <1>1, <2>1 DEF Increasing
<1>3. ASSUME NEW i \in 1..Len(s), NEW j \in 1..Len(t) PROVE s[i] < t[j]
  <2>1. /\ i \in 1..(Len(s) + Len(t)) /\ Len(s) + j \in 1..(Len(s) + Len(t))
        /\ i < Len(s) + j
    BY <1>1
  <2> QED BY Zenon, <1>1, <2>1 DEF Increasing
<1>4. Increasing(t)
  BY Zenon, <1>1, <1>2 DEF Increasing
<1>5. \A x \in Range(s), y \in Range(t) : x < y
  BY Zenon, <1>1, <1>3 DEF Range
<1> QED BY Zenon, <1>4, <1>5

(* What waits is a sequence of events, whatever part of it they are in.    *)
LEMMA PipelineType ==
  ASSUME TypeOK
  PROVE  /\ Pipeline \in Seq(Events) /\ Pipeline \in Seq(Nat)
         /\ sending \in Seq(Nat) /\ batch \in Seq(Nat) /\ queue \in Seq(Nat)
         /\ Range(Pipeline) = Range(sending) \cup Range(batch) \cup Range(queue)
<1>1. Events \subseteq Nat
  BY BatcherAssumption DEF Events
<1>2. sending \o batch \in Seq(Events) /\ Pipeline \in Seq(Events)
  BY Zenon, ConcatProperties DEF TypeOK, Pipeline
<1>3. /\ sending \in Seq(Nat) /\ batch \in Seq(Nat) /\ queue \in Seq(Nat)
      /\ Pipeline \in Seq(Nat)
  BY Zenon, <1>1, <1>2, SeqMonotonic DEF TypeOK
<1>4. Range(sending \o batch) = Range(sending) \cup Range(batch)
  BY RangeConcatenation DEF TypeOK
<1>5. Range(Pipeline) = Range(sending \o batch) \cup Range(queue)
  <2>1. queue \in Seq(Events)
    BY Zenon DEF TypeOK
  <2>2. \A s, t \in Seq(Events) : Range(s \o t) = Range(s) \cup Range(t)
    BY Zenon, RangeConcatenation
  <2> QED BY <1>2, <2>1, <2>2, Zenon DEF Pipeline
<1> QED BY Zenon, <1>2, <1>3, <1>4, <1>5

(* Moving events from the channel to the batch, or the batch to the post,  *)
(* leaves the pipeline as it is.                                           *)
LEMMA MovesAlong ==
  ASSUME NEW b \in Seq(Events), NEW q \in Seq(Events)
  PROVE  /\ <<>> \o b \o q = b \o q
         /\ b \o <<>> \o q = b \o q
         /\ q # <<>> => Append(b, Head(q)) \o Tail(q) = b \o q
         /\ q # <<>> => Append(b, Head(q)) \in Seq(Events)
         /\ \A e \in Events : b \o Append(q, e) = Append(b \o q, e)
<1>1. <<>> \o b = b /\ b \o <<>> = b
  BY Zenon, ConcatEmptySeq
<1>2. ASSUME q # <<>>
      PROVE  /\ Append(b, Head(q)) \o Tail(q) = b \o q
             /\ Append(b, Head(q)) \in Seq(Events)
  <2>1. Head(q) \in Events /\ Tail(q) \in Seq(Events) /\ <<Head(q)>> \in Seq(Events)
    BY <1>2, HeadTailProperties
  <2>2. q = <<Head(q)>> \o Tail(q)
    BY <1>2
  <2>3. Append(b, Head(q)) = b \o <<Head(q)>>
    BY Zenon, <2>1, AppendIsConcat
  <2>4. (b \o <<Head(q)>>) \o Tail(q) = b \o (<<Head(q)>> \o Tail(q))
    BY <2>1, ConcatAssociative
  <2> QED BY Zenon, <2>1, <2>2, <2>3, <2>4, AppendProperties
<1>3. ASSUME NEW e \in Events PROVE b \o Append(q, e) = Append(b \o q, e)
  <2>1. <<e>> \in Seq(Events) /\ b \o q \in Seq(Events)
    BY ConcatProperties
  <2>2. Append(q, e) = q \o <<e>> /\ Append(b \o q, e) = (b \o q) \o <<e>>
    BY Zenon, <2>1, AppendIsConcat
  <2> QED BY <2>1, <2>2, ConcatAssociative
<1> QED BY Zenon, <1>1, <1>2, <1>3

(* Every batch that arrived has a number and a sequence of events.         *)
LEMMA ArrivedType ==
  ASSUME TypeOK
  PROVE  /\ DOMAIN arrived = 1..Len(arrived) /\ Len(arrived) \in Nat
         /\ \A i \in DOMAIN arrived :
              arrived[i].seq \in Nat /\ arrived[i].events \in Seq(Events)
<1> DEFINE R == [seq : Nat, events : Seq(Events)]
<1>1. arrived \in Seq(R)
  BY Zenon DEF TypeOK
<1>2. DOMAIN arrived = 1..Len(arrived) /\ \A i \in DOMAIN arrived : arrived[i] \in R
  <2> HIDE DEF R
  <2> QED BY <1>1
<1>3. \A r \in R : r.seq \in Nat /\ r.events \in Seq(Events)
  BY Zenon
<1>4. Len(arrived) \in Nat
  BY <1>1
<1> QED BY Zenon, <1>2, <1>3, <1>4

(* A post that arrives leaves a sequence of batches.                       *)
LEMMA ArrivesType ==
  ASSUME TypeOK, Arrives
  PROVE  arrived' \in Seq([seq : Nat, events : Seq(Events)])
<1> DEFINE R == [seq : Nat, events : Seq(Events)]
<1>1. arrived \in Seq(R) /\ [seq |-> batchSeq, events |-> sending] \in R
  BY Zenon DEF TypeOK
<1>2. ASSUME NEW r \in R PROVE Append(arrived, r) \in Seq(R)
  <2> HIDE DEF R
  <2> QED BY Zenon, <1>1, AppendProperties
<1> QED BY Zenon, <1>1, <1>2 DEF Arrives

(* The events of batches that arrive are delivered.                        *)
LEMMA DeliveredGrows ==
  ASSUME TypeOK, Arrives
  PROVE  Delivered' = Delivered \cup Range(sending)
<1>1. /\ DOMAIN arrived = 1..Len(arrived) /\ Len(arrived) \in Nat
      /\ DOMAIN arrived' = 1..(Len(arrived) + 1)
      /\ \A i \in 1..Len(arrived) : arrived'[i] = arrived[i]
      /\ arrived'[Len(arrived) + 1].events = sending
  BY DEF TypeOK, Arrives
<1> QED BY <1>1 DEF Delivered

-----------------------------------------------------------------------------
(* A step that only moves events along the pipeline, and numbers a batch   *)
(* when it starts to publish it, keeps the invariant.                      *)
LEMMA MovesKeep ==
  ASSUME IInv, TypeOK', SendingInv', Pipeline' = Pipeline, sending = <<>>,
         IF sending' = <<>> THEN UNCHANGED batchSeq ELSE batchSeq' = batchSeq + 1,
         UNCHANGED <<offered, arrived, lost, dropped>>
  PROVE  IInv'
<1>1. EveryEventAccounted'
  BY DEF IInv, EveryEventAccounted, Delivered
<1>2. ArrivesInOrder'
  BY DEF IInv, ArrivesInOrder
<1>3. ArrivedInv'
  <2>1. \A i \in DOMAIN arrived : Earlier(arrived[i]) /\ arrived[i].seq \in Nat /\ batchSeq \in Nat
    <3>1. batchSeq \in Nat /\ \A i \in DOMAIN arrived : arrived[i].seq \in Nat
      BY Zenon, ArrivedType DEF IInv, TypeOK
    <3> QED BY Zenon, <3>1 DEF IInv, ArrivedInv
  <2>2. \A i \in DOMAIN arrived : Earlier(arrived[i])'
    BY <2>1 DEF Earlier
  <2> QED BY Zenon, <2>2 DEF ArrivedInv
<1> QED BY Zenon, <1>1, <1>2, <1>3 DEF IInv

(* flush_batch of the events es, taken out of an idle batcher.             *)
LEMMA FlushTypes ==
  ASSUME IInv, task = "select", NEW es \in Seq(Events), Len(es) <= BatchSize,
         NEW publishing \in {"publish", "last"}, NEW done \in {"select", "ended"},
         FlushBatch(es, publishing, done),
         queue' \in Seq(Events), Len(queue') <= MaxQueue,
         UNCHANGED <<offered, open, attempts, arrived, lost, dropped>>
  PROVE  /\ TypeOK' /\ SendingInv'
         /\ sending' = es /\ batch' = <<>>
         /\ IF sending' = <<>> THEN UNCHANGED batchSeq ELSE batchSeq' = batchSeq + 1
<1>1. TypeOK'
  <2>1. Len(<<>>) < BatchSize /\ <<>> \in Seq(Events)
    BY BatcherAssumption
  <2> QED BY <2>1 DEF IInv, TypeOK, FlushBatch
<1> QED BY Zenon, <1>1 DEF IInv, SendingInv, Publishing, FlushBatch

(* What a post that reaches the service, whether the batcher learns of it  *)
(* or not, does to the order of arrival.                                   *)
LEMMA ArrivesKeeps ==
  ASSUME IInv, Publishing, Arrives
  PROVE  /\ ArrivesInOrder'
         /\ \A i \in DOMAIN arrived' : arrived'[i] = Current \/ Earlier(arrived'[i])
<1>1. /\ DOMAIN arrived = 1..Len(arrived) /\ Len(arrived) \in Nat
      /\ DOMAIN arrived' = 1..(Len(arrived) + 1)
      /\ \A i \in 1..Len(arrived) : arrived'[i] = arrived[i]
      /\ arrived'[Len(arrived) + 1] = Current
  BY ArrivedType DEF IInv, TypeOK, Arrives, Current
<1>2. sending # <<>>
  BY Zenon DEF IInv, SendingInv
<1>3. \A i \in 1..Len(arrived) : arrived[i] = Current \/ Earlier(arrived[i])
  BY Zenon, <1>1 DEF IInv, ArrivedInv
<1>4. ASSUME NEW i \in 1..(Len(arrived) + 1), NEW j \in 1..(Len(arrived) + 1), i < j
      PROVE  \/ arrived'[i] = arrived'[j]
             \/ /\ arrived'[i].seq < arrived'[j].seq
                /\ \A x \in Range(arrived'[i].events), y \in Range(arrived'[j].events) : x < y
  <2>1. i \in 1..Len(arrived)
    BY <1>1, <1>4
  <2>2. CASE j \in 1..Len(arrived)
    BY Zenon, <1>1, <1>4, <2>1, <2>2 DEF IInv, ArrivesInOrder
  <2>3. CASE j = Len(arrived) + 1 /\ Earlier(arrived[i])
    <3>1. Range(sending) \subseteq Range(Pipeline)
      BY Zenon, PipelineType DEF IInv
    <3>2. Current.seq = batchSeq /\ Current.events = sending
      BY Zenon DEF Current
    <3> QED BY Zenon, <1>1, <1>2, <2>1, <2>3, <3>1, <3>2 DEF Earlier
  <2>4. CASE j = Len(arrived) + 1 /\ arrived[i] = Current
    BY Zenon, <1>1, <2>1, <2>4
  <2> QED BY <1>1, <1>3, <2>1, <2>2, <2>3, <2>4
<1>5. ArrivesInOrder'
  BY Zenon, <1>1, <1>4 DEF ArrivesInOrder
<1>6. \A i \in DOMAIN arrived' : arrived'[i] = Current \/ Earlier(arrived'[i])
  BY <1>1, <1>3
<1> QED BY Zenon, <1>5, <1>6

(* The end of publish_batch: the batch has left the pipeline, delivered    *)
(* or given up.                                                            *)
LEMMA PublishedKeeps ==
  ASSUME IInv, Publishing, Published, Arrives \/ UNCHANGED arrived,
         \/ Arrives /\ lost' = lost
         \/ lost' = lost \cup Range(sending),
         UNCHANGED <<offered, queue, open, batch, batchSeq, dropped>>
  PROVE  IInv'
<1>1. /\ \A i \in DOMAIN arrived' : arrived'[i] = Current \/ Earlier(arrived'[i])
      /\ ArrivesInOrder'
  <2>1. CASE Arrives
    BY Zenon, <2>1, ArrivesKeeps
  <2>2. CASE UNCHANGED arrived
    BY Zenon, <2>2 DEF IInv, ArrivedInv, ArrivesInOrder
  <2> QED BY Zenon, <2>1, <2>2
<1>2. TypeOK'
  <2>1. arrived' \in Seq([seq : Nat, events : Seq(Events)])
    BY Zenon, ArrivesType DEF IInv, TypeOK
  <2>2. Range(sending) \subseteq Events
    BY Zenon, RangeOfSeq DEF IInv, TypeOK
  <2>3. <<>> \in Seq(Events) /\ Len(<<>>) <= BatchSize
    BY BatcherAssumption
  <2> QED BY <2>1, <2>2, <2>3, BatcherAssumption DEF IInv, TypeOK, Published
<1>3. SendingInv'
  BY Zenon DEF SendingInv, Published, Publishing
<1>4. Pipeline' = batch \o queue /\ Pipeline = sending \o Pipeline'
  <2>1. sending \in Seq(Events) /\ batch \in Seq(Events) /\ queue \in Seq(Events)
    BY Zenon DEF IInv, TypeOK
  <2>2. Pipeline' = batch \o queue
    BY Zenon, <2>1, MovesAlong DEF Pipeline, Published
  <2>3. (sending \o batch) \o queue = sending \o (batch \o queue)
    BY <2>1, ConcatAssociative
  <2> QED BY Zenon, <2>2, <2>3 DEF Pipeline
<1>5. /\ Increasing(Pipeline')
      /\ \A x \in Range(sending), y \in Range(Pipeline') : x < y
      /\ Range(Pipeline) = Range(sending) \cup Range(Pipeline')
  <2>1. Increasing(sending \o Pipeline')
    BY Zenon, <1>4 DEF IInv, EveryEventAccounted, Increasing
  <2>2. sending \in Seq(Nat) /\ Pipeline' \in Seq(Nat)
    <3>1. batch \o queue \in Seq(Nat)
      BY Zenon, PipelineType, ConcatProperties DEF IInv
    <3> QED BY Zenon, <1>4, <3>1, PipelineType DEF IInv
  <2>3. \A s, t \in Seq(Nat) : Range(s \o t) = Range(s) \cup Range(t)
    BY Zenon, RangeConcatenation
  <2> QED BY Zenon, <1>4, <2>1, <2>2, <2>3, IncreasingSplit
<1>6. EveryEventAccounted'
  <2>1. Delivered' \cup lost' = Delivered \cup lost \cup Range(sending)
    <3>1. CASE Arrives
      BY Zenon, <3>1, DeliveredGrows DEF IInv
    <3>2. CASE UNCHANGED arrived /\ lost' = lost \cup Range(sending)
      BY Zenon, <3>2 DEF Delivered
    <3> QED BY Zenon, <3>1, <3>2
  <2> QED BY <1>5, <2>1 DEF IInv, EveryEventAccounted, Increasing
<1>7. ArrivedInv'
  <2>1. ASSUME NEW i \in DOMAIN arrived' PROVE Earlier(arrived[i])'
    <3>1. sending' = <<>> /\ batchSeq' = batchSeq /\ batchSeq \in Nat
      BY Zenon DEF Published, IInv, TypeOK
    <3>2. CASE arrived'[i] = Current
      BY <1>5, <3>1, <3>2 DEF Earlier, Current
    <3>3. CASE Earlier(arrived'[i])
      BY Zenon, <1>5, <3>1, <3>3 DEF Earlier
    <3> QED BY Zenon, <1>1, <3>2, <3>3
  <2> QED BY Zenon, <2>1 DEF ArrivedInv
<1> QED BY Zenon, <1>1, <1>2, <1>3, <1>6, <1>7 DEF IInv

(* send_event: the newest event is last in the pipeline, or refused.       *)
LEMMA SendEventInv ==
  ASSUME IInv, SendEvent
  PROVE  IInv'
<1> DEFINE e == offered + 1
<1>1. offered \in 0..MaxEvents /\ e \in Events /\ MaxEvents \in Nat
  BY BatcherAssumption DEF IInv, TypeOK, SendEvent, Events
<1>2. \A x \in dropped \cup Delivered \cup lost \cup Range(Pipeline) : x \in 1..offered
  BY Zenon DEF IInv, EveryEventAccounted
<1>3. Delivered' = Delivered /\ lost' = lost /\ arrived' = arrived /\ ArrivesInOrder'
  BY DEF SendEvent, Delivered, IInv, ArrivesInOrder
<1>4. SendingInv'
  BY Zenon DEF SendEvent, IInv, SendingInv, Publishing
<1>5. CASE Len(queue) < MaxQueue
  <2>1. queue' = Append(queue, e) /\ dropped' = dropped
    BY Zenon, <1>5 DEF SendEvent
  <2>2. sending \o batch \in Seq(Events) /\ queue \in Seq(Events)
    BY Zenon, ConcatProperties DEF IInv, TypeOK
  <2>3. Pipeline' = Append(Pipeline, e)
    <3>1. e \in Events /\ UNCHANGED <<sending, batch>>
      BY Zenon, <1>1 DEF SendEvent
    <3>2. (sending \o batch) \o Append(queue, e) = Append((sending \o batch) \o queue, e)
      BY Zenon, <2>2, <3>1, MovesAlong
    <3> QED BY Zenon, <2>1, <3>1, <3>2 DEF Pipeline
  <2>4. TypeOK'
    <3>1. queue' \in Seq(Events) /\ Len(queue') <= MaxQueue
      BY <1>1, <1>5, <2>1, <2>2, BatcherAssumption
    <3> QED BY <1>1, <2>1, <3>1 DEF IInv, TypeOK, SendEvent, Events
  <2>5. Range(Pipeline') = Range(Pipeline) \cup {e}
    BY <1>1, <2>3, PipelineType, RangeAppend DEF IInv
  <2>6. EveryEventAccounted'
    <3>1. Increasing(Pipeline')
      <4>1. Increasing(Pipeline) /\ \A x \in Range(Pipeline) : x < e
        BY <1>1, <1>2 DEF IInv, EveryEventAccounted, Increasing
      <4> QED BY <1>1, <2>3, <4>1, PipelineType, IncreasingAppend DEF IInv
    <3>2. 1..e = (1..offered) \cup {e} /\ e \notin 1..offered
      BY <1>1
    <3>3. offered' = e
      BY Zenon DEF SendEvent
    <3> QED
      BY <1>2, <1>3, <2>1, <2>5, <3>1, <3>2, <3>3 DEF IInv, EveryEventAccounted, Increasing
  <2>7. ArrivedInv'
    <3>1. ASSUME NEW i \in DOMAIN arrived, Earlier(arrived[i])
          PROVE  Earlier(arrived[i])'
      <4>1. Range(arrived[i].events) \subseteq Delivered
        BY Zenon DEF Delivered
      <4>2. \A x \in Range(arrived[i].events) : x < e
        BY <1>1, <1>2, <4>1
      <4> QED BY Zenon, <1>3, <2>5, <3>1, <4>2 DEF Earlier, SendEvent
    <3>2. ASSUME NEW i \in DOMAIN arrived, sending # <<>>, arrived[i] = Current
          PROVE  sending' # <<>> /\ (arrived[i] = Current)'
      BY Zenon, <3>2 DEF SendEvent, Current
    <3> QED BY Zenon, <1>3, <3>1, <3>2 DEF IInv, ArrivedInv
  <2> QED BY Zenon, <1>3, <1>4, <2>4, <2>6, <2>7 DEF IInv
<1>6. CASE ~(Len(queue) < MaxQueue)
  <2>1. queue' = queue /\ dropped' = dropped \cup {e} /\ Pipeline' = Pipeline
    BY Zenon, <1>6 DEF SendEvent, Pipeline
  <2>2. TypeOK'
    BY <1>1, <2>1 DEF IInv, TypeOK, SendEvent, Events
  <2>3. EveryEventAccounted'
    <3>1. 1..e = (1..offered) \cup {e} /\ e \notin 1..offered
      BY <1>1
    <3>2. offered' = e
      BY Zenon DEF SendEvent
    <3> QED BY <1>2, <1>3, <2>1, <3>1, <3>2 DEF IInv, EveryEventAccounted
  <2>4. ArrivedInv'
    BY Zenon, <1>3, <2>1 DEF IInv, ArrivedInv, Earlier, Current, SendEvent
  <2> QED BY Zenon, <1>3, <1>4, <2>2, <2>3, <2>4 DEF IInv
<1> QED BY Zenon, <1>5, <1>6

(* The recv arm: the front of the channel goes to the back of the batch.   *)
LEMMA ReceiveInv ==
  ASSUME IInv, Receive
  PROVE  IInv'
<1> DEFINE es == Append(batch, Head(queue))
<1>1. /\ batch \in Seq(Events) /\ queue \in Seq(Events) /\ queue # <<>>
      /\ sending = <<>> /\ task = "select"
  BY Zenon DEF IInv, TypeOK, SendingInv, Receive
<1>2. /\ es \in Seq(Events) /\ Len(es) = Len(batch) + 1
      /\ queue' = Tail(queue) /\ queue' \in Seq(Events) /\ Len(queue') <= MaxQueue
      /\ es \o queue' = batch \o queue
  <2>1. queue' = Tail(queue)
    BY Zenon DEF Receive
  <2>2. es \in Seq(Events) /\ es \o Tail(queue) = batch \o queue
    BY Zenon, <1>1, MovesAlong
  <2>3. Tail(queue) \in Seq(Events) /\ Len(Tail(queue)) = Len(queue) - 1 /\ Len(queue) \in Nat
    BY <1>1
  <2>4. Len(es) = Len(batch) + 1
    <3>1. Head(queue) \in Events
      BY <1>1
    <3> QED BY <1>1, <3>1
  <2>5. Len(queue) <= MaxQueue /\ MaxQueue \in Nat
    BY Zenon, BatcherAssumption DEF IInv, TypeOK
  <2>6. Len(Tail(queue)) <= MaxQueue
    BY <2>3, <2>5
  <2> QED BY Zenon, <2>1, <2>2, <2>3, <2>4, <2>6
<1>3. Pipeline = batch \o queue
  BY Zenon, <1>1, MovesAlong DEF Pipeline
<1>4. CASE Len(es) >= BatchSize
  <2>1. FlushBatch(es, "publish", "select")
    BY Zenon, <1>4 DEF Receive
  <2>2. Len(es) <= BatchSize
    BY <1>1, <1>2, BatcherAssumption DEF IInv, TypeOK
  <2>3. /\ TypeOK' /\ SendingInv' /\ sending' = es /\ batch' = <<>>
        /\ IF sending' = <<>> THEN UNCHANGED batchSeq ELSE batchSeq' = batchSeq + 1
    <3> HIDE DEF es
    <3> QED BY Zenon, <1>1, <1>2, <2>1, <2>2, FlushTypes DEF Receive
  <2>4. Pipeline' = Pipeline
    <3>1. es \o <<>> \o queue' = es \o queue'
      BY Zenon, <1>2, MovesAlong
    <3> QED BY Zenon, <1>2, <1>3, <2>3, <3>1 DEF Pipeline
  <2> QED BY Zenon, <1>1, <2>3, <2>4, MovesKeep DEF Receive
<1>5. CASE ~(Len(es) >= BatchSize)
  <2>1. batch' = es /\ UNCHANGED <<task, sending, batchSeq>>
    BY Zenon, <1>5 DEF Receive
  <2>2. TypeOK'
    BY <1>1, <1>2, <1>5, <2>1, BatcherAssumption DEF Receive, IInv, TypeOK
  <2>3. SendingInv'
    BY Zenon, <1>1, <2>1 DEF Receive, IInv, SendingInv, Publishing
  <2>4. Pipeline' = Pipeline
    <3>1. <<>> \o es \o queue' = es \o queue'
      BY Zenon, <1>2, MovesAlong
    <3> QED BY Zenon, <1>1, <1>2, <1>3, <2>1, <3>1 DEF Pipeline
  <2> QED BY Zenon, <1>1, <2>1, <2>2, <2>3, <2>4, MovesKeep DEF Receive
<1> QED BY Zenon, <1>4, <1>5

(* The timer arm and the end of the loop flush the batch as it is.         *)
LEMMA FlushInv ==
  ASSUME IInv, FlushTimer \/ ChannelClosed
  PROVE  IInv'
<1>1. /\ batch \in Seq(Events) /\ Len(batch) <= BatchSize
      /\ queue \in Seq(Events) /\ Len(queue) <= MaxQueue
      /\ sending = <<>> /\ task = "select"
  BY BatcherAssumption DEF IInv, TypeOK, SendingInv, FlushTimer, ChannelClosed
<1>2. /\ TypeOK' /\ SendingInv' /\ sending' = batch /\ batch' = <<>> /\ queue' = queue
      /\ IF sending' = <<>> THEN UNCHANGED batchSeq ELSE batchSeq' = batchSeq + 1
  BY Zenon, <1>1, FlushTypes DEF FlushTimer, ChannelClosed
<1>3. Pipeline' = Pipeline
  BY <1>1, <1>2, MovesAlong DEF Pipeline
<1> QED BY Zenon, <1>1, <1>2, <1>3, MovesKeep DEF FlushTimer, ChannelClosed

(* A failed attempt that is not the last: the batch, if it arrived, will   *)
(* arrive again under the same number.                                     *)
LEMMA RetryInv ==
  ASSUME IInv, SendFails, ~(attempts + 1 > MaxRetries)
  PROVE  IInv'
<1>1. /\ attempts' = attempts + 1 /\ attempts' \in 0..MaxRetries
      /\ UNCHANGED <<offered, queue, open, batch, task, sending, batchSeq, lost, dropped>>
  BY BatcherAssumption DEF SendFails, IInv, TypeOK
<1>2. CASE UNCHANGED arrived
  <2>1. TypeOK' /\ SendingInv'
    BY Zenon, <1>1, <1>2 DEF IInv, TypeOK, SendingInv, Publishing, SendFails
  <2>2. EveryEventAccounted' /\ ArrivesInOrder'
    BY <1>1, <1>2 DEF IInv, EveryEventAccounted, ArrivesInOrder, Delivered, Pipeline
  <2>3. ArrivedInv'
    BY Zenon, <1>1, <1>2 DEF IInv, ArrivedInv, Earlier, Current, Pipeline
  <2> QED BY Zenon, <2>1, <2>2, <2>3 DEF IInv
<1>3. CASE Arrives
  <2>1. /\ ArrivesInOrder'
        /\ \A i \in DOMAIN arrived' : arrived'[i] = Current \/ Earlier(arrived'[i])
    BY Zenon, <1>3, ArrivesKeeps DEF SendFails
  <2>2. TypeOK' /\ SendingInv'
    <3>1. arrived' \in Seq([seq : Nat, events : Seq(Events)])
      BY Zenon, <1>3, ArrivesType DEF IInv
    <3> QED BY Zenon, <1>1, <3>1 DEF IInv, TypeOK, SendingInv, Publishing, SendFails
  <2>3. EveryEventAccounted'
    <3>1. Delivered' = Delivered \cup Range(sending) /\ Pipeline' = Pipeline
      BY Zenon, <1>1, <1>3, DeliveredGrows DEF IInv, Pipeline
    <3>2. Range(sending) \subseteq Range(Pipeline)
      BY Zenon, PipelineType DEF IInv
    <3> QED BY Zenon, <1>1, <3>1, <3>2 DEF IInv, EveryEventAccounted
  <2>4. ArrivedInv'
    <3>1. sending # <<>>
      BY Zenon DEF IInv, SendingInv, SendFails
    <3>2. Current' = Current /\ sending' = sending /\ Pipeline' = Pipeline /\ batchSeq' = batchSeq
      BY Zenon, <1>1 DEF Current, Pipeline
    <3> QED BY Zenon, <2>1, <3>1, <3>2 DEF ArrivedInv, Earlier
  <2> QED BY Zenon, <2>1, <2>2, <2>3, <2>4 DEF IInv
<1> QED BY Zenon, <1>2, <1>3 DEF SendFails

(* Nothing has been offered yet.                                           *)
LEMMA InitInv == Init => IInv
<1> SUFFICES ASSUME Init PROVE IInv
  BY Zenon
<1>1. TypeOK /\ SendingInv
  BY BatcherAssumption DEF Init, TypeOK, SendingInv, Publishing
<1>2. Pipeline = <<>> /\ Delivered = {} /\ 1..offered = {} /\ Range(Pipeline) = {}
  <2>1. Pipeline = <<>>
    BY MovesAlong DEF Init, Pipeline
  <2> QED BY <2>1 DEF Init, Delivered, Range
<1>3. EveryEventAccounted /\ ArrivesInOrder /\ ArrivedInv
  BY <1>2 DEF Init, EveryEventAccounted, ArrivesInOrder, ArrivedInv
<1> QED BY Zenon, <1>1, <1>3 DEF IInv

(* Every step of Next preserves the inductive invariant.                   *)
LEMMA NextInv == IInv /\ [Next]_vars => IInv'
<1> SUFFICES ASSUME IInv, [Next]_vars PROVE IInv'
  BY Zenon
<1>1. CASE SendEvent
  BY Zenon, <1>1, SendEventInv
<1>2. CASE Receive
  BY Zenon, <1>2, ReceiveInv
<1>3. CASE FlushTimer \/ ChannelClosed
  BY Zenon, <1>3, FlushInv
<1>4. CASE SendRequest
  BY Zenon, <1>4, PublishedKeeps DEF SendRequest
<1>5. CASE SendFails
  <2>1. CASE attempts + 1 > MaxRetries
    BY Zenon, <1>5, <2>1, PublishedKeeps DEF SendFails
  <2>2. CASE ~(attempts + 1 > MaxRetries)
    BY Zenon, <1>5, <2>2, RetryInv
  <2> QED BY Zenon, <2>1, <2>2
<1>6. CASE DropSender \/ Exit \/ UNCHANGED vars
  <2>1. UNCHANGED <<offered, queue, batch, sending, attempts, batchSeq, arrived, lost, dropped>>
    BY Zenon, <1>6 DEF DropSender, Exit, vars
  <2>2. TypeOK' /\ SendingInv'
    BY Zenon, <1>6, <2>1 DEF DropSender, Exit, vars, IInv, TypeOK, SendingInv, Publishing
  <2>3. EveryEventAccounted' /\ ArrivesInOrder'
    BY <2>1 DEF IInv, EveryEventAccounted, ArrivesInOrder, Delivered, Pipeline
  <2>4. ArrivedInv'
    BY Zenon, <2>1 DEF IInv, ArrivedInv, Earlier, Current, Pipeline
  <2> QED BY Zenon, <2>2, <2>3, <2>4 DEF IInv
<1> QED BY Zenon, <1>1, <1>2, <1>3, <1>4, <1>5, <1>6 DEF Next, BatcherStep

-----------------------------------------------------------------------------
(* The invariant holds in every reachable state.                           *)
LEMMA AlwaysIInv == Spec => []IInv
<1>1. Init => IInv
  BY Zenon, InitInv
<1>2. IInv /\ [Next]_vars => IInv'
  BY Zenon, NextInv
<1> QED BY <1>1, <1>2, PTL DEF Spec

(* Type correctness: the channel and the batch stay within their bounds    *)
(* and the attempts within http_max_retries.                               *)
THEOREM BatcherTypes == Spec => []TypeOK
<1>1. IInv => TypeOK
  BY Zenon DEF IInv
<1> QED BY <1>1, AlwaysIInv, PTL

(* No event offered to send_event disappears unaccounted, whatever the     *)
(* batch size, the capacity and the failures of the service.               *)
THEOREM NothingVanishes == Spec => []EveryEventAccounted
<1>1. IInv => EveryEventAccounted
  BY Zenon DEF IInv
<1> QED BY <1>1, AlwaysIInv, PTL

(* The service can remove duplicates by batch number alone and then has    *)
(* the events in order: a retry never renumbers or changes a batch.        *)
THEOREM InOrder == Spec => []ArrivesInOrder
<1>1. IInv => ArrivesInOrder
  BY Zenon DEF IInv
<1> QED BY <1>1, AlwaysIInv, PTL
=============================================================================
