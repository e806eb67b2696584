---------------------------- MODULE EventBatcher ----------------------------
(***************************************************************************)
(* The telemetry path: send_event of proxy/event_batcher.rs puts query     *)
(* events on a bounded channel, the batcher task collects them into        *)
(* batches, and HttpPublisher (publisher/http_publisher.rs) posts each     *)
(* batch with retries.  The process ends as run() of proxy/server.rs and   *)
(* main end it.                                                            *)
(*                                                                         *)
(* Events are numbered in the order in which they are offered.             *)
(***************************************************************************)
EXTENDS Integers, Sequences, Functions

CONSTANTS
    BatchSize,      \* batch_size
    MaxQueue,       \* max_queue_size, the capacity of the channel
    MaxRetries,     \* http_max_retries
    MaxEvents       \* bound: the events ever offered

ASSUME BatcherAssumption ==
    /\ BatchSize \in Nat \ {0} /\ MaxQueue \in Nat \ {0}
    /\ MaxRetries \in Nat /\ MaxEvents \in Nat

VARIABLES
    offered,    \* how many events send_event was called with
    queue,      \* the channel
    open,       \* a sender exists
    batch,      \* the Vec of run_batcher
    task,       \* the batcher task: "select", "publish", "last" (publishing
                \* the remainder after the channel closed), "ended", "killed"
    sending,    \* the events of the batch that is being published
    attempts,   \* failed attempts at it
    batchSeq,   \* batch_seq
    arrived,    \* what the analytics service has received, in order
    lost,       \* ghost: the events given up after all retries
    dropped     \* ghost: the events send_event refused

vars == <<offered, queue, open, batch, task, sending, attempts, batchSeq,
          arrived, lost, dropped>>

Events == 1..MaxEvents

TypeOK ==
    /\ offered \in 0..MaxEvents
    /\ queue \in Seq(Events) /\ batch \in Seq(Events) /\ sending \in Seq(Events)
    /\ Len(queue) <= MaxQueue
    /\ Len(batch) < BatchSize /\ Len(sending) <= BatchSize
    /\ open \in BOOLEAN
    /\ task \in {"select", "publish", "last", "ended", "killed"}
    /\ attempts \in 0..MaxRetries
    /\ batchSeq \in Nat
    /\ arrived \in Seq([seq : Nat, events : Seq(Events)])
    /\ lost \subseteq Events /\ dropped \subseteq Events

Init ==
    /\ offered = 0 /\ queue = <<>> /\ open = TRUE
    /\ batch = <<>> /\ task = "select"
    /\ sending = <<>> /\ attempts = 0 /\ batchSeq = 0
    /\ arrived = <<>> /\ lost = {} /\ dropped = {}

Running == task \in {"select", "publish", "last"}

-----------------------------------------------------------------------------
(* send_event: try_send never waits; on a full channel the event that was  *)
(* offered is the one that is dropped.                                     *)
SendEvent ==
    /\ open /\ offered < MaxEvents
    /\ offered' = offered + 1
    /\ IF Len(queue) < MaxQueue
         THEN queue' = Append(queue, offered + 1) /\ UNCHANGED dropped
         ELSE dropped' = dropped \cup {offered + 1} /\ UNCHANGED queue
    /\ UNCHANGED <<open, batch, task, sending, attempts, batchSeq, arrived, lost>>

(* flush_batch takes the batch es; publish_batch numbers it.  An empty one *)
(* is skipped.                                                             *)
FlushBatch(es, publishing, done) ==
    /\ batch' = <<>>
    /\ sending' = es
    /\ IF es = <<>>
         THEN task' = done /\ UNCHANGED batchSeq
         ELSE task' = publishing /\ batchSeq' = batchSeq + 1

(* The recv arm of the select.                                             *)
Receive ==
    /\ task = "select" /\ queue # <<>>
    /\ queue' = Tail(queue)
    /\ LET es == Append(batch, Head(queue)) IN
         IF Len(es) >= BatchSize
           THEN FlushBatch(es, "publish", "select")
           ELSE batch' = es /\ UNCHANGED <<task, sending, batchSeq>>
    /\ UNCHANGED <<offered, open, attempts, arrived, lost, dropped>>

(* A faulty FlushTimer, which EveryEventAccounted must notice.             *)
FlushTimerForgets ==
    /\ task = "select" /\ batch # <<>>
    /\ FlushBatch(Tail(batch), "publish", "select")
    /\ UNCHANGED <<offered, queue, open, attempts, arrived, lost, dropped>>

(* A faulty FlushTimer, which EventsLeave must notice.                     *)
FlushTimerFull ==
    /\ task = "select" /\ Len(batch) >= BatchSize
    /\ FlushBatch(batch, "publish", "select")
    /\ UNCHANGED <<offered, queue, open, attempts, arrived, lost, dropped>>

(* The timer arm.                                                          *)
FlushTimer ==
    /\ task = "select" /\ batch # <<>>
    /\ FlushBatch(batch, "publish", "select")
    /\ UNCHANGED <<offered, queue, open, attempts, arrived, lost, dropped>>

(* recv returns None: the channel is closed and empty.                     *)
ChannelClosed ==
    /\ task = "select" /\ ~open /\ queue = <<>>
    /\ FlushBatch(batch, "last", "ended")
    /\ UNCHANGED <<offered, queue, open, attempts, arrived, lost, dropped>>

-----------------------------------------------------------------------------
Publishing == task \in {"publish", "last"}

(* publish_batch is over, successful or not: back to the loop, or out.     *)
Published ==
    /\ sending' = <<>> /\ attempts' = 0
    /\ task' = IF task = "last" THEN "ended" ELSE "select"

Arrives == arrived' = Append(arrived, [seq |-> batchSeq, events |-> sending])

(* One attempt of publish_with_retries succeeds.                           *)
SendRequest ==
    /\ Publishing
    /\ Arrives /\ Published
    /\ UNCHANGED <<offered, queue, open, batch, batchSeq, lost, dropped>>

(* A faulty SendFails, which ArrivesInOrder must notice.                   *)
SendFailsRenumbers ==
    /\ Publishing
    /\ Arrives \/ UNCHANGED arrived
    /\ batchSeq' = batchSeq + 1
    /\ IF attempts + 1 > MaxRetries
         THEN /\ Published
              /\ lost' = lost \cup Range(sending)
         ELSE /\ attempts' = attempts + 1
              /\ UNCHANGED <<sending, task, lost>>
    /\ UNCHANGED <<offered, queue, open, batch, dropped>>

(* One attempt fails: connection refused, an error status, or a timeout    *)
(* after the service had taken the batch.                                  *)
SendFails ==
    /\ Publishing
    /\ Arrives \/ UNCHANGED arrived
    /\ IF attempts + 1 > MaxRetries
         THEN /\ Published
              /\ lost' = lost \cup Range(sending)
         ELSE /\ attempts' = attempts + 1
              /\ UNCHANGED <<sending, task, lost>>
    /\ UNCHANGED <<offered, queue, open, batch, batchSeq, dropped>>

-----------------------------------------------------------------------------
(* run() returns: the server, and with it the last sender, is dropped.     *)
DropSender ==
    /\ open
    /\ open' = FALSE
    /\ UNCHANGED <<offered, queue, batch, task, sending, attempts, batchSeq,
                   arrived, lost, dropped>>

(* main returns right after: the runtime is dropped, and the batcher task, *)
(* which nobody awaits, with it.                                           *)
Exit ==
    /\ ~open /\ Running
    /\ task' = "killed"
    /\ UNCHANGED <<offered, queue, open, batch, sending, attempts, batchSeq,
                   arrived, lost, dropped>>

BatcherStep == Receive \/ FlushTimer \/ ChannelClosed \/ SendRequest \/ SendFails

Next == SendEvent \/ BatcherStep \/ DropSender \/ Exit

Spec == Init /\ [][Next]_vars

-----------------------------------------------------------------------------
Delivered == UNION {Range(arrived[i].events) : i \in DOMAIN arrived}
Pipeline == sending \o batch \o queue

(* Every event is accounted for: refused, delivered, given up after the    *)
(* retries, or in the pipeline, in which it is only once and in order.     *)
EveryEventAccounted ==
    /\ 1..offered = dropped \cup Delivered \cup lost \cup Range(Pipeline)
    /\ dropped \cap (Delivered \cup lost \cup Range(Pipeline)) = {}
    /\ \A i, j \in DOMAIN Pipeline : i < j => Pipeline[i] < Pipeline[j]

(* What the service sees: a batch it receives again, because the answer to *)
(* an earlier attempt was lost, has the same number and the same events;   *)
(* different batches arrive in order, and so do the events over all of     *)
(* them.                                                                   *)
ArrivesInOrder ==
    \A i, j \in DOMAIN arrived :
      i < j =>
        \/ arrived[i] = arrived[j]
        \/ /\ arrived[i].seq < arrived[j].seq
           /\ \A x \in Range(arrived[i].events), y \in Range(arrived[j].events) : x < y

(* The runtime runs the task, its timer fires, and every attempt at a post *)
(* ends within http_timeout_ms.                                            *)
Fairness ==
    /\ WF_vars(Receive) /\ WF_vars(FlushTimer) /\ WF_vars(ChannelClosed)
    /\ WF_vars(SendRequest \/ SendFails)

LiveSpec == Spec /\ Fairness

(* While the process lives no event is stuck in a partial batch: each      *)
(* accepted event is delivered or given up.                                *)
EventsLeave ==
    \A e \in Events : e \in Range(Pipeline) ~> e \notin Range(Pipeline) \/ ~Running
=============================================================================
