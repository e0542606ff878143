------------------------------ MODULE Pipeline ------------------------------
(***************************************************************************)
(* The whole delivery pipeline: API requests, the table, the topics, the   *)
(* consumers and schedulers of every worker replica, and what can happen   *)
(* to the processes and the consumer groups.                               *)
(***************************************************************************)
EXTENDS NotificationService, Worker, Scheduler, FiniteSets

(* What the clients of an instance ask for: these bound its inputs.        *)
CONSTANTS ClientSchedules,  \* the values of scheduled_at in Create requests
          ClientCancels     \* the notifications some client tries to cancel

(* A deployment runs so many workers and no more.                          *)
ASSUME WorkersAssumption == IsFiniteSet(Workers)

ASSUME ClientAssumption == ClientSchedules \subseteq Schedules /\ ClientCancels \subseteq Ids

vars == <<rows, queueVars, faultVars, serviceVars, workerVars, schedulerVars>>

Init ==
    /\ RowsInit /\ QueueInit /\ FaultsInit
    /\ ServiceInit /\ WorkerInit /\ SchedulerInit

(***************************************************************************)
(* The environment                                                         *)
(***************************************************************************)

(* A replica ends and is replaced.  All it had in memory is gone, and its  *)
(* leaving makes both consumer groups start again from their offsets.      *)
Restart(w) ==
    /\ ProcessRestarts(w)
    /\ consumer' = [consumer EXCEPT ![w] = [t \in Topics |-> Waiting]]
    /\ due' = [due EXCEPT ![w] = {}]
    /\ marking' = [marking EXCEPT ![w] = {}]
    /\ Redeliver(Topics)
    /\ UNCHANGED <<rows, dlq, serviceVars, historyVars>>

(* A group rebalances without losing a process (a scale-out, a session     *)
(* timeout): members finish, too late, what they had fetched.              *)
Rebalance(groups) ==
    /\ Fault
    /\ Redeliver(groups)
    /\ UNCHANGED <<rows, dlq, serviceVars, workerVars, schedulerVars>>

TimePasses(id) ==
    /\ Elapse(id)
    /\ UNCHANGED <<queueVars, faultVars, serviceVars, workerVars, schedulerVars>>

(***************************************************************************)
(* The steps of the system                                                 *)
(***************************************************************************)
CreateStep(id) ==
    CreateQueue(id) \/ CreatePublish(id) \/ CreateRollback(id)

BatchStep ==
    \/ \E id \in Ids : BatchPublish(id) \/ BatchMark(id)
    \/ \E b \in Batches : BatchReturn(b)

NewRequest ==
    \/ \E id \in Ids, at \in ClientSchedules, k \in Keys \cup {NoKey} : CreateInsert(id, at, k)
    \/ \E b \in Batches, S \in SUBSET Ids \ {{}} :
          \E keyOf \in [S -> Keys \cup {NoKey}] : CreateBatchInsert(b, keyOf)
    \/ \E id \in ClientCancels : CancelRead(id)

ServiceStep ==
    \/ NewRequest
    \/ BatchStep
    \/ \E id \in Ids : CreateStep(id) \/ CancelUpdate(id) \/ RequestDies(id)

Next ==
    \/ ServiceStep /\ UNCHANGED <<workerVars, schedulerVars>>
    \/ \E w \in Workers, t \in Topics :
          ConsumerStep(w, t) /\ UNCHANGED <<serviceVars, schedulerVars>>
    \/ \E w \in Workers : SchedulerStep(w) /\ UNCHANGED <<serviceVars, workerVars>>
    \/ \E w \in Workers :
          Sigterm(w) /\ UNCHANGED <<rows, queueVars, serviceVars, workerVars, schedulerVars>>
    \/ \E w \in Workers : Restart(w)
    \/ Rebalance(MainTopics) \/ Rebalance({RetryTopic})
    \/ \E id \in Ids : TimePasses(id)

Spec == Init /\ [][Next]_vars

(***************************************************************************)
(* Every handler and goroutine goes on, time passes, and a worker that was *)
(* told to stop ends: main waits for none of its goroutines.               *)
(***************************************************************************)
Fairness ==
    /\ \A id \in Ids :
          /\ WF_vars(CreateStep(id) /\ UNCHANGED <<workerVars, schedulerVars>>)
          /\ WF_vars(TimePasses(id))
    /\ WF_vars(BatchStep /\ UNCHANGED <<workerVars, schedulerVars>>)
    /\ \A w \in Workers :
          /\ \A t \in Topics :
                WF_vars(ConsumerStep(w, t) /\ UNCHANGED <<serviceVars, schedulerVars>>)
          /\ WF_vars(SchedulerStep(w) /\ UNCHANGED <<serviceVars, workerVars>>)
          /\ WF_vars(stopping[w] /\ Restart(w))

FairSpec == Spec /\ Fairness

TypeOK ==
    /\ RowsTypeOK /\ QueueTypeOK /\ FaultsTypeOK
    /\ ServiceTypeOK /\ WorkerTypeOK /\ SchedulerTypeOK

(***************************************************************************)
(* Properties                                                              *)
(***************************************************************************)

(* A notification that reached Kafka is still to be handled, reached the   *)
(* provider or the dead letter topic, or a handler error was logged for    *)
(* it: whatever dies, nothing else makes a message disappear, because      *)
(* Consume commits only after the handler returned.                        *)
NoSilentLoss ==
    \A id \in Ids : Published(id) =>
        Live(id) \/ sent[id] > 0 \/ id \in dlq \/ id \in errored

(* Create answers 202 only for a notification that is in Kafka, or left    *)
(* pending with a schedule the scheduler will meet, or cancelled since.    *)
AcceptedIsKept ==
    \A id \in Ids : reply[id] = "accepted" /\ rows[id].batch = NoBatch =>
        \/ Published(id)
        \/ rows[id].status = "pending" /\ rows[id].scheduledAt # "none"
        \/ rows[id].status = "cancelled"

(* Nothing reaches Kafka before its scheduled_at, not even while the       *)
(* scheduler and the request that stores it run side by side.              *)
NeverEarly ==
    \A id \in Ids : rows[id].scheduledAt = "future" => ~Published(id)

(* A notification is given up (status failed, or the dead letter topic)    *)
(* only after MAX_RETRIES failed attempts, counted across every redelivery *)
(* and every copy of the counter: the row's, the message's, the handler's. *)
DeadLetterEarned ==
    \A id \in Ids :
        /\ rows[id].status = "failed" \/ id \in dlq => fails[id] >= MaxRetries
        /\ rows[id].retryCount <= fails[id]

(* The status says delivered only of what the provider accepted.           *)
DeliveredIsSent ==
    \A id \in Ids : rows[id].status = "delivered" => sent[id] > 0

(* How many copies of a notification Create and the schedulers publish:    *)
(* one if it was not scheduled; if it was, one for each replica whose      *)
(* scheduler read it before another marked it queued, and one for the      *)
(* request that created it, when scheduled_at passed before IsScheduled.   *)
MaxCopies(id) ==
    IF rows[id].scheduledAt = "none" THEN 1 ELSE Cardinality(Workers) + 1

(* Without a failure no more copies reach the notification's topic, though *)
(* the schedulers take no lock and look at no other replica.               *)
CopiesBounded ==
    faults = 0 => \A id \in Ids :
        LET Copy(i) == log[TopicOf[id]][i].id = id
        IN  Cardinality({i \in DOMAIN log[TopicOf[id]] : Copy(i)}) <= MaxCopies(id)

(* Without a failure every notification is sent at most once per copy that *)
(* was published, and a copy takes no more attempts than MAX_RETRIES.      *)
SendsBounded ==
    faults = 0 => \A id \in Ids :
        /\ sent[id] <= MaxCopies(id)
        /\ MaxRetries > 0 => sent[id] + fails[id] <= MaxCopies(id) * MaxRetries

(* Without a failure, what Create queued and a worker delivered stays      *)
(* delivered: Create sets queued before it publishes.  (CreateBatch and    *)
(* the scheduler set it afterwards: see DeliveredIsLast.)                  *)
DeliveredIsFinal ==
    [][\A id \in Ids :
         /\ rows[id].status = "delivered"
         /\ rows[id].scheduledAt = "none" /\ rows[id].batch = NoBatch
         /\ faults' = 0
         => rows'[id].status = "delivered"]_vars

(* Cancelled with nothing on its way: not in Kafka, not in a scheduler's   *)
(* copies, and the request that made it is over.                           *)
OutOfTheWay(id) ==
    /\ rows[id].status = "cancelled"
    /\ ~Published(id)
    /\ create[id] = "done"
    /\ \A w \in Workers : id \notin marking[w] /\ \A n \in due[w] : n.id # id

(* A cancellation that came before the notification was picked up is       *)
(* final: no scheduler, consumer or request brings it back.                *)
EffectiveCancel == [][\A id \in Ids : OutOfTheWay(id) => OutOfTheWay(id)']_vars

(***************************************************************************)
(* What the documentation says and the code does not do                    *)
(***************************************************************************)

(* README: manual offset commits give "At-least-once delivery guarantee":  *)
(* a notification that reached Kafka is still to be handled, or reached    *)
(* the provider or the dead letter topic.                                  *)
AtLeastOnce ==
    \A id \in Ids : Published(id) => Live(id) \/ sent[id] > 0 \/ id \in dlq

(* openapi.yaml, 204 of DELETE: "Notification cancelled".  What was        *)
(* cancelled is not sent any more.                                         *)
CancelStopsDelivery ==
    [][\A id \in cancelled : sent'[id] = sent[id]]_vars

(* README, WebSocket example: "delivered" is what follows "queued", and    *)
(* the tests: "cannot cancel delivered notification".  Once the request    *)
(* that made it is answered, a delivered notification does not become      *)
(* queued, and so cancellable, again.                                      *)
DeliveredIsLast ==
    [][\A id \in Ids : rows[id].status = "delivered" /\ create[id] = "done"
                        => ~IsCancellable(rows'[id].status)]_vars

(***************************************************************************)
(* Liveness                                                                *)
(***************************************************************************)

(* What Create accepted is in the end sent, dead-lettered, cancelled, or   *)
(* the subject of a logged handler error.                                  *)
AcceptedResolved ==
    \A id \in Ids : reply[id] = "accepted" /\ rows[id].batch = NoBatch ~>
        sent[id] > 0 \/ id \in dlq \/ rows[id].status = "cancelled" \/ id \in errored
=============================================================================
