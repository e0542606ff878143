------------------------------- MODULE Worker -------------------------------
(***************************************************************************)
(* The delivery goroutines of cmd/worker: in each replica w one consumer   *)
(* per topic, the retry topic included, fetches a message, handles it and  *)
(* commits it.  consumer[w][t] is where that goroutine is and the position *)
(* of its message in log[t].                                               *)
(*                                                                         *)
(* Consume returns when the context is cancelled; the other error of a     *)
(* fetch ends the process (Pipeline!Restart).  A token is always granted   *)
(* in the end: the rates are the subject of another module.                *)
(***************************************************************************)
EXTENDS Repository, MessageQueue, Faults

CONSTANT MaxRetries

ASSUME MaxRetriesAssumption == MaxRetries \in Nat

VARIABLES consumer,
          sent,         \* sent[id]: how often the provider accepted id
          fails,        \* fails[id]: how often the notifier returned an error for id
          errored       \* ids whose handler returned an error that was only logged

historyVars == <<sent, fails, errored>>
workerVars == <<consumer, historyVars>>

ConsumerSteps == {"fetch", "delay", "limit", "processing", "send", "delivered",
                  "increment", "failed", "dlq", "retry", "ack", "nack", "stopped"}

Waiting == [at |-> "fetch", slot |-> 0]

WorkerTypeOK ==
    /\ consumer \in [Workers -> [Topics -> [at : ConsumerSteps, slot : Nat]]]
    /\ sent \in [Ids -> Nat]
    /\ fails \in [Ids -> Nat]
    /\ errored \in SUBSET Ids

WorkerInit ==
    /\ consumer = [w \in Workers |-> [t \in Topics |-> Waiting]]
    /\ sent = [id \in Ids |-> 0]
    /\ fails = [id \in Ids |-> 0]
    /\ errored = {}

At(w, t, step) == consumer[w][t].at = step

Goto(w, t, step) == consumer' = [consumer EXCEPT ![w][t].at = step]

(* The message in hand, and RetryCount once handleFailure incremented it.  *)
Current(w, t) == log[t][consumer[w][t].slot]

(* A slip to detect: the attempt is counted twice.                         *)
AttemptsTwice(w, t) == Current(w, t).retryCount + 2

Attempts(w, t) == Current(w, t).retryCount + 1

Fetch(w, t) ==
    /\ At(w, t, "fetch")
    /\ \E i \in DOMAIN log[t] :
          /\ FetchMessage(t, i)
          /\ consumer' = [consumer EXCEPT ![w][t] =
                [at |-> IF t = RetryTopic THEN "delay" ELSE "limit", slot |-> i]]
    /\ UNCHANGED <<rows, dlq, faultVars, historyVars>>

(* ctx.Done(): the consumer returns, a message in its hands uncommitted.   *)
StopConsumer(w, t) ==
    /\ stopping[w]
    /\ At(w, t, "fetch") \/ At(w, t, "delay")
    /\ Goto(w, t, "stopped")
    /\ UNCHANGED <<rows, queueVars, faultVars, historyVars>>

RetryAfter(w, t) ==
    /\ At(w, t, "delay")
    /\ Goto(w, t, "limit")
    /\ UNCHANGED <<rows, queueVars, faultVars, historyVars>>

RateLimit(w, t) ==
    /\ At(w, t, "limit")
    /\ Goto(w, t, IF stopping[w] THEN "nack" ELSE "processing")
    /\ UNCHANGED <<rows, queueVars, faultVars, historyVars>>

(* UpdateStatus with an error that the caller logs and otherwise ignores.  *)
TryUpdateStatus(w, id, status) ==
    \/ UpdateStatus(id, status) /\ CallSucceeds(w)
    \/ (UpdateStatus(id, status) \/ UNCHANGED rows) /\ CallFails(w)

(* The status the row has is not looked at: the message decides.           *)
MarkProcessing(w, t) ==
    /\ At(w, t, "processing")
    /\ TryUpdateStatus(w, Current(w, t).id, "processing")
    /\ Goto(w, t, "send")
    /\ UNCHANGED <<queueVars, historyVars>>

(***************************************************************************)
(* The provider accepts, or answers with an error, or accepts and the      *)
(* answer is lost (the 10 s timeout, a connection or the worker's context  *)
(* ending first).                                                          *)
(***************************************************************************)
SendAccepted(w, t) ==
    /\ sent' = [sent EXCEPT ![Current(w, t).id] = @ + 1]
    /\ Goto(w, t, "delivered")
    /\ CallSucceeds(w)
    /\ UNCHANGED fails

(* A slip to detect: the answer's status code is not looked at.            *)
SendRejectedUnnoticed(w, t) ==
    /\ fails' = [fails EXCEPT ![Current(w, t).id] = @ + 1]
    /\ Goto(w, t, "delivered")
    /\ UNCHANGED <<sent, faultVars>>

SendRejected(w, t) ==
    /\ fails' = [fails EXCEPT ![Current(w, t).id] = @ + 1]
    /\ Goto(w, t, "increment")
    /\ UNCHANGED <<sent, faultVars>>

SendUnanswered(w, t) ==
    /\ sent' = [sent EXCEPT ![Current(w, t).id] = @ + 1]
    /\ fails' = [fails EXCEPT ![Current(w, t).id] = @ + 1]
    /\ Goto(w, t, "increment")
    /\ CallFails(w)

Send(w, t) ==
    /\ At(w, t, "send")
    /\ SendAccepted(w, t) \/ SendRejected(w, t) \/ SendUnanswered(w, t)
    /\ UNCHANGED <<rows, queueVars, errored>>

(* A slip to detect: no return after the delivery, the failure path runs.  *)
MarkDeliveredFallsThrough(w, t) ==
    /\ At(w, t, "delivered")
    /\ TryUpdateStatus(w, Current(w, t).id, "delivered")
    /\ Goto(w, t, "increment")
    /\ UNCHANGED <<queueVars, historyVars>>

MarkDelivered(w, t) ==
    /\ At(w, t, "delivered")
    /\ TryUpdateStatus(w, Current(w, t).id, "delivered")
    /\ Goto(w, t, "ack")
    /\ UNCHANGED <<queueVars, historyVars>>

(***************************************************************************)
(* handleFailure                                                           *)
(***************************************************************************)
Increment(w, t) ==
    /\ At(w, t, "increment")
    /\ LET id == Current(w, t).id IN
          \/ IncrementRetry(id) /\ CallSucceeds(w)
          \/ (IncrementRetry(id) \/ UNCHANGED rows) /\ CallFails(w)
    /\ Goto(w, t, IF Attempts(w, t) >= MaxRetries THEN "failed" ELSE "retry")
    /\ UNCHANGED <<queueVars, historyVars>>

MarkFailed(w, t) ==
    /\ At(w, t, "failed")
    /\ TryUpdateStatus(w, Current(w, t).id, "failed")
    /\ Goto(w, t, "dlq")
    /\ UNCHANGED <<queueVars, historyVars>>

DeadLetter(w, t) ==
    /\ At(w, t, "dlq")
    /\ LET id == Current(w, t).id IN
          \/ PublishDLQ(id) /\ Goto(w, t, "ack") /\ CallSucceeds(w)
          \/ (PublishDLQ(id) \/ UNCHANGED dlq) /\ Goto(w, t, "nack") /\ CallFails(w)
    /\ UNCHANGED <<rows, log, historyVars>>

ScheduleRetry(w, t) ==
    /\ At(w, t, "retry")
    /\ LET id == Current(w, t).id  n == Attempts(w, t) IN
          \/ PublishRetry(id, n) /\ Goto(w, t, "ack") /\ CallSucceeds(w)
          \/ (PublishRetry(id, n) \/ UNCHANGED log) /\ Goto(w, t, "nack") /\ CallFails(w)
    /\ UNCHANGED <<rows, dlq, historyVars>>

(***************************************************************************)
(* The handler returned: "nack" with an error, which Consume logs before   *)
(* it commits the message all the same.  CommitMessages selects among the  *)
(* commit queue and ctx.Done(), so a cancelled context need not stop it.   *)
(***************************************************************************)
Commit(w, t) ==
    /\ At(w, t, "ack") \/ At(w, t, "nack")
    /\ errored' = IF At(w, t, "nack") THEN errored \cup {Current(w, t).id} ELSE errored
    /\ consumer' = [consumer EXCEPT ![w][t] = Waiting]
    /\ LET i == consumer[w][t].slot IN
          \/ CommitMessage(t, i) /\ NoFault
          \/ CommitFails(t, i) /\ CallFails(w)
    /\ UNCHANGED <<rows, dlq, sent, fails>>

ConsumerStep(w, t) ==
    \/ Fetch(w, t) \/ StopConsumer(w, t) \/ RetryAfter(w, t) \/ RateLimit(w, t)
    \/ MarkProcessing(w, t) \/ Send(w, t) \/ MarkDelivered(w, t)
    \/ Increment(w, t) \/ MarkFailed(w, t) \/ DeadLetter(w, t) \/ ScheduleRetry(w, t)
    \/ Commit(w, t)
=============================================================================
