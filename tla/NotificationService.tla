------------------------- MODULE NotificationService -------------------------
(***************************************************************************)
(* NotificationService: Create, CreateBatch and Cancel, as run by the API  *)
(* replicas.  Each request is a handler of its own; create[id] says how    *)
(* far the handler that makes notification id has come, so requests, the   *)
(* workers and the schedulers interleave between any two calls.            *)
(*                                                                         *)
(* A call that returns an error may or may not have taken effect.          *)
(***************************************************************************)
EXTENDS Repository, MessageQueue, Faults

VARIABLES create,       \* create[id]: the next step of the handler that makes id
          reply,        \* reply[id]: what the client that asked for id was told
          cancel,       \* cancel[id]: "checked" between Cancel's read and its UPDATE
          cancelled     \* the notifications whose cancel request was answered 204

createVars == <<create, reply>>
cancelVars == <<cancel, cancelled>>
serviceVars == <<createVars, cancelVars>>

CreateSteps == {"none", "inserted", "publish", "rollback",   \* Create
                "batched", "mark", "settled",                \* CreateBatch
                "done"}

ServiceTypeOK ==
    /\ create \in [Ids -> CreateSteps]
    /\ reply \in [Ids -> {"none", "accepted", "error", "conflict"}]
    /\ cancel \in [Ids -> {"idle", "checked"}]
    /\ cancelled \in SUBSET Ids

ServiceInit ==
    /\ create = [id \in Ids |-> "none"]
    /\ reply = [id \in Ids |-> "none"]
    /\ cancel = [id \in Ids |-> "idle"]
    /\ cancelled = {}

Continue(id, step) ==
    /\ create' = [create EXCEPT ![id] = step]
    /\ UNCHANGED <<reply, cancelVars>>

(* The handlers of the ids in S return and their client is told answer.    *)
ReturnAll(S, answer) ==
    /\ create' = [id \in Ids |-> IF id \in S THEN "done" ELSE create[id]]
    /\ reply' = [id \in Ids |-> IF id \in S THEN answer ELSE reply[id]]
    /\ UNCHANGED cancelVars

Return(id, answer) == ReturnAll({id}, answer)

(***************************************************************************)
(* Create                                                                  *)
(***************************************************************************)
CreateInsert(id, at, k) ==
    /\ create[id] = "none"
    /\ \/ Create(id, at, k) /\ Continue(id, "inserted") /\ NoFault
       \/ KeyTaken(k) /\ UNCHANGED rows /\ Return(id, "conflict") /\ NoFault
       \/ (Create(id, at, k) \/ UNCHANGED rows) /\ Return(id, "error") /\ Fault
    /\ UNCHANGED queueVars

(* A slip to detect: the row is set to queued before scheduled_at is       *)
(* looked at.                                                              *)
CreateQueueFirst(id) ==
    /\ create[id] = "inserted"
    /\ UpdateStatus(id, "queued") /\ NoFault
    /\ IF rows[id].scheduledAt = "future"
       THEN Return(id, "accepted")
       ELSE Continue(id, "publish")
    /\ UNCHANGED queueVars

(* A notification for the future is left to the scheduler, still pending.  *)
CreateQueue(id) ==
    /\ create[id] = "inserted"
    /\ IF rows[id].scheduledAt = "future"
       THEN UNCHANGED rows /\ Return(id, "accepted") /\ NoFault
       ELSE \/ UpdateStatus(id, "queued") /\ Continue(id, "publish") /\ NoFault
            \/ /\ UpdateStatus(id, "queued") \/ UNCHANGED rows
               /\ Return(id, "error") /\ Fault
    /\ UNCHANGED queueVars

(* Slips to detect: the error of the publish is not looked at, or is       *)
(* looked at the wrong way round.                                          *)
CreatePublishUnchecked(id) ==
    /\ create[id] = "publish"
    /\ \/ Publish(id, 0) /\ Return(id, "accepted") /\ NoFault
       \/ UNCHANGED log /\ Return(id, "accepted") /\ Fault
    /\ UNCHANGED <<rows, dlq>>

CreatePublishInverted(id) ==
    /\ create[id] = "publish"
    /\ \/ Publish(id, 0) /\ Continue(id, "rollback") /\ NoFault
       \/ UNCHANGED log /\ Return(id, "accepted") /\ Fault
    /\ UNCHANGED <<rows, dlq>>

CreatePublish(id) ==
    /\ create[id] = "publish"
    /\ \/ Publish(id, 0) /\ Return(id, "accepted") /\ NoFault
       \/ (Publish(id, 0) \/ UNCHANGED log) /\ Continue(id, "rollback") /\ Fault
    /\ UNCHANGED <<rows, dlq>>

(* The error of the rollback is ignored.  It uses the request's context,   *)
(* so what failed the publish (a client that hung up) may fail it as well. *)
CreateRollback(id) ==
    /\ create[id] = "rollback"
    /\ UpdateStatus(id, "pending") \/ UNCHANGED rows
    /\ Return(id, "error")
    /\ NoFault
    /\ UNCHANGED queueVars

(***************************************************************************)
(* CreateBatch.  The request's scheduled_at is not carried over.           *)
(***************************************************************************)
Members(b) == {id \in Ids : rows[id].batch = b}

CreateBatchInsert(b, keyOf) ==
    LET S == DOMAIN keyOf IN
    /\ Members(b) = {}
    /\ \A id \in S : create[id] = "none"
    /\ \/ /\ CreateBatch(b, keyOf)
          /\ create' = [id \in Ids |-> IF id \in S THEN "batched" ELSE create[id]]
          /\ UNCHANGED <<reply, cancelVars>> /\ NoFault
       \/ ~BatchKeysFree(keyOf) /\ UNCHANGED rows /\ ReturnAll(S, "conflict") /\ NoFault
       \/ (CreateBatch(b, keyOf) \/ UNCHANGED rows) /\ ReturnAll(S, "error") /\ Fault
    /\ UNCHANGED queueVars

(* A publish that fails is logged, and the loop continues.                 *)
BatchPublish(id) ==
    /\ create[id] = "batched"
    /\ \A other \in Members(rows[id].batch) : create[other] # "mark"
    /\ \/ Publish(id, 0) /\ Continue(id, "mark") /\ NoFault
       \/ (Publish(id, 0) \/ UNCHANGED log) /\ Continue(id, "settled") /\ Fault
    /\ UNCHANGED <<rows, dlq>>

BatchMark(id) ==
    /\ create[id] = "mark"
    /\ \/ UpdateStatus(id, "queued") /\ NoFault
       \/ (UpdateStatus(id, "queued") \/ UNCHANGED rows) /\ Fault
    /\ Continue(id, "settled")
    /\ UNCHANGED queueVars

BatchReturn(b) ==
    /\ Members(b) # {}
    /\ \A id \in Members(b) : create[id] = "settled"
    /\ ReturnAll(Members(b), "accepted")
    /\ UNCHANGED <<rows, queueVars, faultVars>>

(* The API process dies in the middle of a request: nobody is answered.    *)
RequestDies(id) ==
    LET S == IF rows[id].batch = NoBatch THEN {id} ELSE Members(rows[id].batch) IN
    /\ create[id] \notin {"none", "done"}
    /\ ReturnAll(S, "none")
    /\ Fault
    /\ UNCHANGED <<rows, queueVars>>

(***************************************************************************)
(* Cancel: a read, a check, and an UPDATE that checks again.  A read that  *)
(* fails or finds another status answers the client and changes nothing.   *)
(***************************************************************************)
CancelRead(id) ==
    /\ cancel[id] = "idle"
    /\ Stored(id)
    /\ IsCancellable(rows[id].status)
    /\ cancel' = [cancel EXCEPT ![id] = "checked"]
    /\ UNCHANGED <<rows, queueVars, faultVars, createVars, cancelled>>

CancelUpdate(id) ==
    /\ cancel[id] = "checked"
    /\ cancel' = [cancel EXCEPT ![id] = "idle"]
    /\ \/ Cancel(id) /\ cancelled' = cancelled \cup {id} /\ NoFault
       \/ /\ ~IsCancellable(rows[id].status)
          /\ UNCHANGED <<rows, cancelled>> /\ NoFault
       \/ (Cancel(id) \/ UNCHANGED rows) /\ UNCHANGED cancelled /\ Fault
    /\ UNCHANGED <<queueVars, createVars>>
=============================================================================
