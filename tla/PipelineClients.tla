--------------------------- MODULE PipelineClients ---------------------------
(***************************************************************************)
(* What a client that was answered 202 to a batch may rely on.             *)
(***************************************************************************)
EXTENDS PipelineLife

(* openapi.yaml, 202 of POST /notifications/batch: "Batch accepted".  Each *)
(* item of such a batch is in the end sent, dead-lettered, cancelled or    *)
(* the subject of a logged handler error, as a notification of its own     *)
(* would be (AcceptedResolved).  The exception is an item that is not in   *)
(* Kafka after a failure: CreateBatch goes on when a publish fails, and    *)
(* nothing looks for a pending row without a scheduled_at.                 *)
BatchResolved ==
    \A id \in Ids : reply[id] = "accepted" /\ rows[id].batch # NoBatch ~>
        \/ sent[id] > 0 \/ id \in dlq \/ rows[id].status = "cancelled" \/ id \in errored
        \/ faults > 0 /\ ~Published(id) /\ rows[id].scheduledAt = "none"
=============================================================================
