----------------------------- MODULE PipelineLife -----------------------------
(***************************************************************************)
(* The pipeline seen as the life of each of its notifications.             *)
(***************************************************************************)
EXTENDS Pipeline

(* Where the row, the topics and the handlers together say it is.          *)
Place(id) ==
    CASE Live(id)                      -> "underway"
      [] Published(id) /\ ~Live(id)    -> "settled"
      [] OutOfTheWay(id)               -> "withdrawn"
      [] Stored(id) /\ ~Published(id) /\ ~OutOfTheWay(id) -> "stored"
      [] OTHER                         -> "nowhere"

Outcome(id) ==
    {o \in {"sent", "deadLettered", "reported"} :
        \/ o = "sent" /\ sent[id] > 0
        \/ o = "deadLettered" /\ id \in dlq
        \/ o = "reported" /\ id \in errored}

Life(id) == INSTANCE NotificationLife WITH
    place   <- Place(id),
    due     <- rows[id].scheduledAt # "future",
    answer  <- reply[id],
    outcome <- Outcome(id)

(* Every behaviour of the pipeline is, for every notification, one of      *)
(* NotificationLife: requests, rows, topics, consumers, schedulers and     *)
(* whatever fails among them add no step that it does not allow.           *)
ImplementsLife ==
    /\ \A id \in Ids : Life(id)!Init
    /\ [][\A id \in Ids : [Life(id)!Next]_(Life(id)!vars)]_vars
=============================================================================
