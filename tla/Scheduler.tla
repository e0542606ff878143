------------------------------ MODULE Scheduler ------------------------------
(***************************************************************************)
(* The scheduler goroutine of each worker replica.  Every tick it reads    *)
(* the due notifications and publishes them one by one.  due[w] is what is *)
(* left of the copies it read, marking[w] the one it has published and not *)
(* yet set to queued; both are empty between ticks.  A read that fails or  *)
(* returns nothing ends the tick and changes nothing.                      *)
(***************************************************************************)
EXTENDS Repository, MessageQueue, Faults

VARIABLES due, marking

schedulerVars == <<due, marking>>

Copies == [id : Ids, retryCount : Nat]

SchedulerTypeOK ==
    /\ due \in [Workers -> SUBSET Copies]
    /\ marking \in [Workers -> SUBSET Ids]

SchedulerInit ==
    /\ due = [w \in Workers |-> {}]
    /\ marking = [w \in Workers |-> {}]

SelectDue(w) ==
    /\ due[w] = {} /\ marking[w] = {}
    /\ GetDueScheduled # {}
    /\ due' = [due EXCEPT ![w] =
                  {[id |-> id, retryCount |-> rows[id].retryCount] : id \in GetDueScheduled}]
    /\ CallSucceeds(w)
    /\ UNCHANGED <<marking, rows, queueVars>>

PublishDue(w) ==
    /\ marking[w] = {}
    /\ \E n \in due[w] :
          /\ due' = [due EXCEPT ![w] = @ \ {n}]
          /\ \/ /\ Publish(n.id, n.retryCount)
                /\ marking' = [marking EXCEPT ![w] = {n.id}]
                /\ CallSucceeds(w)
             \/ /\ Publish(n.id, n.retryCount) \/ UNCHANGED log
                /\ UNCHANGED marking
                /\ CallFails(w)
    /\ UNCHANGED <<rows, dlq>>

(* Whatever became of the notification since it was published.             *)
MarkQueued(w) ==
    /\ \E id \in marking[w] :
          \/ UpdateStatus(id, "queued") /\ CallSucceeds(w)
          \/ (UpdateStatus(id, "queued") \/ UNCHANGED rows) /\ CallFails(w)
    /\ marking' = [marking EXCEPT ![w] = {}]
    /\ UNCHANGED <<due, queueVars>>

SchedulerStep(w) == SelectDue(w) \/ PublishDue(w) \/ MarkQueued(w)
=============================================================================
