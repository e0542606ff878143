----------------------------- MODULE Repository -----------------------------
(***************************************************************************)
(* The notifications table and the statements of the PostgreSQL adapter.   *)
(* Each statement is one transaction, so each operator is one atomic       *)
(* change of rows.  Recipient, content, payload and timestamps do not      *)
(* influence what a statement does and are left out.                       *)
(*                                                                         *)
(* scheduled_at is kept as what the code asks of it: "none" (NULL),        *)
(* "future" (after now) or "due" (scheduled_at <= now).                    *)
(***************************************************************************)
EXTENDS Notification, Naturals

CONSTANTS Keys, NoKey,      \* idempotency keys; NoKey is the empty string
          Batches, NoBatch  \* batch UUIDs; NoBatch is the nil UUID

ASSUME NoKeyAssumption == NoKey \notin Keys
ASSUME NoBatchAssumption == NoBatch \notin Batches

VARIABLE rows

Schedules == {"none", "future", "due"}

Row == [status      : Statuses \cup {"absent"},
        retryCount  : Nat,
        scheduledAt : Schedules,
        key         : Keys \cup {NoKey},
        batch       : Batches \cup {NoBatch}]

RowsTypeOK == rows \in [Ids -> Row]

NewRow(at, k, b) == [status |-> "pending", retryCount |-> 0,
                     scheduledAt |-> at, key |-> k, batch |-> b]

RowsInit ==
    rows = [id \in Ids |-> [status |-> "absent", retryCount |-> 0,
                            scheduledAt |-> "none", key |-> NoKey, batch |-> NoBatch]]

Stored(id) == rows[id].status # "absent"

(* The unique index covers the keys that are neither NULL nor empty.       *)
KeyTaken(k) == k # NoKey /\ \E id \in Ids : Stored(id) /\ rows[id].key = k

Create(id, at, k) ==
    /\ ~KeyTaken(k)
    /\ rows' = [rows EXCEPT ![id] = NewRow(at, k, NoBatch)]

(* keyOf maps the batch's notifications to their keys.  The queued INSERTs *)
(* run in one implicit transaction: one duplicate undoes them all.         *)
BatchKeysFree(keyOf) ==
    /\ \A id \in DOMAIN keyOf : ~KeyTaken(keyOf[id])
    /\ \A i, j \in DOMAIN keyOf : keyOf[i] = keyOf[j] => i = j \/ keyOf[i] = NoKey

CreateBatch(b, keyOf) ==
    /\ BatchKeysFree(keyOf)
    /\ rows' = [id \in Ids |-> IF id \in DOMAIN keyOf
                               THEN NewRow("none", keyOf[id], b)
                               ELSE rows[id]]

(* No condition on the status the row has.                                 *)
UpdateStatus(id, status) == rows' = [rows EXCEPT ![id].status = status]

Cancel(id) ==
    /\ IsCancellable(rows[id].status)
    /\ rows' = [rows EXCEPT ![id].status = "cancelled"]

(* A slip to detect: the counter runs down.                                *)
DecrementRetry(id) == rows' = [rows EXCEPT ![id].retryCount = @ - 1]

IncrementRetry(id) == rows' = [rows EXCEPT ![id].retryCount = @ + 1]

(* Slips to detect: the time or the status is not asked for, or the wrong  *)
(* status is, or more statuses are.                                        *)
AllPending == {id \in Ids : rows[id].scheduledAt # "none" /\ rows[id].status = "pending"}
AllDue == {id \in Ids : rows[id].scheduledAt = "due"}
DueQueued == {id \in Ids : rows[id].scheduledAt = "due" /\ rows[id].status = "queued"}
DueCancellable == {id \in Ids : rows[id].scheduledAt = "due" /\ IsCancellable(rows[id].status)}

(* Read only: no lock is taken on the rows returned.                       *)
GetDueScheduled ==
    {id \in Ids : rows[id].scheduledAt = "due" /\ rows[id].status = "pending"}

(* NOW() passes scheduled_at.                                              *)
Elapse(id) ==
    /\ Stored(id)
    /\ rows[id].scheduledAt = "future"
    /\ rows' = [rows EXCEPT ![id].scheduledAt = "due"]
=============================================================================
