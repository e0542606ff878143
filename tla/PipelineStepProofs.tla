------------------------- MODULE PipelineStepProofs -------------------------
(***************************************************************************)
(* What one step of the pipeline may be, seen from one notification, and   *)
(* what follows for the promises made to its client: it is not early, an   *)
(* accepted one is kept, and a timely cancellation stays; and that such a  *)
(* step is one of NotificationLife.                                        *)
(***************************************************************************)
EXTENDS PipelineLife, PipelineProofs

(* A scheduler has published id and is about to mark it, or has a copy.    *)
Marked(id) == \E w \in Workers : id \in marking[w]
Picked(id) == Marked(id) \/ \E w \in Workers : \E n \in due[w] : n.id = id

SameRow(id)     == rows'[id] = rows[id]
SetStatus(id, s) == rows'[id] = [rows[id] EXCEPT !.status = s]
SameRequest(id) == create'[id] = create[id] /\ reply'[id] = reply[id]
SameQueue(id)   == Published(id)' <=> Published(id)
SameCopies(id)  == (Marked(id)' => Marked(id)) /\ (Picked(id)' => Picked(id))
Elsewhere(id)   == SameQueue(id) /\ SameCopies(id)

(***************************************************************************)
(* The steps                                                               *)
(***************************************************************************)
Untouched(id) == SameRow(id) /\ SameRequest(id) /\ Elsewhere(id)

(* The INSERT took effect, whatever the handler was told.                  *)
Inserted(id) ==
    /\ create[id] = "none"
    /\ rows'[id].status = "pending" /\ rows'[id].retryCount = 0
    /\ \/ create'[id] = "inserted" /\ reply'[id] = reply[id] /\ rows'[id].batch = NoBatch
       \/ /\ create'[id] = "batched" /\ reply'[id] = reply[id]
          /\ rows'[id].scheduledAt = "none" /\ rows'[id].batch # NoBatch
       \/ create'[id] = "done" /\ reply'[id] = "error"
    /\ Elsewhere(id)

Rejected(id) ==
    /\ create[id] = "none" /\ create'[id] = "done"
    /\ reply'[id] \in {"conflict", "error"}
    /\ SameRow(id) /\ Elsewhere(id)

LeftToScheduler(id) ==
    /\ create[id] = "inserted" /\ rows[id].scheduledAt = "future"
    /\ create'[id] = "done" /\ reply'[id] = "accepted"
    /\ SameRow(id) /\ Elsewhere(id)

Queued(id) ==
    /\ create[id] = "inserted" /\ rows[id].scheduledAt # "future"
    /\ SameRow(id) \/ SetStatus(id, "queued")
    /\ \/ create'[id] = "publish" /\ reply'[id] = reply[id]
       \/ create'[id] = "done" /\ reply'[id] = "error"
    /\ Elsewhere(id)

HandedOver(id) ==
    /\ \/ /\ create[id] = "publish"
          /\ \/ create'[id] = "done" /\ reply'[id] = "accepted" /\ Published(id)'
             \/ create'[id] = "rollback" /\ reply'[id] = reply[id]
       \/ /\ create[id] = "batched"
          /\ create'[id] \in {"mark", "settled"} /\ reply'[id] = reply[id]
    /\ Published(id) => Published(id)'
    /\ SameRow(id) /\ SameCopies(id)

RolledBack(id) ==
    /\ create[id] = "rollback" /\ create'[id] = "done" /\ reply'[id] = "error"
    /\ SameRow(id) \/ SetStatus(id, "pending")
    /\ Elsewhere(id)

BatchMarked(id) ==
    /\ create[id] = "mark" /\ create'[id] = "settled" /\ reply'[id] = reply[id]
    /\ SameRow(id) \/ SetStatus(id, "queued")
    /\ Elsewhere(id)

(* The batch's handler returns, or the process of a handler dies.          *)
Ended(id) ==
    /\ create[id] \notin {"none", "done"} /\ create'[id] = "done"
    /\ reply'[id] = "none" \/ (reply'[id] = "accepted" /\ rows[id].batch # NoBatch)
    /\ SameRow(id) /\ Elsewhere(id)

Withdrawn(id) ==
    /\ IsCancellable(rows[id].status) /\ SetStatus(id, "cancelled")
    /\ SameRequest(id) /\ Elsewhere(id)

(* A consumer that has a message of id in hand.  The steps that set the    *)
(* status are named for the status.                                        *)
HandledAt(id, step) ==
    \E w \in Workers, t \in Topics : At(w, t, step) /\ Current(w, t).id = id

Handled(id) ==
    /\ Published(id) /\ Published(id)'
    /\ \/ SameRow(id)
       \/ \E s \in {"processing", "delivered", "failed"} : HandledAt(id, s) /\ SetStatus(id, s)
       \/ /\ HandledAt(id, "increment")
          /\ rows'[id] = [rows[id] EXCEPT !.retryCount = @ + 1]
    /\ SameRequest(id) /\ SameCopies(id)

Selected(id) ==
    /\ id \in GetDueScheduled
    /\ Marked(id)' => Marked(id)
    /\ SameRow(id) /\ SameRequest(id) /\ SameQueue(id)

SentByScheduler(id) ==
    /\ Picked(id)
    /\ Marked(id)' => Marked(id) \/ Published(id)'
    /\ Published(id) => Published(id)'
    /\ SameRow(id) /\ SameRequest(id)

MarkedByScheduler(id) ==
    /\ Marked(id) /\ SetStatus(id, "queued")
    /\ SameRequest(id) /\ Elsewhere(id)

BecomesDue(id) ==
    /\ rows[id].scheduledAt = "future"
    /\ rows'[id] = [rows[id] EXCEPT !.scheduledAt = "due"]
    /\ SameRequest(id) /\ Elsewhere(id)

Effect(id) ==
    \/ Untouched(id) \/ Inserted(id) \/ Rejected(id) \/ LeftToScheduler(id) \/ Queued(id)
    \/ HandedOver(id) \/ RolledBack(id) \/ BatchMarked(id) \/ Ended(id) \/ Withdrawn(id)
    \/ Handled(id) \/ Selected(id) \/ SentByScheduler(id) \/ MarkedByScheduler(id)
    \/ BecomesDue(id)

(***************************************************************************)
(* Rows, requests, topics and copies, one at a time                        *)
(***************************************************************************)
LEMMA StatusRow ==
    ASSUME RowsTypeOK, NEW id \in Ids, NEW s, UpdateStatus(id, s)
    PROVE  SetStatus(id, s) /\ \A o \in Ids : o # id => SameRow(o)
BY DEF RowsTypeOK, UpdateStatus, SetStatus, SameRow

LEMMA CancelRow ==
    ASSUME RowsTypeOK, NEW id \in Ids, Cancel(id)
    PROVE  /\ IsCancellable(rows[id].status) /\ SetStatus(id, "cancelled")
           /\ \A o \in Ids : o # id => SameRow(o)
BY DEF RowsTypeOK, Cancel, SetStatus, SameRow

LEMMA CreateRow ==
    ASSUME RowsTypeOK, NEW id \in Ids, NEW at, NEW k, Create(id, at, k)
    PROVE  /\ rows'[id] = NewRow(at, k, NoBatch)
           /\ rows'[id].status = "pending" /\ rows'[id].batch = NoBatch
           /\ rows'[id].retryCount = 0
           /\ \A o \in Ids : o # id => SameRow(o)
BY DEF RowsTypeOK, Create, NewRow, SameRow

LEMMA BatchRows ==
    ASSUME RowsTypeOK, NEW b, NEW keyOf, CreateBatch(b, keyOf)
    PROVE  \A o \in Ids : IF o \in DOMAIN keyOf
                          THEN /\ rows'[o].status = "pending" /\ rows'[o].scheduledAt = "none"
                               /\ rows'[o].retryCount = 0 /\ rows'[o].batch = b
                          ELSE SameRow(o)
BY DEF RowsTypeOK, CreateBatch, NewRow, SameRow

LEMMA ContinueRequest ==
    ASSUME ServiceTypeOK, NEW id \in Ids, NEW step, Continue(id, step)
    PROVE  /\ create'[id] = step /\ reply'[id] = reply[id]
           /\ \A o \in Ids : o # id => SameRequest(o)
BY DEF ServiceTypeOK, Continue, SameRequest

LEMMA ReturnRequests ==
    ASSUME ServiceTypeOK, NEW S, NEW answer, ReturnAll(S, answer)
    PROVE  \A o \in Ids : IF o \in S THEN create'[o] = "done" /\ reply'[o] = answer
                                     ELSE SameRequest(o)
BY DEF ServiceTypeOK, ReturnAll, SameRequest

LEMMA ReturnRequest ==
    ASSUME ServiceTypeOK, NEW id \in Ids, NEW answer, Return(id, answer)
    PROVE  /\ create'[id] = "done" /\ reply'[id] = answer
           /\ \A o \in Ids : o # id => SameRequest(o)
BY ReturnRequests DEF Return

LEMMA PublishedStays ==
    ASSUME Grows, NEW id, Published(id)
    PROVE  Published(id)'
BY DEF Grows, SameMessage, Published

(* Only id is published by publishing id.                                  *)
LEMMA PublishesOne ==
    ASSUME LogOK, NEW t \in Topics, NEW id \in Ids, NEW n \in Nat, WriteMessage(t, id, n)
    PROVE  Published(id)' /\ \A o \in Ids : o # id => SameQueue(o)
<1> DEFINE m == [id |-> id, retryCount |-> n, state |-> "ready"]
<1>1. /\ \A u \in Topics : u # t => log'[u] = log[u]
      /\ log'[t] = Append(log[t], m)
      /\ Grows
  BY AppendMessage
<1>2. log[t] \in Seq(Message)
  BY DEF LogOK
<1>3. /\ DOMAIN log'[t] = 1 .. Len(log[t]) + 1 /\ Len(log[t]) \in Nat
      /\ DOMAIN log[t] = 1 .. Len(log[t])
      /\ log'[t][Len(log[t]) + 1] = m
      /\ \A i \in DOMAIN log[t] : log'[t][i] = log[t][i]
  BY <1>1, <1>2
<1>4. Published(id)'
  <2>1. Len(log[t]) + 1 \in DOMAIN log'[t] /\ log'[t][Len(log[t]) + 1].id = id
    BY <1>3
  <2> QED
    BY <2>1 DEF Published
<1>5. ASSUME NEW o \in Ids, o # id, Published(o)'
      PROVE  Published(o)
  <2>1. PICK u \in Topics : \E i \in DOMAIN log'[u] : log'[u][i].id = o
    BY <1>5 DEF Published
  <2> PICK i \in DOMAIN log'[u] : log'[u][i].id = o
    BY <2>1
  <2>2. CASE u = t
    <3>1. i # Len(log[t]) + 1
      BY <1>3, <1>5, <2>1, <2>2
    <3>2. i \in DOMAIN log[t] /\ log[t][i].id = o
      BY <1>3, <2>1, <2>2, <3>1
    <3> QED
      BY <2>2, <3>2 DEF Published
  <2>3. CASE u # t
    BY <1>1, <2>1, <2>3 DEF Published
  <2> QED
    BY <2>2, <2>3
<1> QED
  BY <1>1, <1>4, <1>5, PublishedStays DEF SameQueue

LEMMA PublishOne ==
    ASSUME LogOK, NEW id \in Ids, NEW n \in Nat, Publish(id, n)
    PROVE  Published(id)' /\ \A o \in Ids : o # id => SameQueue(o)
BY PublishesOne, TopicOfAssumption DEF Publish, Topics

LEMMA NothingPublished ==
    ASSUME Grows, \A t \in Topics : DOMAIN log'[t] = DOMAIN log[t]
    PROVE  \A o \in Ids : SameQueue(o)
BY DEF Grows, SameMessage, Published, SameQueue

LEMMA LogUntouched ==
    ASSUME UNCHANGED log
    PROVE  \A o \in Ids : SameQueue(o)
BY DEF Published, SameQueue

LEMMA CopiesUntouched ==
    ASSUME UNCHANGED schedulerVars
    PROVE  \A o \in Ids : SameCopies(o)
BY DEF schedulerVars, Marked, Picked, SameCopies

LEMMA QuietEffect ==
    ASSUME UNCHANGED <<rows, create, reply>>, \A o \in Ids : Elsewhere(o)
    PROVE  \A o \in Ids : Effect(o)
BY DEF Effect, Untouched, SameRow, SameRequest

(***************************************************************************)
(* The steps of the requests                                               *)
(***************************************************************************)
LEMMA InsertEffect ==
    ASSUME TypeInv, NEW id \in Ids, NEW at \in Schedules, NEW k \in Keys \cup {NoKey},
           CreateInsert(id, at, k), UNCHANGED schedulerVars
    PROVE  \A o \in Ids : Effect(o)
<1>1. RowsTypeOK /\ ServiceTypeOK
  BY DEF TypeInv, TypeOK
<1>2. \A o \in Ids : Elsewhere(o)
  BY LogUntouched, CopiesUntouched DEF CreateInsert, queueVars, Elsewhere
<1>3. create[id] = "none"
  BY DEF CreateInsert
<1>4. \A o \in Ids : o # id => SameRow(o)
  <2>1. Create(id, at, k) \/ UNCHANGED rows
    BY DEF CreateInsert
  <2> QED
    BY <1>1, <2>1, CreateRow DEF SameRow
<1>5. \A o \in Ids : o # id => SameRequest(o)
  BY <1>1, ContinueRequest, ReturnRequest DEF CreateInsert
<1>6. \A o \in Ids : o # id => Untouched(o)
  BY <1>2, <1>4, <1>5 DEF Untouched
<1>7. CASE Create(id, at, k)
  <2>1. rows'[id].status = "pending" /\ rows'[id].batch = NoBatch /\ rows'[id].retryCount = 0
    BY <1>1, <1>7, CreateRow
  <2>2. \/ create'[id] = "inserted" /\ reply'[id] = reply[id]
        \/ create'[id] = "done" /\ reply'[id] = "error"
    BY <1>1, <1>7, ContinueRequest, ReturnRequest DEF CreateInsert, Create
  <2> QED
    BY <1>2, <1>3, <1>6, <2>1, <2>2 DEF Inserted, Effect
<1>8. CASE UNCHANGED rows /\ (Return(id, "conflict") \/ Return(id, "error"))
  <2>1. Rejected(id)
    BY <1>1, <1>2, <1>3, <1>8, ReturnRequest DEF Rejected, SameRow
  <2> QED
    BY <1>6, <2>1 DEF Effect
<1> QED
  BY <1>7, <1>8 DEF CreateInsert

LEMMA CreateEffect ==
    ASSUME TypeInv, NEW id \in Ids, CreateStep(id), UNCHANGED schedulerVars
    PROVE  \A o \in Ids : Effect(o)
<1>1. RowsTypeOK /\ ServiceTypeOK /\ LogOK
  BY DEF TypeInv, TypeOK, QueueTypeOK, LogOK
<1>2. \A o \in Ids : SameCopies(o)
  BY CopiesUntouched
<1>3. CASE CreateQueue(id)
  <2>1. \A o \in Ids : Elsewhere(o)
    BY <1>2, <1>3, LogUntouched DEF CreateQueue, queueVars, Elsewhere
  <2>2. /\ SameRow(id) \/ SetStatus(id, "queued")
        /\ \A o \in Ids : o # id => SameRow(o)
    BY <1>1, <1>3, StatusRow DEF CreateQueue, SameRow
  <2>3. /\ \/ create'[id] = "publish" /\ reply'[id] = reply[id]
           \/ create'[id] = "done"
        /\ \A o \in Ids : o # id => SameRequest(o)
    BY <1>1, <1>3, ContinueRequest, ReturnRequest DEF CreateQueue
  <2>4. LeftToScheduler(id) \/ Queued(id)
    <3>1. CASE rows[id].scheduledAt = "future"
      BY <1>1, <1>3, <2>1, <3>1, ReturnRequest DEF CreateQueue, LeftToScheduler, SameRow
    <3>2. CASE rows[id].scheduledAt # "future"
      <4>1. \/ create'[id] = "publish" /\ reply'[id] = reply[id]
            \/ create'[id] = "done" /\ reply'[id] = "error"
        BY <1>1, <1>3, <3>2, ContinueRequest, ReturnRequest DEF CreateQueue
      <4> QED
        BY <1>3, <2>1, <2>2, <3>2, <4>1 DEF CreateQueue, Queued
    <3> QED
      BY <3>1, <3>2
  <2> QED
    BY <2>1, <2>2, <2>3, <2>4 DEF Untouched, Effect
<1>4. CASE CreatePublish(id)
  <2>1. \A o \in Ids : SameRow(o)
    BY <1>4 DEF CreatePublish, SameRow
  <2>2. Grows
    BY <1>1, <1>4, PublishType DEF CreatePublish
  <2>3. \A o \in Ids : o # id => SameRequest(o) /\ SameQueue(o)
    BY <1>1, <1>4, PublishOne, LogUntouched, ContinueRequest, ReturnRequest DEF CreatePublish
  <2>4. \/ create'[id] = "done" /\ reply'[id] = "accepted" /\ Published(id)'
        \/ create'[id] = "rollback" /\ reply'[id] = reply[id]
    BY <1>1, <1>4, PublishOne, ContinueRequest, ReturnRequest DEF CreatePublish
  <2>5. HandedOver(id)
    BY <1>2, <1>4, <2>1, <2>2, <2>4, PublishedStays DEF CreatePublish, HandedOver
  <2> QED
    BY <1>2, <2>1, <2>3, <2>5 DEF Untouched, Elsewhere, Effect
<1>5. CASE CreateRollback(id)
  <2>1. \A o \in Ids : Elsewhere(o)
    BY <1>2, <1>5, LogUntouched DEF CreateRollback, queueVars, Elsewhere
  <2>2. /\ SameRow(id) \/ SetStatus(id, "pending")
        /\ \A o \in Ids : o # id => SameRow(o)
    BY <1>1, <1>5, StatusRow DEF CreateRollback, SameRow
  <2>3. /\ create'[id] = "done" /\ reply'[id] = "error"
        /\ \A o \in Ids : o # id => SameRequest(o)
    BY <1>1, <1>5, ReturnRequest DEF CreateRollback
  <2>4. RolledBack(id)
    BY <1>5, <2>1, <2>2, <2>3 DEF CreateRollback, RolledBack
  <2> QED
    BY <2>1, <2>2, <2>3, <2>4 DEF Untouched, Effect
<1> QED
  BY <1>3, <1>4, <1>5 DEF CreateStep

LEMMA BatchInsertEffect ==
    ASSUME TypeInv, NEW b \in Batches, NEW S \in SUBSET Ids,
           NEW keyOf \in [S -> Keys \cup {NoKey}], CreateBatchInsert(b, keyOf),
           UNCHANGED schedulerVars
    PROVE  \A o \in Ids : Effect(o)
<1>1. RowsTypeOK /\ ServiceTypeOK /\ DOMAIN keyOf = S
  BY DEF TypeInv, TypeOK
<1>2. \A o \in Ids : Elsewhere(o)
  BY LogUntouched, CopiesUntouched DEF CreateBatchInsert, queueVars, Elsewhere
<1>3. \A o \in S : create[o] = "none"
  BY <1>1 DEF CreateBatchInsert
<1>4. /\ CreateBatch(b, keyOf) \/ UNCHANGED rows
      /\ \/ /\ create' = [id \in Ids |-> IF id \in S THEN "batched" ELSE create[id]]
            /\ reply' = reply /\ CreateBatch(b, keyOf)
         \/ UNCHANGED rows /\ ReturnAll(S, "conflict")
         \/ ReturnAll(S, "error")
  BY <1>1 DEF CreateBatchInsert
<1>5. ASSUME NEW o \in Ids, o \notin S
      PROVE  Untouched(o)
  <2>1. SameRow(o)
    BY <1>1, <1>4, <1>5, BatchRows DEF SameRow
  <2>2. SameRequest(o)
    BY <1>1, <1>4, <1>5, ReturnRequests DEF SameRequest
  <2> QED
    BY <1>2, <2>1, <2>2 DEF Untouched
<1>6. ASSUME NEW o \in Ids, o \in S
      PROVE  Inserted(o) \/ Rejected(o)
  <2>1. CASE CreateBatch(b, keyOf)
    <3>1. /\ rows'[o].status = "pending" /\ rows'[o].scheduledAt = "none"
          /\ rows'[o].retryCount = 0 /\ rows'[o].batch # NoBatch
      BY <1>1, <1>6, <2>1, BatchRows, NoBatchAssumption
    <3>2. CASE create' = [id \in Ids |-> IF id \in S THEN "batched" ELSE create[id]]
               /\ reply' = reply
      BY <1>2, <1>3, <1>6, <3>1, <3>2 DEF Inserted
    <3>3. CASE ReturnAll(S, "error")
      BY <1>1, <1>2, <1>3, <1>6, <3>1, <3>3, ReturnRequests DEF Inserted
    <3>4. CASE UNCHANGED rows /\ ReturnAll(S, "conflict")
      BY <1>1, <1>2, <1>3, <1>6, <3>4, ReturnRequests DEF Rejected, SameRow
    <3> QED
      BY <1>4, <3>2, <3>3, <3>4
  <2>2. CASE UNCHANGED rows /\ (ReturnAll(S, "conflict") \/ ReturnAll(S, "error"))
    BY <1>1, <1>2, <1>3, <1>6, <2>2, ReturnRequests DEF Rejected, SameRow
  <2> QED
    BY <1>4, <2>1, <2>2
<1> QED
  BY <1>5, <1>6 DEF Effect

LEMMA BatchEffect ==
    ASSUME TypeInv, BatchStep, UNCHANGED schedulerVars
    PROVE  \A o \in Ids : Effect(o)
<1>1. RowsTypeOK /\ ServiceTypeOK /\ LogOK
  BY DEF TypeInv, TypeOK, QueueTypeOK, LogOK
<1>2. \A o \in Ids : SameCopies(o)
  BY CopiesUntouched
<1>3. ASSUME NEW id \in Ids, BatchPublish(id)
      PROVE  \A o \in Ids : Effect(o)
  <2>1. \A o \in Ids : SameRow(o)
    BY <1>3 DEF BatchPublish, SameRow
  <2>2. Grows
    BY <1>1, <1>3, PublishType DEF BatchPublish
  <2>3. \A o \in Ids : o # id => SameRequest(o) /\ SameQueue(o)
    BY <1>1, <1>3, PublishOne, LogUntouched, ContinueRequest DEF BatchPublish
  <2>4. create'[id] \in {"mark", "settled"} /\ reply'[id] = reply[id]
    BY <1>1, <1>3, ContinueRequest DEF BatchPublish
  <2>5. HandedOver(id)
    BY <1>2, <1>3, <2>1, <2>2, <2>4, PublishedStays DEF BatchPublish, HandedOver
  <2> QED
    BY <1>2, <2>1, <2>3, <2>5 DEF Untouched, Elsewhere, Effect
<1>4. ASSUME NEW id \in Ids, BatchMark(id)
      PROVE  \A o \in Ids : Effect(o)
  <2>1. \A o \in Ids : Elsewhere(o)
    BY <1>2, <1>4, LogUntouched DEF BatchMark, queueVars, Elsewhere
  <2>2. /\ SameRow(id) \/ SetStatus(id, "queued")
        /\ \A o \in Ids : o # id => SameRow(o)
    BY <1>1, <1>4, StatusRow DEF BatchMark, SameRow
  <2>3. /\ create'[id] = "settled" /\ reply'[id] = reply[id]
        /\ \A o \in Ids : o # id => SameRequest(o)
    BY <1>1, <1>4, ContinueRequest DEF BatchMark
  <2>4. BatchMarked(id)
    BY <1>4, <2>1, <2>2, <2>3 DEF BatchMark, BatchMarked
  <2> QED
    BY <2>1, <2>2, <2>3, <2>4 DEF Untouched, Effect
<1>5. ASSUME NEW b \in Batches, BatchReturn(b)
      PROVE  \A o \in Ids : Effect(o)
  <2>1. \A o \in Ids : Elsewhere(o) /\ SameRow(o)
    BY <1>2, <1>5, LogUntouched DEF BatchReturn, queueVars, Elsewhere, SameRow
  <2>2. \A o \in Ids : o \notin Members(b) => Untouched(o)
    BY <1>1, <1>5, <2>1, ReturnRequests DEF BatchReturn, Untouched
  <2>3. \A o \in Members(b) : Ended(o)
    BY <1>1, <1>5, <2>1, ReturnRequests, NoBatchAssumption DEF BatchReturn, Ended, Members
  <2> QED
    BY <2>2, <2>3 DEF Effect
<1> QED
  BY <1>3, <1>4, <1>5 DEF BatchStep

LEMMA CancelEffect ==
    ASSUME TypeInv, NEW id \in Ids, CancelRead(id) \/ CancelUpdate(id),
           UNCHANGED schedulerVars
    PROVE  \A o \in Ids : Effect(o)
<1>1. RowsTypeOK
  BY DEF TypeInv, TypeOK
<1>2. \A o \in Ids : Elsewhere(o) /\ SameRequest(o)
  BY LogUntouched, CopiesUntouched
     DEF CancelRead, CancelUpdate, queueVars, createVars, Elsewhere, SameRequest
<1>3. Cancel(id) \/ UNCHANGED rows
  BY DEF CancelRead, CancelUpdate
<1>4. Withdrawn(id) \/ SameRow(id)
  BY <1>1, <1>2, <1>3, CancelRow DEF Withdrawn, SameRow
<1>5. \A o \in Ids : o # id => SameRow(o)
  BY <1>1, <1>3, CancelRow DEF SameRow
<1> QED
  BY <1>2, <1>4, <1>5 DEF Untouched, Effect

(* The members of a batch share a handler: see BatchInv below.             *)
LEMMA DiesEffect ==
    ASSUME TypeInv, NEW id \in Ids, RequestDies(id), UNCHANGED schedulerVars,
           rows[id].batch # NoBatch =>
               \A o \in Members(rows[id].batch) : create[o] \notin {"none", "done"}
    PROVE  \A o \in Ids : Effect(o)
<1> DEFINE S == IF rows[id].batch = NoBatch THEN {id} ELSE Members(rows[id].batch)
<1>1. ServiceTypeOK
  BY DEF TypeInv, TypeOK
<1>2. \A o \in Ids : Elsewhere(o) /\ SameRow(o)
  BY LogUntouched, CopiesUntouched DEF RequestDies, queueVars, Elsewhere, SameRow
<1>3. ReturnAll(S, "none") /\ \A o \in S : create[o] \notin {"none", "done"}
  BY DEF RequestDies
<1> HIDE DEF S
<1>4. \A o \in Ids : IF o \in S THEN Ended(o) ELSE Untouched(o)
  BY <1>1, <1>2, <1>3, ReturnRequests DEF Ended, Untouched
<1> QED
  BY <1>4 DEF Effect

(***************************************************************************)
(* The steps of the workers and of the environment                         *)
(***************************************************************************)
LEMMA RequestsUntouched ==
    ASSUME UNCHANGED serviceVars
    PROVE  \A o \in Ids : SameRequest(o)
BY DEF serviceVars, createVars, SameRequest

LEMMA CurrentPublished ==
    ASSUME TypeInv, NEW w \in Workers, NEW t \in Topics, Holding(w, t)
    PROVE  Current(w, t).id \in Ids /\ Published(Current(w, t).id)
BY InHand DEF Current, Published

LEMMA ConsumerEffect ==
    ASSUME TypeInv, NEW w \in Workers, NEW t \in Topics, ConsumerStep(w, t),
           UNCHANGED <<serviceVars, schedulerVars>>
    PROVE  \A o \in Ids : Effect(o)
<1>1. \A o \in Ids : SameRequest(o) /\ SameCopies(o)
  BY RequestsUntouched, CopiesUntouched
<1>2. RowsTypeOK /\ LogOK
  BY DEF TypeInv, TypeOK, QueueTypeOK, LogOK
<1>3. \A step : At(w, t, step) /\ step \notin {"fetch", "stopped"} => Holding(w, t)
  BY DEF At, Holding
<1>4. ASSUME UNCHANGED rows, \A o \in Ids : SameQueue(o)
      PROVE  \A o \in Ids : Effect(o)
  BY <1>1, <1>4 DEF Effect, Untouched, SameRow, Elsewhere
<1>5. CASE UNCHANGED rows /\ UNCHANGED log
  BY <1>4, <1>5, LogUntouched
<1>6. CASE Fetch(w, t)
  <2>1. \A o \in Ids : SameQueue(o)
    BY <1>2, <1>6, Fetching, NothingPublished DEF Fetch
  <2> QED
    BY <1>4, <1>6, <2>1 DEF Fetch
<1>7. CASE Commit(w, t)
  <2>1. consumer[w][t].slot \in DOMAIN log[t]
    BY <1>3, <1>7, InHand DEF Commit
  <2>2. \A o \in Ids : SameQueue(o)
    BY <1>2, <1>7, <2>1, Committing, NothingPublished DEF Commit
  <2> QED
    BY <1>4, <1>7, <2>2 DEF Commit
<1>8. CASE MarkProcessing(w, t) \/ MarkDelivered(w, t) \/ MarkFailed(w, t) \/ Increment(w, t)
  <2>1. PICK id \in Ids : id = Current(w, t).id /\ Published(id)
    BY <1>3, <1>8, CurrentPublished DEF MarkProcessing, MarkDelivered, MarkFailed, Increment
  <2>2. \A o \in Ids : SameQueue(o)
    BY <1>8, LogUntouched DEF MarkProcessing, MarkDelivered, MarkFailed, Increment, queueVars
  <2>3. \/ \E s \in {"processing", "delivered", "failed"} : At(w, t, s) /\ UpdateStatus(id, s)
        \/ IncrementRetry(id) /\ At(w, t, "increment")
        \/ UNCHANGED rows
    BY <1>8, <2>1
       DEF MarkProcessing, MarkDelivered, MarkFailed, Increment, TryUpdateStatus
  <2>4. /\ \/ \E s \in {"processing", "delivered", "failed"} : At(w, t, s) /\ SetStatus(id, s)
           \/ /\ At(w, t, "increment")
              /\ rows'[id] = [rows[id] EXCEPT !.retryCount = @ + 1]
           \/ SameRow(id)
        /\ \A o \in Ids : o # id => SameRow(o)
    <3>1. CASE \E s \in {"processing", "delivered", "failed"} : At(w, t, s) /\ UpdateStatus(id, s)
      BY <1>2, <3>1, StatusRow
    <3>2. CASE (IncrementRetry(id) /\ At(w, t, "increment")) \/ UNCHANGED rows
      BY <1>2, <3>2 DEF IncrementRetry, RowsTypeOK, SameRow
    <3> QED
      BY <2>3, <3>1, <3>2
  <2>5. Handled(id)
    BY <1>1, <2>1, <2>2, <2>4 DEF Handled, HandledAt, SameQueue
  <2> QED
    BY <1>1, <2>2, <2>4, <2>5 DEF Untouched, Elsewhere, Effect
<1>9. CASE ScheduleRetry(w, t)
  <2>1. PICK id \in Ids : id = Current(w, t).id /\ Published(id)
    BY <1>3, <1>9, CurrentPublished DEF ScheduleRetry
  <2>2. Attempts(w, t) \in Nat
    BY <1>3, <1>9, InHand DEF ScheduleRetry
  <2>3. PublishRetry(id, Attempts(w, t)) \/ UNCHANGED log
    BY <1>9, <2>1 DEF ScheduleRetry
  <2>4. PICK n \in Nat : PublishRetry(id, n) \/ UNCHANGED log
    BY <2>2, <2>3
  <2>5. Published(id)' /\ \A o \in Ids : o # id => SameQueue(o)
    BY <1>2, <2>1, <2>4, PublishesOne, LogUntouched DEF PublishRetry, Topics, SameQueue
  <2>6. \A o \in Ids : SameRow(o)
    BY <1>9 DEF ScheduleRetry, SameRow
  <2> QED
    BY <1>1, <2>1, <2>5, <2>6 DEF Handled, Untouched, Elsewhere, Effect
<1> QED
  BY <1>5, <1>6, <1>7, <1>8, <1>9
     DEF ConsumerStep, StopConsumer, RetryAfter, RateLimit, Send, DeadLetter, queueVars

LEMMA SchedulerEffect ==
    ASSUME TypeInv, NEW w \in Workers, SchedulerStep(w), UNCHANGED serviceVars
    PROVE  \A o \in Ids : Effect(o)
<1>1. \A o \in Ids : SameRequest(o)
  BY RequestsUntouched
<1>2. RowsTypeOK /\ LogOK /\ SchedulerTypeOK
  BY DEF TypeInv, TypeOK, QueueTypeOK, LogOK
<1>3. CASE SelectDue(w)
  <2>1. \A o \in Ids : SameRow(o) /\ SameQueue(o) /\ (Marked(o)' => Marked(o))
    BY <1>3, LogUntouched DEF SelectDue, queueVars, SameRow, Marked
  <2>2. ASSUME NEW o \in Ids, o \notin GetDueScheduled, Picked(o)'
        PROVE  Picked(o)
    <3>1. CASE Marked(o)'
      BY <2>1, <3>1 DEF Picked
    <3>2. ASSUME NEW v \in Workers, NEW n \in due'[v], n.id = o
          PROVE  Picked(o)
      <4>1. CASE v = w
        BY <1>2, <1>3, <2>2, <3>2, <4>1 DEF SelectDue, SchedulerTypeOK
      <4>2. CASE v # w
        BY <1>2, <1>3, <3>2, <4>2 DEF SelectDue, SchedulerTypeOK, Picked
      <4> QED
        BY <4>1, <4>2
    <3> QED
      BY <2>2, <3>1, <3>2 DEF Picked
  <2> QED
    BY <1>1, <2>1, <2>2 DEF Selected, Untouched, Elsewhere, SameCopies, Effect
<1>4. CASE PublishDue(w)
  <2>1. PICK n \in due[w] :
           /\ due' = [due EXCEPT ![w] = @ \ {n}]
           /\ \/ Publish(n.id, n.retryCount) /\ marking' = [marking EXCEPT ![w] = {n.id}]
              \/ (Publish(n.id, n.retryCount) \/ UNCHANGED log) /\ UNCHANGED marking
    BY <1>4 DEF PublishDue
  <2>2. n.id \in Ids /\ n.retryCount \in Nat /\ Picked(n.id)
    BY <1>2 DEF SchedulerTypeOK, Copies, Picked
  <2>3. \A o \in Ids : SameRow(o)
    BY <1>4 DEF PublishDue, SameRow
  <2>4. Grows
    BY <1>2, <2>1, <2>2, PublishType
  <2>5. \A o \in Ids : o # n.id => SameQueue(o)
    BY <1>2, <2>1, <2>2, PublishOne, LogUntouched
  <2>6. \A v \in Workers : due'[v] \subseteq due[v]
    BY <1>2, <2>1 DEF SchedulerTypeOK
  <2>7. \A o \in Ids : o # n.id /\ Marked(o)' => Marked(o)
    BY <1>2, <2>1 DEF SchedulerTypeOK, Marked
  <2>8. \A o \in Ids : o # n.id => SameCopies(o)
    BY <2>6, <2>7 DEF SameCopies, Picked
  <2>9. Marked(n.id)' => Marked(n.id) \/ Published(n.id)'
    <3>1. CASE UNCHANGED marking
      BY <3>1 DEF Marked
    <3>2. CASE Publish(n.id, n.retryCount)
      BY <1>2, <2>2, <3>2, PublishOne
    <3> QED
      BY <2>1, <3>1, <3>2
  <2>10. SentByScheduler(n.id)
    BY <1>1, <2>2, <2>3, <2>4, <2>9, PublishedStays DEF SentByScheduler
  <2> QED
    BY <1>1, <2>3, <2>5, <2>8, <2>10 DEF Untouched, Elsewhere, Effect
<1>5. CASE MarkQueued(w)
  <2>1. PICK id \in marking[w] : UpdateStatus(id, "queued") \/ UNCHANGED rows
    BY <1>5 DEF MarkQueued
  <2>2. id \in Ids /\ Marked(id)
    BY <1>2 DEF SchedulerTypeOK, Marked
  <2>3. \A o \in Ids : SameQueue(o)
    BY <1>5, LogUntouched DEF MarkQueued, queueVars
  <2>4. \A o \in Ids : SameCopies(o)
    <3>1. due' = due /\ \A v \in Workers : marking'[v] \subseteq marking[v]
      BY <1>2, <1>5 DEF MarkQueued, SchedulerTypeOK
    <3> QED
      BY <3>1 DEF SameCopies, Marked, Picked
  <2>5. /\ SetStatus(id, "queued") \/ SameRow(id)
        /\ \A o \in Ids : o # id => SameRow(o)
    BY <1>2, <2>1, <2>2, StatusRow DEF SameRow
  <2> QED
    BY <1>1, <2>2, <2>3, <2>4, <2>5 DEF MarkedByScheduler, Untouched, Elsewhere, Effect
<1> QED
  BY <1>3, <1>4, <1>5 DEF SchedulerStep

LEMMA EnvironmentEffect ==
    ASSUME TypeInv,
           \/ \E w \in Workers : Restart(w)
           \/ \E w \in Workers :
                 Sigterm(w) /\ UNCHANGED <<rows, queueVars, serviceVars, workerVars, schedulerVars>>
           \/ Rebalance(MainTopics) \/ Rebalance({RetryTopic})
           \/ \E id \in Ids : TimePasses(id)
           \/ UNCHANGED vars
    PROVE  \A o \in Ids : Effect(o)
<1>1. RowsTypeOK /\ LogOK /\ SchedulerTypeOK
  BY DEF TypeInv, TypeOK, QueueTypeOK, LogOK
<1>2. \A o \in Ids : SameRequest(o)
  BY RequestsUntouched DEF Restart, Rebalance, TimePasses, vars
<1>3. ASSUME UNCHANGED rows, \A o \in Ids : Elsewhere(o)
      PROVE  \A o \in Ids : Effect(o)
  BY <1>2, <1>3 DEF Effect, Untouched, SameRow
<1>4. ASSUME NEW w \in Workers, Restart(w)
      PROVE  \A o \in Ids : Effect(o)
  <2>1. \A o \in Ids : SameQueue(o)
    BY <1>1, <1>4, Redelivering, NothingPublished DEF Restart
  <2>2. \A v \in Workers : due'[v] \subseteq due[v] /\ marking'[v] \subseteq marking[v]
    BY <1>1, <1>4 DEF Restart, SchedulerTypeOK
  <2>3. \A o \in Ids : SameCopies(o)
    BY <2>2 DEF SameCopies, Marked, Picked
  <2> QED
    BY <1>3, <1>4, <2>1, <2>3 DEF Restart, Elsewhere
<1>5. CASE Rebalance(MainTopics) \/ Rebalance({RetryTopic})
  <2>1. \A o \in Ids : SameQueue(o)
    BY <1>1, <1>5, Redelivering, NothingPublished DEF Rebalance
  <2> QED
    BY <1>3, <1>5, <2>1, CopiesUntouched DEF Rebalance, Elsewhere
<1>6. ASSUME NEW id \in Ids, TimePasses(id)
      PROVE  \A o \in Ids : Effect(o)
  <2>1. \A o \in Ids : Elsewhere(o)
    BY <1>6, LogUntouched, CopiesUntouched DEF TimePasses, queueVars, Elsewhere
  <2>2. /\ rows[id].scheduledAt = "future"
        /\ rows'[id] = [rows[id] EXCEPT !.scheduledAt = "due"]
        /\ \A o \in Ids : o # id => SameRow(o)
    BY <1>1, <1>6 DEF TimePasses, Elapse, RowsTypeOK, SameRow
  <2> QED
    BY <1>2, <2>1, <2>2 DEF BecomesDue, Untouched, Effect
<1>7. CASE UNCHANGED <<rows, queueVars, schedulerVars>>
  BY <1>3, <1>7, LogUntouched, CopiesUntouched DEF queueVars, Elsewhere
<1> QED
  BY <1>4, <1>5, <1>6, <1>7 DEF vars

(***************************************************************************)
(* Batches.  Their members share a handler, and so all are done or none.   *)
(***************************************************************************)
Batchmates(o, p) == rows[o].batch = rows[p].batch /\ rows[o].batch # NoBatch

BatchInv ==
    /\ \A o \in Ids : create[o] \in {"none", "inserted", "publish", "rollback"}
                          => rows[o].batch = NoBatch
    /\ \A o, p \in Ids : Batchmates(o, p) => (create[o] = "done" <=> create[p] = "done")

LEMMA ServiceEffect ==
    ASSUME TypeInv, BatchInv, ServiceStep, UNCHANGED schedulerVars
    PROVE  \A o \in Ids : Effect(o)
<1>1. ASSUME NEW id \in Ids, NEW at \in ClientSchedules, NEW k \in Keys \cup {NoKey},
             CreateInsert(id, at, k)
      PROVE  \A o \in Ids : Effect(o)
  BY <1>1, InsertEffect, ClientAssumption
<1>2. ASSUME NEW b \in Batches, NEW S \in SUBSET Ids, NEW keyOf \in [S -> Keys \cup {NoKey}],
             CreateBatchInsert(b, keyOf)
      PROVE  \A o \in Ids : Effect(o)
  BY <1>2, BatchInsertEffect
<1>3. ASSUME NEW id \in Ids, RequestDies(id)
      PROVE  \A o \in Ids : Effect(o)
  <2>1. create[id] \notin {"none", "done"}
    BY <1>3 DEF RequestDies
  <2>2. ASSUME rows[id].batch # NoBatch, NEW o \in Members(rows[id].batch)
        PROVE  create[o] \notin {"none", "done"}
    BY <2>1, <2>2 DEF BatchInv, Batchmates, Members
  <2> QED
    BY <1>3, <2>2, DiesEffect
<1>4. CASE \E id \in Ids : CancelRead(id) \/ CancelUpdate(id)
  BY <1>4, CancelEffect
<1>5. CASE BatchStep \/ \E id \in Ids : CreateStep(id)
  BY <1>5, BatchEffect, CreateEffect
<1> QED
  BY <1>1, <1>2, <1>3, <1>4, <1>5, ClientAssumption DEF ServiceStep, NewRequest

(* Every step is one of these for every notification.                      *)
LEMMA StepEffect ==
    ASSUME TypeInv, BatchInv, [Next]_vars
    PROVE  \A o \in Ids : Effect(o)
BY ServiceEffect, ConsumerEffect, SchedulerEffect, EnvironmentEffect DEF Next

LEMMA RowFields ==
    ASSUME RowsTypeOK, NEW id \in Ids
    PROVE  /\ \A s : SetStatus(id, s) =>
                 /\ rows'[id].status = s /\ rows'[id].batch = rows[id].batch
                 /\ rows'[id].scheduledAt = rows[id].scheduledAt
                 /\ rows'[id].retryCount = rows[id].retryCount
           /\ rows'[id] = [rows[id] EXCEPT !.retryCount = @ + 1] =>
                 /\ rows'[id].status = rows[id].status /\ rows'[id].batch = rows[id].batch
                 /\ rows'[id].scheduledAt = rows[id].scheduledAt
           /\ rows'[id] = [rows[id] EXCEPT !.scheduledAt = "due"] =>
                 /\ rows'[id].status = rows[id].status /\ rows'[id].batch = rows[id].batch
                 /\ rows'[id].scheduledAt = "due" /\ rows'[id].retryCount = rows[id].retryCount
BY DEF RowsTypeOK, Row, SetStatus

(* A row gets its batch when it is inserted.                               *)
LEMMA BatchKept ==
    ASSUME RowsTypeOK, NEW id \in Ids, Effect(id), ~Inserted(id)
    PROVE  rows'[id].batch = rows[id].batch
BY RowFields
   DEF Effect, Untouched, Rejected, LeftToScheduler, Queued, HandedOver, RolledBack, BatchMarked,
       Ended, Withdrawn, Handled, Selected, SentByScheduler, MarkedByScheduler, BecomesDue, SameRow

LEMMA Singles ==
    ASSUME RowsTypeOK, BatchInv, NEW id \in Ids, Effect(id),
           create'[id] \in {"none", "inserted", "publish", "rollback"}
    PROVE  rows'[id].batch = NoBatch
<1>1. CASE Inserted(id)
  BY <1>1 DEF Inserted
<1>2. CASE ~Inserted(id)
  <2>1. create[id] \in {"none", "inserted", "publish", "rollback"}
    BY <1>2 DEF Effect, Untouched, Rejected, LeftToScheduler, Queued, HandedOver, RolledBack,
                BatchMarked, Ended, Withdrawn, Handled, Selected, SentByScheduler,
                MarkedByScheduler, BecomesDue, SameRequest
  <2> QED
    BY <1>2, <2>1, BatchKept DEF BatchInv
<1> QED
  BY <1>1, <1>2

(* A step that ends the handlers of whole batches, and of single requests. *)
LEMMA EndsTogether ==
    ASSUME BatchInv, NEW S \in SUBSET Ids,
           \A o \in Ids : (create'[o] = "done" <=> create[o] = "done" \/ o \in S),
           \A o \in Ids : rows'[o].batch = rows[o].batch,
           \A o, p \in Ids : Batchmates(o, p) => (o \in S <=> p \in S)
    PROVE  \A o, p \in Ids : Batchmates(o, p)' => (create'[o] = "done" <=> create'[p] = "done")
BY DEF BatchInv, Batchmates

LEMMA SharedStep ==
    ASSUME TypeInv, BatchInv, [Next]_vars, \A o \in Ids : Effect(o)
    PROVE  \A o, p \in Ids : Batchmates(o, p)' => (create'[o] = "done" <=> create'[p] = "done")
<1>1. RowsTypeOK /\ ServiceTypeOK
  BY DEF TypeInv, TypeOK
<1>2. \A o \in Ids : create[o] # "none" => rows'[o].batch = rows[o].batch
  BY <1>1, BatchKept DEF Inserted
<1>3. \A o \in Ids : create'[o] = create[o] => rows'[o].batch = rows[o].batch
  BY <1>1, BatchKept DEF Inserted
<1>4. CASE UNCHANGED create
  BY <1>3, <1>4 DEF BatchInv, Batchmates
<1>5. ASSUME NEW id \in Ids, \A o \in Ids : o # id => create'[o] = create[o],
             rows'[id].batch = NoBatch
      PROVE  \A o, p \in Ids : Batchmates(o, p)' => (create'[o] = "done" <=> create'[p] = "done")
  <2>1. \A o, p \in Ids : Batchmates(o, p)' => o = p \/ (o # id /\ p # id)
    BY <1>5 DEF Batchmates
  <2> QED
    BY <1>3, <1>5, <2>1 DEF BatchInv, Batchmates
<1>6. ASSUME NEW id \in Ids, NEW at, NEW k, CreateInsert(id, at, k)
      PROVE  \A o, p \in Ids : Batchmates(o, p)' => (create'[o] = "done" <=> create'[p] = "done")
  <2>1. \A o \in Ids : o # id => create'[o] = create[o]
    BY <1>1, <1>6, ContinueRequest, ReturnRequest DEF CreateInsert, SameRequest
  <2>2. create[id] = "none" /\ rows[id].batch = NoBatch
    BY <1>6 DEF CreateInsert, BatchInv
  <2>3. rows'[id].batch = NoBatch
    BY <1>1, <1>6, <2>2, CreateRow DEF CreateInsert
  <2> QED
    BY <1>5, <2>1, <2>3
<1>7. ASSUME NEW id \in Ids, CreateStep(id)
      PROVE  \A o, p \in Ids : Batchmates(o, p)' => (create'[o] = "done" <=> create'[p] = "done")
  <2>1. create[id] \in {"inserted", "publish", "rollback"}
    BY <1>7 DEF CreateStep, CreateQueue, CreatePublish, CreateRollback
  <2>2. \A o \in Ids : o # id => create'[o] = create[o]
    BY <1>1, <1>7, ContinueRequest, ReturnRequest
       DEF CreateStep, CreateQueue, CreatePublish, CreateRollback, SameRequest
  <2>3. rows'[id].batch = NoBatch
    BY <1>2, <2>1 DEF BatchInv
  <2> QED
    BY <1>5, <2>2, <2>3
<1>8. ASSUME NEW id \in Ids, BatchPublish(id) \/ BatchMark(id)
      PROVE  \A o, p \in Ids : Batchmates(o, p)' => (create'[o] = "done" <=> create'[p] = "done")
  <2>1. create[id] \in {"batched", "mark"} /\ create'[id] \in {"mark", "settled"}
    BY <1>1, <1>8, ContinueRequest DEF BatchPublish, BatchMark
  <2>2. \A o \in Ids : o # id => create'[o] = create[o]
    BY <1>1, <1>8, ContinueRequest DEF BatchPublish, BatchMark, SameRequest
  <2>3. \A o \in Ids : rows'[o].batch = rows[o].batch
    BY <1>2, <1>3, <2>1, <2>2
  <2>4. \A o \in Ids : create'[o] = "done" <=> create[o] = "done"
    BY <2>1, <2>2
  <2> QED
    BY <2>3, <2>4 DEF BatchInv, Batchmates
<1>9. ASSUME NEW b \in Batches, BatchReturn(b)
      PROVE  \A o, p \in Ids : Batchmates(o, p)' => (create'[o] = "done" <=> create'[p] = "done")
  <2>1. \A o \in Ids : create'[o] = "done" <=> create[o] = "done" \/ o \in Members(b)
    BY <1>1, <1>9, ReturnRequests DEF BatchReturn, SameRequest
  <2>2. Members(b) \in SUBSET Ids /\ UNCHANGED rows
    BY <1>9 DEF BatchReturn, Members
  <2>3. \A o, p \in Ids : Batchmates(o, p) => (o \in Members(b) <=> p \in Members(b))
    BY DEF Batchmates, Members
  <2>4. \A o \in Ids : rows'[o].batch = rows[o].batch
    BY <2>2
  <2> QED
    BY <2>1, <2>2, <2>3, <2>4, EndsTogether
<1>10. ASSUME NEW id \in Ids, RequestDies(id)
       PROVE  \A o, p \in Ids : Batchmates(o, p)' => (create'[o] = "done" <=> create'[p] = "done")
  <2> DEFINE S == IF rows[id].batch = NoBatch THEN {id} ELSE Members(rows[id].batch)
  <2>1. ReturnAll(S, "none") /\ UNCHANGED rows
    BY <1>10 DEF RequestDies
  <2>2. S \in SUBSET Ids
    BY DEF Members
  <2>3. \A o, p \in Ids : Batchmates(o, p) => (o \in S <=> p \in S)
    BY DEF Batchmates, Members
  <2> HIDE DEF S
  <2>4. \A o \in Ids : create'[o] = "done" <=> create[o] = "done" \/ o \in S
    BY <1>1, <2>1, ReturnRequests DEF SameRequest
  <2>5. \A o \in Ids : rows'[o].batch = rows[o].batch
    BY <2>1
  <2> QED
    BY <2>2, <2>3, <2>4, <2>5, EndsTogether
<1>11. ASSUME NEW b \in Batches, NEW S \in SUBSET Ids, NEW keyOf \in [S -> Keys \cup {NoKey}],
              CreateBatchInsert(b, keyOf)
       PROVE  \A o, p \in Ids : Batchmates(o, p)' => (create'[o] = "done" <=> create'[p] = "done")
  <2>1. /\ DOMAIN keyOf = S /\ \A o \in Ids : rows[o].batch # b
        /\ \A o \in S : create[o] = "none" /\ rows[o].batch = NoBatch
    BY <1>11 DEF CreateBatchInsert, Members, BatchInv
  <2>2. \/ \A o \in Ids : rows'[o].batch = IF o \in S THEN b ELSE rows[o].batch
        \/ \A o \in Ids : rows'[o].batch = rows[o].batch
    BY <1>1, <1>11, <2>1 DEF CreateBatchInsert, CreateBatch, NewRow, RowsTypeOK
  <2>3. /\ \A o \in Ids : o \notin S => create'[o] = create[o]
        /\ \/ \A o \in S : create'[o] = "batched"
           \/ \A o \in S : create'[o] = "done"
    BY <1>1, <1>11, <2>1, ReturnRequests DEF CreateBatchInsert, SameRequest
  <2>4. CASE \A o \in Ids : rows'[o].batch = IF o \in S THEN b ELSE rows[o].batch
    <3>1. \A o, p \in Ids : Batchmates(o, p)' =>
             (o \in S /\ p \in S) \/ (o \notin S /\ p \notin S /\ Batchmates(o, p))
      BY <2>1, <2>4 DEF Batchmates
    <3> QED
      BY <2>3, <3>1 DEF BatchInv
  <2>5. CASE \A o \in Ids : rows'[o].batch = rows[o].batch
    <3>1. \A o, p \in Ids : Batchmates(o, p)' => o \notin S /\ p \notin S /\ Batchmates(o, p)
      BY <2>1, <2>5 DEF Batchmates
    <3> QED
      BY <2>3, <3>1 DEF BatchInv
  <2> QED
    BY <2>2, <2>4, <2>5
<1>12. CASE \E id \in Ids : CancelRead(id) \/ CancelUpdate(id)
  BY <1>4, <1>12 DEF CancelRead, CancelUpdate, createVars
<1>13. CASE UNCHANGED serviceVars
  BY <1>4, <1>13 DEF serviceVars, createVars
<1>14. CASE ServiceStep
  BY <1>6, <1>7, <1>8, <1>9, <1>10, <1>11, <1>12, <1>14, ClientAssumption
     DEF ServiceStep, NewRequest, BatchStep
<1> QED
  BY <1>13, <1>14 DEF Next, Restart, Rebalance, TimePasses, vars

LEMMA BatchInit == Init => BatchInv
BY DEF Init, RowsInit, ServiceInit, BatchInv, Batchmates

LEMMA BatchInvStep == TypeInv /\ BatchInv /\ [Next]_vars => BatchInv'
<1> SUFFICES ASSUME TypeInv, BatchInv, [Next]_vars PROVE BatchInv'
  OBVIOUS
<1>1. \A o \in Ids : Effect(o)
  BY StepEffect
<1>2. \A o \in Ids : create'[o] \in {"none", "inserted", "publish", "rollback"}
                        => rows'[o].batch = NoBatch
  BY <1>1, Singles DEF TypeInv, TypeOK
<1> QED
  BY <1>1, <1>2, SharedStep DEF BatchInv

(***************************************************************************)
(* Promises.  What is known of a notification whose copies have all to be  *)
(* published yet, and so of one that is too early or accepted.             *)
(***************************************************************************)
Unsent(id) == ~Published(id) /\ ~Picked(id)

Promise(id) ==
    /\ create[id] = "none" =>
          rows[id].status = "absent" /\ rows[id].scheduledAt = "none" /\ Unsent(id)
    /\ create[id] # "done" => reply[id] = "none"
    /\ create[id] \notin {"none", "done"} \/ Picked(id) \/ Published(id) => Stored(id)
    /\ rows[id].scheduledAt = "future" => create[id] \in {"inserted", "done"} /\ Unsent(id)
    /\ Marked(id) => Published(id)
    /\ create[id] = "inserted" /\ ~Published(id) =>
          rows[id].status \in {"pending", "cancelled"}
    /\ reply[id] = "accepted" /\ rows[id].batch = NoBatch /\ ~Published(id) =>
          \/ rows[id].status = "pending" /\ rows[id].scheduledAt # "none"
          \/ rows[id].status = "cancelled"

PromiseInv == \A id \in Ids : Promise(id)

LEMMA PromiseInit == Init => PromiseInv
<1> SUFFICES ASSUME Init, NEW id \in Ids PROVE Promise(id)
  BY DEF PromiseInv
<1>1. ~Published(id)
  BY DEF Init, QueueInit, Published
<1>2. ~Picked(id) /\ ~Marked(id)
  BY DEF Init, SchedulerInit, Picked, Marked
<1> QED
  BY <1>1, <1>2 DEF Init, RowsInit, ServiceInit, Promise, Unsent

LEMMA PromiseStep == TypeInv /\ BatchInv /\ PromiseInv /\ [Next]_vars => PromiseInv'
<1> SUFFICES ASSUME TypeInv, BatchInv, PromiseInv, [Next]_vars, NEW id \in Ids
             PROVE  Promise(id)'
  BY DEF PromiseInv
<1>1. Promise(id) /\ Effect(id) /\ RowsTypeOK
  BY StepEffect DEF PromiseInv, TypeInv, TypeOK
<1>2. rows[id] \in Row
  BY <1>1 DEF RowsTypeOK
<1>3. Marked(id) => Picked(id)
  BY DEF Picked
<1> USE DEF Promise, Unsent, Elsewhere, SameQueue, SameCopies, SameRequest, SameRow, Stored
<1>4. CASE Untouched(id)
  BY <1>1, <1>4 DEF Untouched
<1>5. CASE Inserted(id)
  BY <1>1, <1>5 DEF Inserted, Picked
<1>6. CASE Rejected(id) \/ LeftToScheduler(id)
  BY <1>1, <1>6 DEF Rejected, LeftToScheduler, Picked
<1>7. CASE Queued(id)
  BY <1>1, <1>2, <1>3, <1>7 DEF Queued, SetStatus, Row
<1>8. CASE HandedOver(id)
  BY <1>1, <1>8 DEF HandedOver
<1>9. CASE RolledBack(id) \/ BatchMarked(id)
  BY <1>1, <1>2, <1>3, <1>9 DEF RolledBack, BatchMarked, SetStatus, Row
<1>10. CASE Ended(id)
  BY <1>1, <1>10 DEF Ended
<1>11. CASE Withdrawn(id)
  BY <1>1, <1>2, <1>3, <1>11 DEF Withdrawn, IsCancellable, SetStatus, Row
<1>12. CASE Handled(id)
  BY <1>1, <1>12, RowFields DEF Handled
<1>13. CASE Selected(id)
  BY <1>1, <1>13 DEF Selected, GetDueScheduled
<1>14. CASE SentByScheduler(id)
  BY <1>1, <1>14 DEF SentByScheduler
<1>15. CASE MarkedByScheduler(id)
  BY <1>1, <1>2, <1>3, <1>15 DEF MarkedByScheduler, SetStatus, Row
<1>16. CASE BecomesDue(id)
  BY <1>1, <1>16, RowFields DEF BecomesDue
<1> QED
  BY <1>1, <1>4, <1>5, <1>6, <1>7, <1>8, <1>9, <1>10, <1>11, <1>12, <1>13, <1>14, <1>15, <1>16
     DEF Effect

LEMMA PromisesHold == Spec => [](TypeInv /\ BatchInv /\ PromiseInv)
<1>1. TypeInv /\ [Next]_vars => TypeInv'
  BY TypeStep
<1> QED
  BY <1>1, TypeInit, BatchInit, PromiseInit, BatchInvStep, PromiseStep, PTL DEF Spec

(* Nothing reaches Kafka before its scheduled_at: not by the request that  *)
(* stores it, which looks at the time once (service/notification.go,       *)
(* Create), nor by any number of schedulers (GetDueScheduled).             *)
THEOREM NothingIsEarly == Spec => []NeverEarly
<1>1. PromiseInv => NeverEarly
  BY DEF PromiseInv, Promise, Unsent, NeverEarly
<1> QED
  BY <1>1, PromisesHold, PTL

(* A notification whose Create was answered 202 is in Kafka, or pending    *)
(* with a schedule that the scheduler will meet, or was cancelled,         *)
(* whatever requests, schedulers and workers do to its row meanwhile.      *)
THEOREM AcceptedStaysKept == Spec => []AcceptedIsKept
<1>1. PromiseInv => AcceptedIsKept
  BY DEF PromiseInv, Promise, AcceptedIsKept
<1> QED
  BY <1>1, PromisesHold, PTL

LEMMA OutOfTheWayStays ==
    ASSUME TypeInv, BatchInv, [Next]_vars, NEW id \in Ids, OutOfTheWay(id)
    PROVE  OutOfTheWay(id)'
<1>1. OutOfTheWay(id) <=>
         rows[id].status = "cancelled" /\ ~Published(id) /\ create[id] = "done" /\ ~Picked(id)
  BY DEF OutOfTheWay, Picked, Marked
<1>2. OutOfTheWay(id)' <=>
         /\ rows'[id].status = "cancelled" /\ ~(Published(id)')
         /\ create'[id] = "done" /\ ~(Picked(id)')
  BY DEF OutOfTheWay, Picked, Marked
<1>3. Effect(id) /\ rows[id] \in Row
  BY StepEffect DEF TypeInv, TypeOK, RowsTypeOK
<1>4. Marked(id) => Picked(id)
  BY DEF Picked
<1>5. Untouched(id) \/ BecomesDue(id)
  BY <1>1, <1>3, <1>4
     DEF Effect, Inserted, Rejected, LeftToScheduler, Queued, HandedOver, RolledBack, BatchMarked,
         Ended, Withdrawn, IsCancellable, Handled, Selected, GetDueScheduled, SentByScheduler,
         MarkedByScheduler
<1>6. rows'[id].status = "cancelled"
  BY <1>1, <1>3, <1>5 DEF Untouched, SameRow, BecomesDue, Row
<1> QED
  BY <1>1, <1>2, <1>5, <1>6
     DEF Untouched, BecomesDue, SameRequest, Elsewhere, SameQueue, SameCopies

(* A cancellation that came before the notification was picked up is       *)
(* final, for any number of schedulers and whatever fails.                 *)
THEOREM CancelIsEffective == Spec => EffectiveCancel
<1>1. TypeInv /\ BatchInv /\ [Next]_vars =>
         [\A id \in Ids : OutOfTheWay(id) => OutOfTheWay(id)']_vars
  BY OutOfTheWayStays
<1> QED
  BY <1>1, PromisesHold, PTL DEF Spec, EffectiveCancel

(***************************************************************************)
(* The pipeline implements NotificationLife for every notification, for    *)
(* any number of them, of topics, replicas, retries and failures.          *)
(***************************************************************************)

(***************************************************************************)
(* What has become of a notification changes in its handlers only, which   *)
(* have a message of it in hand.                                           *)
(***************************************************************************)
SameHistory(id) ==
    sent'[id] = sent[id] /\ (id \in dlq' <=> id \in dlq) /\ (id \in errored' <=> id \in errored)

LaterHistory(id) ==
    /\ sent[id] > 0 => sent'[id] > 0
    /\ id \in dlq => id \in dlq'
    /\ id \in errored => id \in errored'

LEMMA ConsumerHistory ==
    ASSUME TypeInv, NEW w \in Workers, NEW t \in Topics, ConsumerStep(w, t), NEW o \in Ids
    PROVE  LaterHistory(o) /\ (SameHistory(o) \/ Published(o))
<1>1. sent \in [Ids -> Nat]
  BY DEF TypeInv, TypeOK, WorkerTypeOK
<1>2. CASE UNCHANGED <<sent, dlq, errored>>
  BY <1>2 DEF LaterHistory, SameHistory
<1>3. CASE Send(w, t) \/ DeadLetter(w, t) \/ Commit(w, t)
  <2>1. Current(w, t).id \in Ids /\ Published(Current(w, t).id)
    BY <1>3, CurrentPublished DEF Send, DeadLetter, Commit, At, Holding
  <2>2. CASE Send(w, t)
    BY <1>1, <2>1, <2>2
       DEF Send, SendAccepted, SendRejected, SendUnanswered, queueVars, LaterHistory, SameHistory
  <2>3. CASE DeadLetter(w, t)
    BY <2>1, <2>3 DEF DeadLetter, PublishDLQ, historyVars, LaterHistory, SameHistory
  <2>4. CASE Commit(w, t)
    BY <2>1, <2>4 DEF Commit, LaterHistory, SameHistory
  <2> QED
    BY <1>3, <2>2, <2>3, <2>4
<1> QED
  BY <1>2, <1>3
     DEF ConsumerStep, Fetch, StopConsumer, RetryAfter, RateLimit, MarkProcessing, MarkDelivered,
         Increment, MarkFailed, ScheduleRetry, historyVars, queueVars

LEMMA StepHistory ==
    ASSUME TypeInv, [Next]_vars, NEW o \in Ids
    PROVE  LaterHistory(o) /\ (SameHistory(o) \/ Published(o))
<1>1. CASE UNCHANGED <<sent, dlq, errored>>
  BY <1>1 DEF LaterHistory, SameHistory
<1>2. CASE ServiceStep /\ UNCHANGED workerVars
  BY <1>1, <1>2, ServiceDlq DEF workerVars, historyVars
<1>3. ASSUME NEW w \in Workers, SchedulerStep(w), UNCHANGED workerVars
      PROVE  UNCHANGED <<sent, dlq, errored>>
  BY <1>3
     DEF SchedulerStep, SelectDue, PublishDue, MarkQueued, queueVars, workerVars, historyVars
<1> QED
  BY <1>1, <1>2, <1>3, ConsumerHistory
     DEF Next, Restart, Rebalance, TimePasses, vars, workerVars, historyVars, queueVars

LEMMA StepOutcome ==
    ASSUME TypeInv, [Next]_vars, NEW id \in Ids
    PROVE  Outcome(id) \subseteq Outcome(id)' /\ (Outcome(id)' # Outcome(id) => Published(id))
BY StepHistory DEF LaterHistory, SameHistory, Outcome

(***************************************************************************)
(* What is published is pending when it is.                                *)
(***************************************************************************)
LEMMA ConsumerRetains ==
    ASSUME TypeInv, NEW w \in Workers, NEW t \in Topics, ConsumerStep(w, t)
    PROVE  Retains \/ \A u \in Topics : DOMAIN log'[u] = DOMAIN log[u]
<1>1. LogOK
  BY DEF TypeInv, TypeOK, QueueTypeOK, LogOK
<1>2. CASE UNCHANGED log
  BY <1>2
<1>3. CASE Fetch(w, t)
  BY <1>1, <1>3, Fetching DEF Fetch
<1>4. CASE ScheduleRetry(w, t)
  <2>1. Current(w, t).id \in Ids /\ Attempts(w, t) \in Nat
    BY <1>4, InHand DEF ScheduleRetry, At, Holding
  <2> QED
    BY <1>1, <1>4, <2>1, PublishRetryType DEF ScheduleRetry
<1>5. CASE Commit(w, t)
  <2>1. consumer[w][t].slot \in DOMAIN log[t]
    BY <1>5, InHand DEF Commit, At, Holding
  <2> QED
    BY <1>1, <1>5, <2>1, Committing DEF Commit
<1> QED
  BY <1>2, <1>3, <1>4, <1>5
     DEF ConsumerStep, StopConsumer, RetryAfter, RateLimit, MarkProcessing, Send, MarkDelivered,
         Increment, MarkFailed, DeadLetter, queueVars

LEMMA StepRetains ==
    ASSUME TypeInv, [Next]_vars
    PROVE  Grows /\ (Retains \/ \A u \in Topics : DOMAIN log'[u] = DOMAIN log[u])
<1>1. Grows
  BY TypeStep
<1> QED
  BY <1>1, ServiceStepType, SchedulerStepType, ConsumerRetains, RestartType, RebalanceType,
     TimeType, SigtermType DEF Next, vars, queueVars

LEMMA NewIsLive ==
    ASSUME TypeInv, [Next]_vars, NEW id \in Ids, ~Published(id), Published(id)'
    PROVE  Live(id)'
<1>1. PICK t \in Topics : \E i \in DOMAIN log'[t] : log'[t][i].id = id
  BY DEF Published
<1>2. PICK i \in DOMAIN log'[t] : log'[t][i].id = id
  BY <1>1
<1>3. i \notin DOMAIN log[t]
  BY <1>2, StepRetains DEF Grows, SameMessage, Published
<1>4. Pending(log'[t][i])
  BY <1>2, <1>3, StepRetains DEF Retains
<1> QED
  BY <1>2, <1>4 DEF Live

LEMMA Places ==
    ASSUME NEW id
    PROVE  /\ Live(id) => Published(id) /\ Place(id) = "underway"
           /\ Published(id) /\ ~Live(id) => Place(id) = "settled"
           /\ OutOfTheWay(id) => ~Published(id) /\ Stored(id) /\ Place(id) = "withdrawn"
           /\ ~Published(id) /\ ~OutOfTheWay(id) /\ Stored(id) => Place(id) = "stored"
           /\ ~Published(id) /\ ~Stored(id) => Place(id) = "nowhere"
<1>1. Live(id) => Published(id)
  BY DEF Live, Published
<1>2. OutOfTheWay(id) => ~Published(id) /\ Stored(id)
  BY DEF OutOfTheWay, Stored
<1> QED
  BY <1>1, <1>2 DEF Place

LEMMA PlacesNext ==
    ASSUME NEW id
    PROVE  /\ Live(id)' => Published(id)' /\ Place(id)' = "underway"
           /\ Published(id)' /\ ~Live(id)' => Place(id)' = "settled"
           /\ OutOfTheWay(id)' => ~Published(id)' /\ Stored(id)' /\ Place(id)' = "withdrawn"
           /\ ~Published(id)' /\ ~OutOfTheWay(id)' /\ Stored(id)' => Place(id)' = "stored"
           /\ ~Published(id)' /\ ~Stored(id)' => Place(id)' = "nowhere"
<1>1. Live(id)' => Published(id)'
  BY DEF Live, Published
<1>2. OutOfTheWay(id)' => ~Published(id)' /\ Stored(id)'
  BY DEF OutOfTheWay, Stored
<1> QED
  BY <1>1, <1>2 DEF Place

(***************************************************************************)
(* What one step does to one notification.                                 *)
(***************************************************************************)
Known == TypeInv /\ BatchInv /\ PromiseInv /\ LossInv

(* A row is made by its INSERT, and kept.                                  *)
LEMMA StoredWhen ==
    ASSUME Known, NEW id \in Ids, Effect(id)
    PROVE  /\ Stored(id) => Stored(id)'
           /\ ~Stored(id) /\ Stored(id)' => Inserted(id)
<1>1. Promise(id) /\ rows[id] \in Row /\ (Marked(id) => Picked(id))
  BY DEF Known, PromiseInv, TypeInv, TypeOK, RowsTypeOK, Picked
<1>2. CASE Inserted(id)
  BY <1>2 DEF Inserted, Stored
<1>3. CASE Withdrawn(id) \/ BecomesDue(id)
  BY <1>1, <1>3 DEF Withdrawn, IsCancellable, BecomesDue, Stored, SetStatus, Row
<1>4. CASE Handled(id)
  BY <1>1, <1>4 DEF Handled, Promise, Stored, SameRow, SetStatus, Row, Statuses
<1>5. CASE SameRow(id)
  BY <1>5 DEF SameRow, Stored
<1>6. CASE Queued(id) \/ RolledBack(id) \/ BatchMarked(id) \/ MarkedByScheduler(id)
  BY <1>1, <1>5, <1>6
     DEF Queued, RolledBack, BatchMarked, MarkedByScheduler, Promise, Stored, SetStatus, Row
<1> QED
  BY <1>2, <1>3, <1>4, <1>5, <1>6
     DEF Effect, Untouched, Rejected, LeftToScheduler, HandedOver, Ended, Selected,
         SentByScheduler

LEMMA PublishedWhen ==
    ASSUME Known, NEW id \in Ids, Effect(id), ~Published(id), Published(id)'
    PROVE  Stored(id) /\ rows[id].scheduledAt # "future"
<1>1. Promise(id)
  BY DEF Known, PromiseInv
<1>2. HandedOver(id) \/ SentByScheduler(id)
  BY DEF Effect, Untouched, Inserted, Rejected, LeftToScheduler, Queued, RolledBack, BatchMarked,
         Ended, Withdrawn, Handled, Selected, MarkedByScheduler, BecomesDue, Elsewhere, SameQueue
<1> QED
  BY <1>1, <1>2 DEF HandedOver, SentByScheduler, Promise, Unsent

LEMMA AnsweredWhen ==
    ASSUME Known, NEW id \in Ids, Effect(id), reply'[id] # reply[id]
    PROVE  /\ reply[id] = "none"
           /\ reply'[id] = "accepted" => Stored(id)' \/ Published(id)'
           /\ reply'[id] = "conflict" => ~Stored(id)' /\ ~Published(id)'
<1>1. Promise(id)
  BY DEF Known, PromiseInv
<1>2. \/ Inserted(id) \/ Rejected(id) \/ LeftToScheduler(id) \/ Queued(id) \/ HandedOver(id)
      \/ RolledBack(id) \/ Ended(id)
  BY DEF Effect, Untouched, BatchMarked, Withdrawn, Handled, Selected, SentByScheduler,
         MarkedByScheduler, BecomesDue, SameRequest
<1>3. CASE Rejected(id)
  BY <1>1, <1>3 DEF Rejected, Promise, Unsent, Stored, SameRow, Elsewhere, SameQueue
<1>4. CASE Inserted(id) \/ LeftToScheduler(id) \/ Ended(id)
  BY <1>1, <1>4 DEF Inserted, LeftToScheduler, Ended, Promise, Stored, SameRow
<1>5. CASE Queued(id) \/ HandedOver(id) \/ RolledBack(id)
  BY <1>1, <1>5 DEF Queued, HandedOver, RolledBack, Promise
<1> QED
  BY <1>2, <1>3, <1>4, <1>5

LEMMA InsertStores ==
    ASSUME Known, NEW id \in Ids, Inserted(id)
    PROVE  Place(id) = "nowhere" /\ Place(id)' = "stored" /\ reply[id] = "none"
<1>1. ~Published(id) /\ ~Stored(id) /\ reply[id] = "none"
  BY DEF Known, PromiseInv, Promise, Unsent, Inserted, Stored
<1>2. ~Published(id)' /\ Stored(id)' /\ ~OutOfTheWay(id)'
  BY <1>1 DEF Inserted, Elsewhere, SameQueue, Stored, OutOfTheWay
<1> QED
  BY <1>1, <1>2, Places, PlacesNext

LEMMA DueWhen ==
    ASSUME Known, NEW id \in Ids, Effect(id), ~Inserted(id), rows'[id].scheduledAt = "future"
    PROVE  rows[id].scheduledAt = "future"
BY RowFields
   DEF Known, TypeInv, TypeOK, Effect, Untouched, Rejected, LeftToScheduler, Queued, HandedOver,
       RolledBack, BatchMarked, Ended, Withdrawn, Handled, Selected, SentByScheduler,
       MarkedByScheduler, BecomesDue, SameRow

(***************************************************************************)
(* Every step is one of NotificationLife for every notification.           *)
(***************************************************************************)
LEMMA LifeMoves ==
    ASSUME Known, LossInv', [Next]_vars, NEW id \in Ids
    PROVE  Life(id)!Move
<1>1. Effect(id) /\ Known
  BY StepEffect DEF Known
<1> USE DEF Life!Move, Life!Store, Life!HandOver, Life!Withdraw, Life!Settle, Life!TakeUp
<1>2. CASE Published(id)
  <2>1. Published(id)'
    BY <1>2, StepRetains, PublishedStays DEF Known
  <2>2. Live(id)' \/ Outcome(id)' # {}
    BY <2>1 DEF LossInv, NoSilentLoss, Outcome
  <2> QED
    BY <1>2, <2>1, <2>2, Places, PlacesNext
<1>3. CASE ~Published(id) /\ Published(id)'
  <2>1. Stored(id) /\ rows[id].scheduledAt # "future"
    BY <1>1, <1>3, PublishedWhen
  <2>2. Live(id)'
    BY <1>3, NewIsLive DEF Known
  <2>3. ~OutOfTheWay(id)
    BY <1>3, OutOfTheWayStays, PlacesNext DEF Known
  <2> QED
    BY <1>3, <2>1, <2>2, <2>3, Places, PlacesNext
<1>4. CASE ~Published(id) /\ ~Published(id)'
  <2>1. CASE OutOfTheWay(id)
    BY <2>1, OutOfTheWayStays, Places, PlacesNext DEF Known
  <2>2. CASE ~OutOfTheWay(id) /\ Stored(id)
    BY <1>1, <1>4, <2>2, StoredWhen, Places, PlacesNext
  <2>3. CASE Inserted(id)
    BY <2>3, InsertStores
  <2>4. CASE ~Stored(id) /\ ~Inserted(id)
    BY <1>1, <1>4, <2>4, StoredWhen, Places, PlacesNext
  <2> QED
    BY <2>1, <2>2, <2>3, <2>4
<1> QED
  BY <1>2, <1>3, <1>4

LEMMA LifeStep ==
    ASSUME Known, LossInv', [Next]_vars, NEW id \in Ids
    PROVE  Life(id)!Next
<1>1. Effect(id)
  BY StepEffect DEF Known
<1>2. Life(id)!Answer \/ reply'[id] = reply[id]
  BY <1>1, AnsweredWhen, PlacesNext DEF Life!Answer
<1>3. Life(id)!Happen
  BY StepOutcome, Places DEF Known, Life!Happen
<1>4. Life(id)!Clock
  <2>1. CASE Inserted(id)
    BY <2>1, InsertStores DEF Life!Clock, Life!Store
  <2>2. CASE ~Inserted(id)
    BY <1>1, <2>2, DueWhen DEF Life!Clock
  <2> QED
    BY <2>1, <2>2
<1> QED
  BY <1>2, <1>3, <1>4, LifeMoves DEF Life!Next

LEMMA LifeInit ==
    ASSUME Init, NEW id \in Ids
    PROVE  Life(id)!Init
<1>1. ~Published(id) /\ ~Stored(id) /\ rows[id].scheduledAt = "none" /\ reply[id] = "none"
  BY DEF Init, QueueInit, RowsInit, ServiceInit, Published, Stored
<1>2. Outcome(id) = {}
  BY DEF Init, QueueInit, WorkerInit, Outcome
<1> QED
  BY <1>1, <1>2, Places DEF Life!Init

(* The pipeline implements the life of each of its notifications: the      *)
(* handlers of the requests, the consumers, the schedulers and whatever    *)
(* fails among them take no step it does not allow.                        *)
THEOREM PipelineImplementsLife == Spec => ImplementsLife
<1>1. Init => \A id \in Ids : Life(id)!Init
  BY LifeInit
<1>2. Init => Known
  BY TypeInit, BatchInit, PromiseInit, LossInit DEF Known
<1>3. Known /\ [Next]_vars => Known'
  BY TypeStep, BatchInvStep, PromiseStep, LossStep DEF Known
<1>4. Known /\ Known' /\ [Next]_vars =>
         [\A id \in Ids : [Life(id)!Next]_(Life(id)!vars)]_vars
  BY LifeStep DEF Known
<1> QED
  BY <1>1, <1>2, <1>3, <1>4, PTL DEF Spec, ImplementsLife
=============================================================================
