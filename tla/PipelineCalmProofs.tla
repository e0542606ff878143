------------------------- MODULE PipelineCalmProofs -------------------------
(***************************************************************************)
(* What holds as long as nothing failed: how many copies of a notification *)
(* reach Kafka, how often the provider sees it, and that what Create       *)
(* queued and a worker delivered stays delivered.                          *)
(*                                                                         *)
(* Whoever may still publish a notification is counted with the copies     *)
(* there are: the request that made it, until it has published, and each   *)
(* replica whose scheduler has a copy or could still select one.  Every    *)
(* copy, in turn, carries one delivery and MaxRetries attempts; the        *)
(* consumers hand them from message to message and use them up.            *)
(***************************************************************************)
EXTENDS PipelineStepProofs

(***************************************************************************)
(* Who may still publish a notification                                    *)
(***************************************************************************)
Holds(w, id) == \E n \in due[w] : n.id = id

(* GetDueScheduled may return it, now or later.                            *)
Fresh(id) == rows[id].status \in {"absent", "pending"}

(* The replicas whose scheduler has a copy or could still select one: not  *)
(* the one that has published id and is about to set it to queued.         *)
Open(id) == {w \in Workers : Holds(w, id) \/ (Fresh(id) /\ id \notin marking[w])}

ToPublish(id) == create[id] \in {"none", "inserted", "publish", "batched"}

Turn(id) == IF ToPublish(id) THEN 1 ELSE 0

(* The copies that are not retries.                                        *)
Slots(id) == {i \in DOMAIN log[TopicOf[id]] : log[TopicOf[id]][i].id = id}

CopyInv(id) ==
    /\ IsFiniteSet(Slots(id))
    /\ Cardinality(Slots(id)) + Cardinality(Open(id)) + Turn(id) <= Cardinality(Workers) + 1
    /\ rows[id].scheduledAt = "none" => Cardinality(Slots(id)) + Turn(id) <= 1

SchedulerInv(w) ==
    /\ ~stopping[w]
    /\ \A n \in due[w] :
          /\ rows[n.id].scheduledAt = "due" /\ n.id \notin marking[w]
          /\ \A m \in due[w] : m.id = n.id => m = n
    /\ \A id \in marking[w] : rows[id].scheduledAt = "due" /\ marking[w] = {id}

RequestInv(id) ==
    /\ create[id] # "rollback"
    /\ create[id] \in {"batched", "mark"} => rows[id].batch # NoBatch

CopiesInv ==
    /\ \A w \in Workers : SchedulerInv(w)
    /\ \A id \in Ids : RequestInv(id) /\ CopyInv(id)

(***************************************************************************)
(* Without a failure                                                       *)
(***************************************************************************)
LEMMA ServiceFaults ==
    ASSUME ServiceStep
    PROVE  NoFault \/ Fault
<1>1. ASSUME NEW id \in Ids, NEW at, NEW k, CreateInsert(id, at, k)
      PROVE  NoFault \/ Fault
  BY <1>1 DEF CreateInsert
<1>2. ASSUME NEW b \in Batches, NEW keyOf, CreateBatchInsert(b, keyOf)
      PROVE  NoFault \/ Fault
  BY <1>2 DEF CreateBatchInsert
<1>3. ASSUME NEW id \in Ids, CreateStep(id) \/ CancelRead(id) \/ CancelUpdate(id) \/ RequestDies(id)
      PROVE  NoFault \/ Fault
  BY <1>3 DEF CreateStep, CreateQueue, CreatePublish, CreateRollback, CancelRead, CancelUpdate,
              RequestDies, NoFault
<1>4. CASE BatchStep
  BY <1>4 DEF BatchStep, BatchPublish, BatchMark, BatchReturn, NoFault
<1>5. CASE NewRequest
  BY <1>1, <1>2, <1>3, <1>5, ClientAssumption DEF NewRequest
<1> QED
  BY <1>3, <1>4, <1>5 DEF ServiceStep

LEMMA StepFaults ==
    ASSUME [Next]_vars
    PROVE  NoFault \/ Fault \/ \E w \in Workers : Sigterm(w) \/ ProcessRestarts(w)
<1>1. ASSUME NEW w \in Workers, NEW t \in Topics, ConsumerStep(w, t)
      PROVE  NoFault \/ Fault
  BY <1>1 DEF ConsumerStep, Fetch, StopConsumer, RetryAfter, RateLimit, MarkProcessing, Send,
       SendAccepted, SendRejected, SendUnanswered, MarkDelivered, Increment, MarkFailed,
       DeadLetter, ScheduleRetry, Commit, TryUpdateStatus, CallSucceeds, CallFails, NoFault
<1>2. ASSUME NEW w \in Workers, SchedulerStep(w)
      PROVE  NoFault \/ Fault
  BY <1>2 DEF SchedulerStep, SelectDue, PublishDue, MarkQueued, CallSucceeds, CallFails
<1>3. ASSUME NEW w \in Workers, Sigterm(w) \/ Restart(w)
      PROVE  Sigterm(w) \/ ProcessRestarts(w)
  BY <1>3 DEF Restart
<1>4. CASE Rebalance(MainTopics) \/ Rebalance({RetryTopic})
  BY <1>4 DEF Rebalance
<1>5. CASE UNCHANGED vars \/ \E id \in Ids : TimePasses(id)
  <2>1. UNCHANGED faultVars
    BY <1>5 DEF TimePasses, vars
  <2> QED
    BY <2>1 DEF NoFault
<1> QED
  BY <1>1, <1>2, <1>3, <1>4, <1>5, ServiceFaults DEF Next

LEMMA FaultsGrow ==
    ASSUME TypeInv, [Next]_vars
    PROVE  faults \in Nat /\ (faults' = faults \/ faults' = faults + 1)
<1>1. faults \in Nat
  BY DEF TypeInv, TypeOK, FaultsTypeOK
<1> QED
  BY <1>1, StepFaults DEF NoFault, Fault, Sigterm, ProcessRestarts, faultVars

(* A step that is no failure: nothing failed before, nothing fails in it,  *)
(* and no worker was told to stop.                                         *)
CalmStep == faults = 0 /\ faults' = 0 /\ \A w \in Workers : ~stopping[w]

LEMMA NoFailure ==
    ASSUME CalmStep
    PROVE  ~Fault /\ \A w \in Workers : ~CallFails(w) /\ ~Sigterm(w) /\ ~ProcessRestarts(w)
BY DEF CalmStep, Fault, CallFails, NoFault, Sigterm, ProcessRestarts, faultVars

LEMMA StaysCalm ==
    ASSUME CalmStep, [Next]_vars
    PROVE  \A w \in Workers : ~stopping'[w]
<1>1. NoFault
  BY NoFailure, StepFaults
<1> QED
  BY <1>1 DEF CalmStep, NoFault, faultVars

(***************************************************************************)
(* The copies in the log                                                   *)
(***************************************************************************)
LEMMA SlotsSame ==
    ASSUME Grows, \A t \in Topics : DOMAIN log'[t] = DOMAIN log[t]
    PROVE  \A o \in Ids : Slots(o)' = Slots(o)
<1> SUFFICES ASSUME NEW o \in Ids, NEW t, t = TopicOf[o]
             PROVE  {i \in DOMAIN log'[t] : log'[t][i].id = o}
                        = {i \in DOMAIN log[t] : log[t][i].id = o}
  BY DEF Slots
<1>1. t \in Topics
  BY TopicOfAssumption DEF Topics
<1> QED
  BY <1>1 DEF Grows, SameMessage

LEMMA SlotsUntouched ==
    ASSUME UNCHANGED log
    PROVE  \A o \in Ids : Slots(o)' = Slots(o)
BY DEF Slots

LEMMA SlotsRetry ==
    ASSUME LogOK, NEW id \in Ids, NEW n \in Nat, PublishRetry(id, n)
    PROVE  \A o \in Ids : Slots(o)' = Slots(o)
<1> SUFFICES ASSUME NEW o \in Ids
             PROVE  Slots(o)' = Slots(o)
  OBVIOUS
<1>1. TopicOf[o] \in Topics /\ TopicOf[o] # RetryTopic /\ RetryTopic \in Topics
  BY TopicOfAssumption, RetryTopicAssumption DEF Topics
<1>2. log'[TopicOf[o]] = log[TopicOf[o]]
  BY <1>1, AppendMessage DEF PublishRetry
<1> QED
  BY <1>2 DEF Slots

LEMMA SlotsPublished ==
    ASSUME LogOK, NEW id \in Ids, NEW n \in Nat, Publish(id, n), IsFiniteSet(Slots(id))
    PROVE  /\ IsFiniteSet(Slots(id)') /\ Cardinality(Slots(id)) \in Nat
           /\ Cardinality(Slots(id)') = Cardinality(Slots(id)) + 1
           /\ \A o \in Ids : o # id => Slots(o)' = Slots(o)
<1> DEFINE m == [id |-> id, retryCount |-> n, state |-> "ready"]
           t == TopicOf[id]
           k == Len(log[t]) + 1
<1>1. t \in Topics
  BY TopicOfAssumption DEF Topics
<1>2. /\ \A u \in Topics : u # t => log'[u] = log[u]
      /\ log'[t] = Append(log[t], m)
  BY <1>1, AppendMessage DEF Publish
<1>3. /\ DOMAIN log[t] = 1 .. Len(log[t]) /\ DOMAIN log'[t] = (DOMAIN log[t]) \cup {k}
      /\ \A i \in DOMAIN log[t] : log'[t][i] = log[t][i]
      /\ log'[t][k] = m /\ k \notin DOMAIN log[t]
  BY <1>1, <1>2 DEF LogOK
<1>4. Slots(id)' = Slots(id) \cup {k} /\ k \notin Slots(id)
  BY <1>3 DEF Slots
<1>5. ASSUME NEW o \in Ids, o # id
      PROVE  Slots(o)' = Slots(o)
  <2>1. TopicOf[o] \in Topics
    BY TopicOfAssumption DEF Topics
  <2>2. CASE TopicOf[o] = t
    BY <1>3, <1>5, <2>2 DEF Slots
  <2>3. CASE TopicOf[o] # t
    BY <1>2, <2>1, <2>3 DEF Slots
  <2> QED
    BY <2>2, <2>3
<1> HIDE DEF k
<1>6. /\ IsFiniteSet(Slots(id) \cup {k})
      /\ Cardinality(Slots(id) \cup {k}) = Cardinality(Slots(id)) + 1
  BY <1>4, FS_AddElement, Zenon
<1> QED
  BY <1>4, <1>5, <1>6, FS_CardinalityType

(***************************************************************************)
(* The bound, one kind of step at a time                                   *)
(***************************************************************************)
LEMMA OpenFinite ==
    ASSUME NEW id
    PROVE  IsFiniteSet(Open(id)) /\ Cardinality(Open(id)) \in Nat /\ Cardinality(Workers) \in Nat
<1>1. Open(id) \in SUBSET Workers
  BY DEF Open
<1> QED
  BY <1>1, WorkersAssumption, FS_Subset, FS_CardinalityType

LEMMA OpenShrinks ==
    ASSUME NEW id, Open(id)' \subseteq Open(id)
    PROVE  Cardinality(Open(id)') <= Cardinality(Open(id)) /\ Cardinality(Open(id)') \in Nat
<1>1. Open(id)' \in SUBSET Open(id)
  OBVIOUS
<1> QED
  BY <1>1, OpenFinite, FS_Subset, FS_CardinalityType

LEMMA TurnType ==
    ASSUME NEW id
    PROVE  /\ Turn(id) \in {0, 1} /\ Turn(id)' \in {0, 1}
           /\ (ToPublish(id)' => ToPublish(id)) => Turn(id)' <= Turn(id)
BY DEF Turn

(* Not one copy more, and no more who may add one.                         *)
LEMMA CopiesKept ==
    ASSUME NEW id \in Ids, CopyInv(id), Slots(id)' = Slots(id), Open(id)' \subseteq Open(id),
           ToPublish(id)' => ToPublish(id),
           rows'[id].scheduledAt = "none" => rows[id].scheduledAt = "none"
    PROVE  CopyInv(id)'
<1>1. Cardinality(Slots(id)) \in Nat /\ IsFiniteSet(Slots(id)')
  BY FS_CardinalityType DEF CopyInv
<1>2. Cardinality(Slots(id)') = Cardinality(Slots(id))
  OBVIOUS
<1>3. Cardinality(Slots(id)) + Cardinality(Open(id)') + Turn(id)' <= Cardinality(Workers) + 1
  BY <1>1, OpenFinite, OpenShrinks, TurnType DEF CopyInv
<1>4. rows'[id].scheduledAt = "none" => Cardinality(Slots(id)) + Turn(id)' <= 1
  BY <1>1, TurnType DEF CopyInv
<1> QED
  BY <1>1, <1>2, <1>3, <1>4 DEF CopyInv

(* The request publishes, and will not again.                              *)
LEMMA RequestPublishes ==
    ASSUME LogOK, NEW id \in Ids, CopyInv(id), NEW n \in Nat, Publish(id, n),
           ToPublish(id), ~(ToPublish(id)'), Open(id)' \subseteq Open(id),
           rows'[id].scheduledAt = "none" => rows[id].scheduledAt = "none"
    PROVE  CopyInv(id)'
<1>1. /\ IsFiniteSet(Slots(id)') /\ Cardinality(Slots(id)) \in Nat
      /\ Cardinality(Slots(id)') = Cardinality(Slots(id)) + 1
  BY SlotsPublished DEF CopyInv
<1>2. Turn(id) = 1 /\ Turn(id)' = 0
  BY DEF Turn
<1>3. Cardinality(Slots(id)') + Cardinality(Open(id)') + Turn(id)' <= Cardinality(Workers) + 1
  BY <1>1, <1>2, OpenFinite, OpenShrinks DEF CopyInv
<1>4. rows'[id].scheduledAt = "none" => Cardinality(Slots(id)') + Turn(id)' <= 1
  BY <1>1, <1>2 DEF CopyInv
<1> QED
  BY <1>1, <1>3, <1>4 DEF CopyInv

(* A scheduler publishes the copy it had, and cannot select id again.      *)
LEMMA SchedulerPublishes ==
    ASSUME LogOK, NEW id \in Ids, CopyInv(id), NEW n \in Nat, Publish(id, n),
           NEW w \in Open(id), Open(id)' \subseteq Open(id) \ {w},
           ToPublish(id)' => ToPublish(id), rows'[id].scheduledAt # "none"
    PROVE  CopyInv(id)'
<1>1. /\ IsFiniteSet(Slots(id)') /\ Cardinality(Slots(id)) \in Nat
      /\ Cardinality(Slots(id)') = Cardinality(Slots(id)) + 1
  BY SlotsPublished DEF CopyInv
<1>2. Cardinality(Open(id)') <= Cardinality(Open(id)) - 1 /\ Cardinality(Open(id)') \in Nat
  <2> DEFINE R == Open(id) \ {w}
  <2>1. IsFiniteSet(R) /\ Cardinality(R) = Cardinality(Open(id)) - 1
    <3>1. IsFiniteSet(Open(id))
      BY OpenFinite
    <3>2. /\ IsFiniteSet(R)
          /\ Cardinality(R) = IF w \in Open(id) THEN Cardinality(Open(id)) - 1
                                                ELSE Cardinality(Open(id))
      BY <3>1, FS_RemoveElement, Zenon
    <3> QED
      BY <3>2
  <2>2. Open(id)' \in SUBSET R
    OBVIOUS
  <2> HIDE DEF R
  <2> QED
    BY <2>1, <2>2, FS_Subset, FS_CardinalityType
<1>3. Cardinality(Slots(id)') + Cardinality(Open(id)') + Turn(id)' <= Cardinality(Workers) + 1
  BY <1>1, <1>2, OpenFinite, TurnType DEF CopyInv
<1> QED
  BY <1>1, <1>3 DEF CopyInv

(***************************************************************************)
(* What a step does to a row and a request                                 *)
(***************************************************************************)
RowCalm(id) ==
    /\ Fresh(id)' => Fresh(id)
    /\ rows'[id].scheduledAt = "none" => rows[id].scheduledAt = "none"
    /\ rows[id].scheduledAt = "due" => rows'[id].scheduledAt = "due"
    /\ ToPublish(id)' => ToPublish(id)
    /\ create'[id] \in {"batched", "mark"} => rows'[id].batch # NoBatch

LEMMA RowsCalm ==
    ASSUME TypeInv, BatchInv, PromiseInv, [Next]_vars, NEW id \in Ids, RequestInv(id)
    PROVE  RowCalm(id)
<1>1. Effect(id) /\ RowsTypeOK /\ Promise(id)
  BY StepEffect DEF PromiseInv, TypeInv, TypeOK
<1> USE DEF RowCalm, Fresh, ToPublish, RequestInv
<1>2. CASE Inserted(id)
  BY <1>1, <1>2 DEF Inserted, Promise
<1>3. CASE Untouched(id) \/ Rejected(id) \/ LeftToScheduler(id) \/ HandedOver(id) \/ Ended(id)
           \/ Selected(id) \/ SentByScheduler(id)
  BY <1>3 DEF Untouched, Rejected, LeftToScheduler, HandedOver, Ended, Selected,
              SentByScheduler, SameRow, SameRequest
<1>4. CASE Queued(id) \/ BatchMarked(id) \/ Withdrawn(id) \/ MarkedByScheduler(id) \/ Handled(id)
  <2>1. /\ create'[id] = create[id] \/ create'[id] \in {"publish", "done", "settled"}
        /\ create'[id] = "publish" => create[id] \in {"inserted", "publish"}
    BY <1>4 DEF Queued, BatchMarked, Withdrawn, MarkedByScheduler, Handled, SameRequest
  <2>2. \/ SameRow(id)
        \/ \E st \in {"queued", "cancelled", "processing", "delivered", "failed"} : SetStatus(id, st)
        \/ rows'[id] = [rows[id] EXCEPT !.retryCount = @ + 1]
    BY <1>4 DEF Queued, BatchMarked, Withdrawn, MarkedByScheduler, Handled
  <2>3. /\ rows'[id].scheduledAt = rows[id].scheduledAt /\ rows'[id].batch = rows[id].batch
        /\ \/ rows'[id].status = rows[id].status
           \/ rows'[id].status \in {"queued", "cancelled", "processing", "delivered", "failed"}
    BY <1>1, <2>2, RowFields DEF SameRow
  <2> QED
    BY <2>1, <2>3
<1>5. CASE BecomesDue(id)
  BY <1>1, <1>5, RowFields DEF BecomesDue, SameRequest
<1>6. CASE RolledBack(id)
  BY <1>6 DEF RolledBack
<1> QED
  BY <1>1, <1>2, <1>3, <1>4, <1>5, <1>6 DEF Effect

(* A request publishes at most once, and Create does not roll back.        *)
RequestsCalm ==
    /\ \A o \in Ids : create'[o] = "rollback" => create[o] = "rollback"
    /\ \/ UNCHANGED log
       \/ \E id \in Ids : Publish(id, 0) /\ ToPublish(id) /\ ~(ToPublish(id)')

LEMMA CreateCalm ==
    ASSUME TypeInv, CalmStep, NEW id \in Ids,
           (\E at, k : CreateInsert(id, at, k)) \/ CreateStep(id)
    PROVE  RequestsCalm
<1>1. ServiceTypeOK /\ ~Fault
  BY NoFailure DEF TypeInv, TypeOK
<1>2. \A o \in Ids : o # id => create'[o] = create[o]
  BY <1>1, ContinueRequest, ReturnRequest
     DEF CreateInsert, CreateStep, CreateQueue, CreatePublish, CreateRollback, SameRequest
<1>3. CASE CreatePublish(id)
  <2>1. Publish(id, 0) /\ create'[id] = "done" /\ create[id] = "publish"
    BY <1>1, <1>3, ReturnRequest DEF CreatePublish
  <2> QED
    BY <1>2, <2>1 DEF RequestsCalm, ToPublish
<1>4. CASE \E at, k : CreateInsert(id, at, k)
  <2>1. UNCHANGED log /\ create'[id] \in {"inserted", "done"}
    BY <1>1, <1>4, ContinueRequest, ReturnRequest DEF CreateInsert, queueVars
  <2> QED
    BY <1>2, <2>1 DEF RequestsCalm
<1>5. CASE CreateQueue(id) \/ CreateRollback(id)
  <2>1. UNCHANGED log /\ create'[id] \in {"publish", "done"}
    BY <1>1, <1>5, ContinueRequest, ReturnRequest DEF CreateQueue, CreateRollback, queueVars
  <2> QED
    BY <1>2, <2>1 DEF RequestsCalm
<1> QED
  BY <1>3, <1>4, <1>5 DEF CreateStep

LEMMA BatchCalm ==
    ASSUME TypeInv, CalmStep,
           \/ \E b \in Batches, S \in SUBSET Ids :
                 \E keyOf \in [S -> Keys \cup {NoKey}] : CreateBatchInsert(b, keyOf)
           \/ BatchStep
    PROVE  RequestsCalm
<1>1. ServiceTypeOK /\ ~Fault
  BY NoFailure DEF TypeInv, TypeOK
<1>2. ASSUME NEW b \in Batches, NEW S \in SUBSET Ids, NEW keyOf \in [S -> Keys \cup {NoKey}],
             CreateBatchInsert(b, keyOf)
      PROVE  RequestsCalm
  <2>1. \A o \in Ids : create'[o] \in {create[o], "batched", "done"}
    BY <1>1, <1>2, ReturnRequests DEF CreateBatchInsert, SameRequest
  <2> QED
    BY <1>2, <2>1 DEF RequestsCalm, CreateBatchInsert, queueVars
<1>3. ASSUME NEW id \in Ids, BatchPublish(id)
      PROVE  RequestsCalm
  <2>1. Publish(id, 0) /\ create'[id] = "mark" /\ create[id] = "batched"
    BY <1>1, <1>3, ContinueRequest DEF BatchPublish
  <2>2. \A o \in Ids : o # id => create'[o] = create[o]
    BY <1>1, <1>3, ContinueRequest DEF BatchPublish, SameRequest
  <2> QED
    BY <2>1, <2>2 DEF RequestsCalm, ToPublish
<1>4. ASSUME NEW id \in Ids, BatchMark(id)
      PROVE  RequestsCalm
  <2>1. \A o \in Ids : create'[o] \in {create[o], "settled"}
    BY <1>1, <1>4, ContinueRequest DEF BatchMark, SameRequest
  <2> QED
    BY <1>4, <2>1 DEF RequestsCalm, BatchMark, queueVars
<1>5. ASSUME NEW b \in Batches, BatchReturn(b)
      PROVE  RequestsCalm
  <2>1. \A o \in Ids : create'[o] \in {create[o], "done"}
    BY <1>1, <1>5, ReturnRequests DEF BatchReturn, SameRequest
  <2> QED
    BY <1>5, <2>1 DEF RequestsCalm, BatchReturn, queueVars
<1> QED
  BY <1>2, <1>3, <1>4, <1>5 DEF BatchStep

LEMMA ServiceCalm ==
    ASSUME TypeInv, CalmStep, ServiceStep
    PROVE  RequestsCalm
<1>1. CASE \E id \in Ids : CancelRead(id) \/ CancelUpdate(id)
  BY <1>1 DEF RequestsCalm, CancelRead, CancelUpdate, createVars, queueVars
<1>2. ~ \E id \in Ids : RequestDies(id)
  BY NoFailure DEF RequestDies
<1>3. CASE BatchStep
  BY <1>3, BatchCalm
<1>4. ASSUME NEW id \in Ids, CreateStep(id)
      PROVE  RequestsCalm
  BY <1>4, CreateCalm
<1>5. ASSUME NEW id \in Ids, NEW at, NEW k, CreateInsert(id, at, k)
      PROVE  RequestsCalm
  BY <1>5, CreateCalm
<1>6. ASSUME NEW b \in Batches, NEW S \in SUBSET Ids, NEW keyOf \in [S -> Keys \cup {NoKey}],
             CreateBatchInsert(b, keyOf)
      PROVE  RequestsCalm
  BY <1>6, BatchCalm
<1>7. CASE NewRequest
  BY <1>1, <1>5, <1>6, <1>7, ClientAssumption DEF NewRequest
<1> QED
  BY <1>1, <1>2, <1>3, <1>4, <1>7 DEF ServiceStep

(***************************************************************************)
(* The bound on the copies is inductive                                    *)
(***************************************************************************)
LEMMA ConsumerSlots ==
    ASSUME TypeInv, NEW w \in Workers, NEW t \in Topics, ConsumerStep(w, t)
    PROVE  \A o \in Ids : Slots(o)' = Slots(o)
<1>1. LogOK
  BY DEF TypeInv, TypeOK, QueueTypeOK, LogOK
<1>2. CASE UNCHANGED log
  BY <1>2, SlotsUntouched
<1>3. CASE Fetch(w, t)
  BY <1>1, <1>3, Fetching, SlotsSame DEF Fetch
<1>4. CASE Commit(w, t)
  <2>1. consumer[w][t].slot \in DOMAIN log[t]
    BY <1>4, InHand DEF Commit, At, Holding
  <2> QED
    BY <1>1, <1>4, <2>1, Committing, SlotsSame DEF Commit
<1>5. CASE ScheduleRetry(w, t)
  <2>1. Current(w, t).id \in Ids /\ Attempts(w, t) \in Nat
    BY <1>5, InHand DEF ScheduleRetry, At, Holding
  <2> QED
    BY <1>1, <1>2, <1>5, <2>1, SlotsRetry DEF ScheduleRetry
<1> QED
  BY <1>2, <1>3, <1>4, <1>5
     DEF ConsumerStep, StopConsumer, RetryAfter, RateLimit, MarkProcessing, Send, MarkDelivered,
         Increment, MarkFailed, DeadLetter, queueVars

LEMMA OpenKept ==
    ASSUME NEW id \in Ids, RowCalm(id), UNCHANGED schedulerVars
    PROVE  Open(id)' \subseteq Open(id)
BY DEF RowCalm, schedulerVars, Open, Holds

LEMMA SchedulersKept ==
    ASSUME TypeInv, CopiesInv, \A o \in Ids : RowCalm(o), NEW w \in Workers, ~stopping'[w],
           due'[w] = due[w], marking'[w] = marking[w]
    PROVE  SchedulerInv(w)'
<1>1. \A n \in due[w] : n.id \in Ids
  BY DEF TypeInv, TypeOK, SchedulerTypeOK, Copies
<1>2. \A id \in marking[w] : id \in Ids
  BY DEF TypeInv, TypeOK, SchedulerTypeOK
<1> QED
  BY <1>1, <1>2 DEF CopiesInv, SchedulerInv, RowCalm

LEMMA RequestKept ==
    ASSUME NEW id \in Ids, RowCalm(id), create'[id] # "rollback"
    PROVE  RequestInv(id)'
BY DEF RowCalm, RequestInv

(* The schedulers do nothing in the step.                                  *)
LEMMA CopiesElsewhere ==
    ASSUME TypeInv, CopiesInv, \A o \in Ids : RowCalm(o), \A w \in Workers : ~stopping'[w],
           UNCHANGED schedulerVars,
           \/ RequestsCalm
           \/ UNCHANGED create /\ \A o \in Ids : Slots(o)' = Slots(o)
    PROVE  CopiesInv'
<1>1. \A w \in Workers : SchedulerInv(w)'
  BY SchedulersKept DEF schedulerVars
<1>2. \A o \in Ids : RequestInv(o)'
  BY RequestKept DEF RequestsCalm, CopiesInv, RequestInv
<1>3. ASSUME NEW o \in Ids, Slots(o)' = Slots(o)
      PROVE  CopyInv(o)'
  BY <1>3, CopiesKept, OpenKept DEF CopiesInv, RowCalm
<1>4. ASSUME UNCHANGED log
      PROVE  \A o \in Ids : CopyInv(o)'
  BY <1>3, <1>4, SlotsUntouched
<1>5. ASSUME NEW id \in Ids, Publish(id, 0), ToPublish(id), ~(ToPublish(id)')
      PROVE  \A o \in Ids : CopyInv(o)'
  <2>1. LogOK /\ CopyInv(id) /\ RowCalm(id)
    BY DEF TypeInv, TypeOK, QueueTypeOK, LogOK, CopiesInv
  <2>2. CopyInv(id)'
    BY <1>5, <2>1, RequestPublishes, OpenKept DEF RowCalm
  <2>3. \A o \in Ids : o # id => Slots(o)' = Slots(o)
    BY <1>5, <2>1, SlotsPublished DEF CopyInv
  <2> QED
    BY <1>3, <2>2, <2>3
<1>6. \A o \in Ids : CopyInv(o)'
  BY <1>3, <1>4, <1>5 DEF RequestsCalm
<1> QED
  BY <1>1, <1>2, <1>6 DEF CopiesInv

LEMMA SelectCopies ==
    ASSUME TypeInv, CopiesInv, \A o \in Ids : RowCalm(o), \A v \in Workers : ~stopping'[v],
           UNCHANGED create, NEW w \in Workers, SelectDue(w)
    PROVE  CopiesInv'
<1>1. /\ UNCHANGED <<rows, log, marking>> /\ marking[w] = {}
      /\ due'[w] = {[id |-> id, retryCount |-> rows[id].retryCount] : id \in GetDueScheduled}
      /\ \A v \in Workers : v # w => due'[v] = due[v]
  BY DEF SelectDue, queueVars, TypeInv, TypeOK, SchedulerTypeOK
<1>2. \A v \in Workers : v # w => SchedulerInv(v)'
  BY <1>1, SchedulersKept
<1>3. SchedulerInv(w)'
  BY <1>1 DEF SchedulerInv, GetDueScheduled
<1>4. \A o \in Ids : RequestInv(o)'
  BY RequestKept DEF CopiesInv, RequestInv
<1>5. ASSUME NEW o \in Ids
      PROVE  Open(o)' \subseteq Open(o)
  BY <1>1 DEF Open, Holds, Fresh, GetDueScheduled
<1>6. \A o \in Ids : CopyInv(o)'
  BY <1>1, <1>5, SlotsUntouched, CopiesKept DEF CopiesInv, RowCalm
<1> QED
  BY <1>2, <1>3, <1>4, <1>6 DEF CopiesInv

LEMMA PublishCopies ==
    ASSUME TypeInv, CopiesInv, CalmStep, \A o \in Ids : RowCalm(o), \A v \in Workers : ~stopping'[v],
           UNCHANGED create, NEW w \in Workers, PublishDue(w)
    PROVE  CopiesInv'
<1>1. LogOK /\ due \in [Workers -> SUBSET Copies] /\ marking \in [Workers -> SUBSET Ids]
  BY DEF TypeInv, TypeOK, QueueTypeOK, LogOK, SchedulerTypeOK
<1>2. PICK n \in due[w] : /\ due' = [due EXCEPT ![w] = @ \ {n}]
                          /\ Publish(n.id, n.retryCount)
                          /\ marking' = [marking EXCEPT ![w] = {n.id}]
  BY NoFailure DEF PublishDue
<1>3. PICK id \in Ids : id = n.id
  BY <1>1 DEF Copies
<1>4. n.retryCount \in Nat
  BY <1>1 DEF Copies
<1>5. /\ UNCHANGED rows /\ marking[w] = {}
      /\ due'[w] = due[w] \ {n} /\ marking'[w] = {id}
      /\ \A v \in Workers : v # w => due'[v] = due[v] /\ marking'[v] = marking[v]
  BY <1>1, <1>2, <1>3 DEF PublishDue
<1>6. \A m \in due[w] : m.id = id => m = n
  BY <1>3 DEF CopiesInv, SchedulerInv
<1>7. \A v \in Workers : v # w => SchedulerInv(v)'
  BY <1>5, SchedulersKept
<1>8. rows[id].scheduledAt = "due" /\ CopyInv(id)
  BY <1>3 DEF CopiesInv, SchedulerInv
<1>9. SchedulerInv(w)'
  BY <1>5, <1>6, <1>8 DEF CopiesInv, SchedulerInv
<1>10. \A o \in Ids : RequestInv(o)'
  BY RequestKept DEF CopiesInv, RequestInv
<1>11. Open(id)' \subseteq Open(id) \ {w} /\ w \in Open(id)
  BY <1>3, <1>5, <1>6 DEF Open, Holds, Fresh
<1>12. CopyInv(id)'
  BY <1>1, <1>2, <1>3, <1>4, <1>5, <1>8, <1>11, SchedulerPublishes DEF RowCalm
<1>13. ASSUME NEW o \in Ids, o # id
       PROVE  CopyInv(o)'
  <2>1. Open(o)' \subseteq Open(o)
    BY <1>5, <1>13 DEF Open, Holds, Fresh
  <2>2. Slots(o)' = Slots(o)
    BY <1>1, <1>2, <1>3, <1>4, <1>8, <1>13, SlotsPublished DEF CopyInv
  <2> QED
    BY <2>1, <2>2, CopiesKept DEF CopiesInv, RowCalm
<1> QED
  BY <1>7, <1>9, <1>10, <1>12, <1>13 DEF CopiesInv

LEMMA MarkCopies ==
    ASSUME TypeInv, CopiesInv, CalmStep, \A o \in Ids : RowCalm(o), \A v \in Workers : ~stopping'[v],
           UNCHANGED create, NEW w \in Workers, MarkQueued(w)
    PROVE  CopiesInv'
<1>1. RowsTypeOK /\ due \in [Workers -> SUBSET Copies] /\ marking \in [Workers -> SUBSET Ids]
  BY DEF TypeInv, TypeOK, SchedulerTypeOK
<1>2. PICK id \in marking[w] : UpdateStatus(id, "queued")
  BY NoFailure DEF MarkQueued
<1>3. id \in Ids /\ marking[w] = {id}
  BY <1>1, <1>2 DEF CopiesInv, SchedulerInv
<1>4. /\ UNCHANGED <<due, log>> /\ marking'[w] = {}
      /\ \A v \in Workers : v # w => marking'[v] = marking[v]
  BY <1>1 DEF MarkQueued, queueVars
<1>5. \A v \in Workers : v # w => SchedulerInv(v)'
  BY <1>4, SchedulersKept
<1>6. \A n \in due[w] : n.id \in Ids
  BY <1>1 DEF Copies
<1>7. SchedulerInv(w)'
  BY <1>4, <1>6 DEF CopiesInv, SchedulerInv, RowCalm
<1>8. \A o \in Ids : RequestInv(o)'
  BY RequestKept DEF CopiesInv, RequestInv
<1>9. ~(Fresh(id)')
  BY <1>1, <1>2, <1>3 DEF UpdateStatus, RowsTypeOK, Row, Fresh
<1>10. ASSUME NEW o \in Ids
       PROVE  Open(o)' \subseteq Open(o)
  BY <1>3, <1>4, <1>9 DEF Open, Holds, RowCalm
<1>11. \A o \in Ids : CopyInv(o)'
  BY <1>4, <1>10, SlotsUntouched, CopiesKept DEF CopiesInv, RowCalm
<1> QED
  BY <1>5, <1>7, <1>8, <1>11 DEF CopiesInv

LEMMA CopiesInit == Init => CopiesInv
<1> SUFFICES ASSUME Init
             PROVE  CopiesInv
  OBVIOUS
<1>1. \A w \in Workers : SchedulerInv(w)
  BY DEF Init, FaultsInit, SchedulerInit, SchedulerInv
<1>2. \A id \in Ids : RequestInv(id)
  BY DEF Init, ServiceInit, RequestInv
<1>3. ASSUME NEW id \in Ids
      PROVE  CopyInv(id)
  <2>1. TopicOf[id] \in Topics
    BY TopicOfAssumption DEF Topics
  <2>2. Slots(id) = {}
    BY <2>1 DEF Init, QueueInit, Slots
  <2>3. Open(id) \in SUBSET Workers
    BY DEF Open
  <2>4. Cardinality(Open(id)) <= Cardinality(Workers)
    BY <2>3, WorkersAssumption, FS_Subset
  <2> QED
    BY <2>2, <2>4, FS_EmptySet, OpenFinite, TurnType DEF CopyInv
<1> QED
  BY <1>1, <1>2, <1>3 DEF CopiesInv

LEMMA CopiesStep ==
    ASSUME TypeInv, BatchInv, PromiseInv, CopiesInv, CalmStep, [Next]_vars
    PROVE  CopiesInv'
<1>1. \A o \in Ids : RowCalm(o)
  BY RowsCalm DEF CopiesInv
<1>2. \A w \in Workers : ~stopping'[w]
  BY StaysCalm
<1>3. CASE ServiceStep /\ UNCHANGED <<workerVars, schedulerVars>>
  BY <1>1, <1>2, <1>3, ServiceCalm, CopiesElsewhere
<1>4. ASSUME NEW w \in Workers, NEW t \in Topics, ConsumerStep(w, t),
             UNCHANGED <<serviceVars, schedulerVars>>
      PROVE  CopiesInv'
  BY <1>1, <1>2, <1>4, ConsumerSlots, CopiesElsewhere DEF serviceVars, createVars
<1>5. ASSUME NEW w \in Workers, SchedulerStep(w), UNCHANGED <<serviceVars, workerVars>>
      PROVE  CopiesInv'
  BY <1>1, <1>2, <1>5, SelectCopies, PublishCopies, MarkCopies
     DEF SchedulerStep, serviceVars, createVars
<1>6. CASE UNCHANGED vars \/ \E id \in Ids : TimePasses(id)
  <2>1. UNCHANGED <<create, log, schedulerVars>>
    BY <1>6 DEF TimePasses, vars, serviceVars, createVars, queueVars
  <2> QED
    BY <1>1, <1>2, <2>1, SlotsUntouched, CopiesElsewhere
<1>7. /\ \A w \in Workers : ~Sigterm(w) /\ ~Restart(w)
      /\ ~Rebalance(MainTopics) /\ ~Rebalance({RetryTopic})
  BY NoFailure DEF Restart, Rebalance
<1> QED
  BY <1>3, <1>4, <1>5, <1>6, <1>7 DEF Next

LEMMA CalmCopies == Spec => [](TypeInv /\ BatchInv /\ PromiseInv /\ (faults = 0 => CopiesInv))
<1>1. TypeInv /\ BatchInv /\ PromiseInv /\ (faults = 0 => CopiesInv) /\ [Next]_vars
         => (faults = 0 => CopiesInv)'
  <2> SUFFICES ASSUME TypeInv, BatchInv, PromiseInv, faults = 0 => CopiesInv, [Next]_vars,
                      faults' = 0
               PROVE  CopiesInv'
    OBVIOUS
  <2>1. faults = 0
    BY FaultsGrow
  <2>2. CalmStep
    BY <2>1 DEF CopiesInv, SchedulerInv, CalmStep
  <2> QED
    BY <2>1, <2>2, CopiesStep
<1>2. Init => (faults = 0 => CopiesInv)
  BY CopiesInit
<1> QED
  BY <1>1, <1>2, PromisesHold, PTL DEF Spec

(* Without a failure no more copies of a notification reach its topic than *)
(* one for the request that made it and one for each replica: the          *)
(* schedulers take no lock (GetDueScheduled), yet each of them publishes a *)
(* notification once at most, and only one that was scheduled.             *)
THEOREM FewCopies == Spec => []CopiesBounded
<1>1. (faults = 0 => CopiesInv) => CopiesBounded
  <2> SUFFICES ASSUME CopiesInv, NEW id \in Ids
               PROVE  Cardinality(Slots(id)) <= MaxCopies(id)
    BY DEF CopiesBounded, Slots
  <2>1. CopyInv(id) /\ Cardinality(Slots(id)) \in Nat
    BY FS_CardinalityType DEF CopiesInv, CopyInv
  <2> QED
    BY <2>1, OpenFinite, TurnType DEF CopyInv, MaxCopies
<1> QED
  BY <1>1, CalmCopies, PTL

(***************************************************************************)
(* What the copies may still do                                            *)
(***************************************************************************)
Trying == {"delay", "limit", "processing", "send"}

Failing == {"increment", "retry", "failed"}

Started == {"send", "delivered", "increment", "failed", "dlq", "retry", "ack", "nack"}

InHandAt(c, t, i, steps) == \E w \in Workers : c[w][t].slot = i /\ c[w][t].at \in steps

(* With the log l and the consumers c: an attempt on message i of topic t  *)
(* is still to come, or has failed and what follows is not yet decided.    *)
Ahead(l, c, t, i) == l[t][i].state = "ready" \/ InHandAt(c, t, i, Trying)
Behind(c, t, i) == InHandAt(c, t, i, Failing)

(* The messages of id that can still lead to a delivery or to giving up:   *)
(* one for each copy, for a retry takes the place of the message it was    *)
(* made from.                                                              *)
Chains(id) ==
    {s \in Topics \X Nat :
        /\ s[2] \in DOMAIN log[s[1]] /\ log[s[1]][s[2]].id = id
        /\ Ahead(log, consumer, s[1], s[2]) \/ Behind(consumer, s[1], s[2])}

(* The attempts these messages have left, numbered up to MaxRetries.       *)
Tokens(id) ==
    {s \in Topics \X Nat \X (1 .. MaxRetries) :
        /\ s[2] \in DOMAIN log[s[1]] /\ log[s[1]][s[2]].id = id
        /\ \/ Ahead(log, consumer, s[1], s[2]) /\ s[3] > log[s[1]][s[2]].retryCount
           \/ Behind(consumer, s[1], s[2]) /\ s[3] > log[s[1]][s[2]].retryCount + 1}

SendInv(id) ==
    /\ IsFiniteSet(Chains(id)) /\ IsFiniteSet(Tokens(id))
    /\ sent[id] + Cardinality(Chains(id)) <= Cardinality(Slots(id))
    /\ MaxRetries > 0 => sent[id] + fails[id] + Cardinality(Tokens(id))
                             <= Cardinality(Slots(id)) * MaxRetries

(* What a consumer has in hand is its own, was not given back, and was     *)
(* marked processing before it was sent.                                   *)
HandInv(w, t) ==
    /\ consumer[w][t].at # "stopped"
    /\ Holding(w, t) =>
          /\ Current(w, t).state = "fetched"
          /\ \A v \in Workers :
                Holding(v, t) /\ consumer[v][t].slot = consumer[w][t].slot => v = w
    /\ consumer[w][t].at \in Started => ~Fresh(Current(w, t).id)
    /\ At(w, t, "retry") => Attempts(w, t) < MaxRetries

(* The counter of a message leaves it an attempt, unless even the first is *)
(* one too many.  What a scheduler can select was never tried.             *)
FewRetries(n) == MaxRetries > 0 => n < MaxRetries

MessagesInv == \A t \in Topics : \A i \in DOMAIN log[t] : FewRetries(log[t][i].retryCount)

UntriedInv ==
    /\ \A w \in Workers : \A n \in due[w] : n.retryCount = 0
    /\ \A id \in Ids : rows[id].retryCount > 0 => ~Fresh(id)

RetryInv == MessagesInv /\ UntriedInv

HandsInv == \A w \in Workers, t \in Topics : HandInv(w, t)

SendsInv == HandsInv /\ RetryInv /\ \A id \in Ids : SendInv(id)

(***************************************************************************)
(* Messages that lead no further                                           *)
(***************************************************************************)
(* Nothing is left to be done after the step that was not before.          *)
NoMore(id) ==
    \A t \in Topics : \A i \in DOMAIN log'[t] : log'[t][i].id = id =>
        /\ Ahead(log', consumer', t, i) =>
              i \in DOMAIN log[t] /\ Ahead(log, consumer, t, i)
        /\ Behind(consumer', t, i) =>
              i \in DOMAIN log[t] /\ (Ahead(log, consumer, t, i) \/ Behind(consumer, t, i))

LEMMA LogTypes ==
    ASSUME NEW l \in [Topics -> Seq(Message)], NEW t \in Topics, NEW i \in DOMAIN l[t]
    PROVE  i \in Nat /\ l[t][i].retryCount \in Nat /\ l[t][i].id \in Ids
<1>1. l[t] \in Seq(Message)
  OBVIOUS
<1>2. l[t][i] \in Message /\ i \in Nat
  BY <1>1
<1> QED
  BY <1>2 DEF Message

LEMMA NoMoreSets ==
    ASSUME LogOK, LogOK', Grows, NEW id \in Ids, NoMore(id)
    PROVE  Chains(id)' \subseteq Chains(id) /\ Tokens(id)' \subseteq Tokens(id)
<1>1. Chains(id)' =
        {s \in Topics \X Nat :
            /\ s[2] \in DOMAIN log'[s[1]] /\ log'[s[1]][s[2]].id = id
            /\ Ahead(log', consumer', s[1], s[2]) \/ Behind(consumer', s[1], s[2])}
  BY DEF Chains
<1>2. Tokens(id)' =
        {s \in Topics \X Nat \X (1 .. MaxRetries) :
            /\ s[2] \in DOMAIN log'[s[1]] /\ log'[s[1]][s[2]].id = id
            /\ \/ Ahead(log', consumer', s[1], s[2]) /\ s[3] > log'[s[1]][s[2]].retryCount
               \/ Behind(consumer', s[1], s[2]) /\ s[3] > log'[s[1]][s[2]].retryCount + 1}
  BY DEF Tokens
<1>3. ASSUME NEW t \in Topics, NEW i \in DOMAIN log'[t], log'[t][i].id = id,
             Ahead(log', consumer', t, i) \/ Behind(consumer', t, i)
      PROVE  /\ i \in DOMAIN log[t] /\ log[t][i].id = id
             /\ log'[t][i].retryCount = log[t][i].retryCount
             /\ log[t][i].retryCount \in Nat
             /\ Ahead(log', consumer', t, i) => Ahead(log, consumer, t, i)
             /\ Behind(consumer', t, i) =>
                   Ahead(log, consumer, t, i) \/ Behind(consumer, t, i)
  <2>1. i \in DOMAIN log[t]
    BY <1>3 DEF NoMore
  <2> QED
    BY <1>3, <2>1, LogTypes DEF NoMore, Grows, SameMessage, LogOK
<1>4. Chains(id)' \subseteq Chains(id)
  BY <1>1, <1>3 DEF Chains
<1>5. ASSUME NEW s \in Topics \X Nat \X (1 .. MaxRetries), s \in Tokens(id)'
      PROVE  s \in Tokens(id)
  <2>1. s[1] \in Topics /\ s[3] \in Nat
    BY MaxRetriesAssumption
  <2>2. /\ s[2] \in DOMAIN log'[s[1]] /\ log'[s[1]][s[2]].id = id
        /\ \/ Ahead(log', consumer', s[1], s[2]) /\ s[3] > log'[s[1]][s[2]].retryCount
           \/ Behind(consumer', s[1], s[2]) /\ s[3] > log'[s[1]][s[2]].retryCount + 1
    BY <1>2, <1>5
  <2>3. /\ s[2] \in DOMAIN log[s[1]] /\ log[s[1]][s[2]].id = id
        /\ \/ Ahead(log, consumer, s[1], s[2]) /\ s[3] > log[s[1]][s[2]].retryCount
           \/ Behind(consumer, s[1], s[2]) /\ s[3] > log[s[1]][s[2]].retryCount + 1
    BY <1>3, <2>1, <2>2
  <2> QED
    BY <2>3 DEF Tokens
<1>6. Tokens(id)' \subseteq Topics \X Nat \X (1 .. MaxRetries)
  BY <1>2
<1> QED
  BY <1>4, <1>5, <1>6

LEMMA OneTimesMore ==
    ASSUME NEW n \in Nat, NEW m \in Nat
    PROVE  n * m \in Nat /\ (n + 1) * m = n * m + m
OBVIOUS

LEMMA Fewer ==
    ASSUME NEW S, IsFiniteSet(S), NEW R, R \subseteq S
    PROVE  /\ IsFiniteSet(R) /\ Cardinality(R) <= Cardinality(S)
           /\ Cardinality(R) \in Nat /\ Cardinality(S) \in Nat
<1>1. R \in SUBSET S
  OBVIOUS
<1> QED
  BY <1>1, FS_Subset, FS_CardinalityType

(* Some elements replaced by as many others, or by fewer.                  *)
LEMMA Swapped ==
    ASSUME NEW S, IsFiniteSet(S), NEW A, A \subseteq S, NEW B, IsFiniteSet(B),
           Cardinality(B) <= Cardinality(A), NEW R, R \subseteq (S \ A) \cup B
    PROVE  IsFiniteSet(R) /\ Cardinality(R) <= Cardinality(S)
<1> DEFINE D == S \ A
           T == D \cup B
<1>1. S \cap A = A
  OBVIOUS
<1>2. IsFiniteSet(D) /\ Cardinality(D) = Cardinality(S) - Cardinality(A)
  BY <1>1, FS_Difference
<1>3. IsFiniteSet(A) /\ IsFiniteSet(D \cap B)
  BY <1>2, FS_Subset, FS_Intersection
<1>4. IsFiniteSet(T) /\ Cardinality(T) = Cardinality(D) + Cardinality(B) - Cardinality(D \cap B)
  BY <1>2, FS_Union
<1>5. /\ Cardinality(S) \in Nat /\ Cardinality(A) \in Nat /\ Cardinality(B) \in Nat
      /\ Cardinality(D) \in Nat /\ Cardinality(D \cap B) \in Nat
  BY <1>2, <1>3, FS_CardinalityType
<1>6. Cardinality(T) <= Cardinality(S)
  BY <1>2, <1>4, <1>5
<1>7. R \subseteq T
  OBVIOUS
<1> HIDE DEF T
<1> QED
  BY <1>4, <1>5, <1>6, <1>7, Fewer

Column(t, i, K) == {<<t, i, k>> : k \in K}

LEMMA ColumnCounts ==
    ASSUME NEW t, NEW i, NEW K, IsFiniteSet(K)
    PROVE  IsFiniteSet(Column(t, i, K)) /\ Cardinality(Column(t, i, K)) = Cardinality(K)
<1> DEFINE C == Column(t, i, K)
           f == [k \in K |-> <<t, i, k>>]
<1>1. f \in [K -> C]
  BY DEF Column
<1>2. \A x \in C : \E k \in K : f[k] = x
  BY DEF Column
<1>3. \A j, k \in K : f[j] = f[k] => j = k
  OBVIOUS
<1> HIDE DEF f
<1>4. f \in Bijection(K, C)
  BY <1>1, <1>2, <1>3 DEF Bijection, Injection, Surjection, IsInjective
<1>5. ExistsBijection(K, C)
  BY <1>4 DEF ExistsBijection
<1> QED
  BY <1>5, FS_Bijection

LEMMA SendsKept ==
    ASSUME NEW id \in Ids, SendInv(id), Slots(id)' = Slots(id),
           sent'[id] = sent[id], fails'[id] = fails[id],
           sent[id] \in Nat, fails[id] \in Nat,
           IsFiniteSet(Chains(id)'), Cardinality(Chains(id)') <= Cardinality(Chains(id)),
           IsFiniteSet(Tokens(id)'), Cardinality(Tokens(id)') <= Cardinality(Tokens(id)),
           IsFiniteSet(Slots(id))
    PROVE  SendInv(id)'
<1> DEFINE N == Cardinality(Slots(id))
           B == N * MaxRetries
<1>1. /\ Cardinality(Chains(id)) \in Nat /\ Cardinality(Chains(id)') \in Nat
      /\ Cardinality(Tokens(id)) \in Nat /\ Cardinality(Tokens(id)') \in Nat
      /\ N \in Nat
  BY FS_CardinalityType DEF SendInv
<1>2. B \in Nat
  BY <1>1, MaxRetriesAssumption
<1>3. /\ sent[id] + Cardinality(Chains(id)) <= N
      /\ MaxRetries > 0 => sent[id] + fails[id] + Cardinality(Tokens(id)) <= B
  BY DEF SendInv
<1>4. Cardinality(Slots(id)') = N /\ Cardinality(Slots(id)') * MaxRetries = B
  OBVIOUS
<1> HIDE DEF N, B
<1>5. /\ sent[id] + Cardinality(Chains(id)') <= N
      /\ MaxRetries > 0 => sent[id] + fails[id] + Cardinality(Tokens(id)') <= B
  BY <1>1, <1>2, <1>3
<1> QED
  BY <1>4, <1>5 DEF SendInv

(* An attempt is made: s of its two outcomes were sent, f failed.          *)
LEMMA AttemptMade ==
    ASSUME NEW id \in Ids, SendInv(id), Slots(id)' = Slots(id), IsFiniteSet(Slots(id)),
           sent[id] \in Nat, fails[id] \in Nat,
           Chains(id)' \subseteq Chains(id),
           \/ sent'[id] = sent[id] /\ fails'[id] = fails[id] + 1
           \/ /\ sent'[id] = sent[id] + 1 /\ fails'[id] = fails[id]
              /\ \E c \in Chains(id) : Chains(id)' \subseteq Chains(id) \ {c},
           MaxRetries > 0 =>
               \E k \in Tokens(id) : Tokens(id)' \subseteq Tokens(id) \ {k},
           Tokens(id)' \subseteq Tokens(id)
    PROVE  SendInv(id)'
<1> DEFINE N == Cardinality(Slots(id))
           B == N * MaxRetries
<1>1. IsFiniteSet(Chains(id)') /\ IsFiniteSet(Tokens(id)')
  BY Fewer DEF SendInv
<1>2. /\ Cardinality(Chains(id)) \in Nat /\ Cardinality(Chains(id)') \in Nat
      /\ Cardinality(Tokens(id)) \in Nat /\ Cardinality(Tokens(id)') \in Nat
      /\ N \in Nat
  BY <1>1, FS_CardinalityType DEF SendInv
<1>3. B \in Nat
  BY <1>2, MaxRetriesAssumption
<1>4. Cardinality(Chains(id)') <= Cardinality(Chains(id))
  BY Fewer DEF SendInv
<1>5. (\E c \in Chains(id) : Chains(id)' \subseteq Chains(id) \ {c})
         => Cardinality(Chains(id)') <= Cardinality(Chains(id)) - 1
  BY OneLess DEF SendInv
<1>6. MaxRetries > 0 => Cardinality(Tokens(id)') <= Cardinality(Tokens(id)) - 1
  BY OneLess DEF SendInv
<1>7. /\ sent[id] + Cardinality(Chains(id)) <= N
      /\ MaxRetries > 0 => sent[id] + fails[id] + Cardinality(Tokens(id)) <= B
  BY DEF SendInv
<1>8. Cardinality(Slots(id)') = N /\ Cardinality(Slots(id)') * MaxRetries = B
  OBVIOUS
<1> HIDE DEF N, B
<1>9. sent'[id] + Cardinality(Chains(id)') <= N
  BY <1>2, <1>4, <1>5, <1>7
<1>10. MaxRetries > 0 => sent'[id] + fails'[id] + Cardinality(Tokens(id)') <= B
  BY <1>2, <1>3, <1>6, <1>7
<1> QED
  BY <1>1, <1>8, <1>9, <1>10 DEF SendInv

(* A copy comes with one delivery and MaxRetries attempts at most.         *)
LEMMA CopyAdded ==
    ASSUME LogOK, NEW id \in Ids, NEW n \in Nat, Publish(id, n), IsFiniteSet(Slots(id)),
           SendInv(id), UNCHANGED <<sent, fails>>, sent[id] \in Nat, fails[id] \in Nat,
           NEW c, Chains(id)' \subseteq Chains(id) \cup {c},
           NEW t, NEW i,
           Tokens(id)' \subseteq Tokens(id) \cup Column(t, i, 1 .. MaxRetries)
    PROVE  SendInv(id)'
<1> DEFINE N == Cardinality(Slots(id))
           B == N * MaxRetries
           K == Column(t, i, 1 .. MaxRetries)
<1>1. /\ IsFiniteSet(Slots(id)') /\ N \in Nat
      /\ Cardinality(Slots(id)') = N + 1
  BY SlotsPublished
<1>2. /\ IsFiniteSet(Chains(id)') /\ Cardinality(Chains(id)') \in Nat
      /\ Cardinality(Chains(id)') <= Cardinality(Chains(id)) + 1
  BY OneMore DEF SendInv
<1>3. IsFiniteSet(K) /\ Cardinality(K) = MaxRetries
  <2>1. IsFiniteSet(1 .. MaxRetries) /\ Cardinality(1 .. MaxRetries) = MaxRetries
    <3>1. MaxRetries \in Int /\ 1 \in Int
      BY MaxRetriesAssumption
    <3>2. /\ IsFiniteSet(1 .. MaxRetries)
          /\ Cardinality(1 .. MaxRetries) = IF 1 > MaxRetries THEN 0 ELSE MaxRetries - 1 + 1
      BY <3>1, FS_Interval, Zenon
    <3> QED
      BY <3>2, MaxRetriesAssumption
  <2> QED
    BY <2>1, ColumnCounts
<1>4. /\ IsFiniteSet(Tokens(id)')
      /\ Cardinality(Tokens(id)') <= Cardinality(Tokens(id)) + MaxRetries
  <2> DEFINE U == Tokens(id) \cup K
             I == Tokens(id) \cap K
  <2>1. IsFiniteSet(Tokens(id))
    BY DEF SendInv
  <2>2. IsFiniteSet(U) /\ Cardinality(U) = Cardinality(Tokens(id)) + Cardinality(K) - Cardinality(I)
    BY <1>3, <2>1, FS_Union
  <2>3. IsFiniteSet(I)
    BY <1>3, <2>1, FS_Intersection
  <2>4. Tokens(id)' \subseteq U
    OBVIOUS
  <2> HIDE DEF U, I, K
  <2>5. /\ Cardinality(I) \in Nat /\ Cardinality(Tokens(id)) \in Nat /\ Cardinality(U) \in Nat
        /\ Cardinality(U) <= Cardinality(Tokens(id)) + MaxRetries
    BY <1>3, <2>1, <2>2, <2>3, FS_CardinalityType, MaxRetriesAssumption
  <2>6. /\ IsFiniteSet(Tokens(id)') /\ Cardinality(Tokens(id)') <= Cardinality(U)
        /\ Cardinality(Tokens(id)') \in Nat
    BY <2>2, <2>4, Fewer
  <2> QED
    BY <2>5, <2>6, MaxRetriesAssumption
<1>5. /\ Cardinality(Chains(id)) \in Nat /\ Cardinality(Tokens(id)) \in Nat
      /\ Cardinality(Tokens(id)') \in Nat
  BY <1>4, FS_CardinalityType DEF SendInv
<1>6. B \in Nat /\ (N + 1) * MaxRetries = B + MaxRetries
  BY <1>1, OneTimesMore, MaxRetriesAssumption
<1>7. /\ sent[id] + Cardinality(Chains(id)) <= N
      /\ MaxRetries > 0 => sent[id] + fails[id] + Cardinality(Tokens(id)) <= B
  BY DEF SendInv
<1>8. Cardinality(Slots(id)') * MaxRetries = B + MaxRetries
  BY <1>1, <1>6
<1> HIDE DEF N, B, K
<1>9. sent'[id] + Cardinality(Chains(id)') <= Cardinality(Slots(id)')
  BY <1>1, <1>2, <1>5, <1>7
<1>10. MaxRetries > 0 => sent'[id] + fails'[id] + Cardinality(Tokens(id)') <= B + MaxRetries
  BY <1>4, <1>5, <1>6, <1>7, MaxRetriesAssumption
<1> QED
  BY <1>2, <1>4, <1>8, <1>9, <1>10 DEF SendInv

(***************************************************************************)
(* A message is written, and no consumer takes up another                  *)
(***************************************************************************)
NoMoreInHand ==
    \A t \in Topics : \A i \in DOMAIN log[t] :
        /\ InHandAt(consumer', t, i, Trying) => InHandAt(consumer, t, i, Trying)
        /\ InHandAt(consumer', t, i, Failing) => InHandAt(consumer, t, i, Failing)

LEMMA WriteSets ==
    ASSUME LogOK, LogOK', NEW u \in Topics, NEW id \in Ids, NEW n \in Nat, WriteMessage(u, id, n),
           NoMoreInHand, NEW k, k = Len(log[u]) + 1
    PROVE  /\ \A o \in Ids : o # id => NoMore(o)
           /\ Chains(id)' \subseteq Chains(id) \cup {<<u, k>>}
           /\ Tokens(id)' \subseteq Tokens(id) \cup Column(u, k, (n + 1) .. MaxRetries)
<1> DEFINE m == [id |-> id, retryCount |-> n, state |-> "ready"]
<1>1. /\ \A t \in Topics : t # u => log'[t] = log[t]
      /\ log'[u] = Append(log[u], m) /\ log[u] \in Seq(Message)
  BY AppendMessage DEF LogOK
<1>2. /\ DOMAIN log'[u] = (DOMAIN log[u]) \cup {k}
      /\ \A i \in DOMAIN log[u] : log'[u][i] = log[u][i]
      /\ log'[u][k] = m
  BY <1>1
<1>3. m.id = id /\ m.retryCount = n
  OBVIOUS
<1> HIDE DEF m
<1>4. ASSUME NEW t \in Topics, NEW i \in DOMAIN log'[t], ~(t = u /\ i = k)
      PROVE  i \in DOMAIN log[t] /\ log'[t][i] = log[t][i]
  BY <1>1, <1>2, <1>4
<1>5. ASSUME NEW t \in Topics, NEW i \in DOMAIN log'[t], ~(t = u /\ i = k)
      PROVE  /\ i \in DOMAIN log[t] /\ log'[t][i] = log[t][i]
             /\ Ahead(log', consumer', t, i) => Ahead(log, consumer, t, i)
             /\ Behind(consumer', t, i) => Behind(consumer, t, i)
  BY <1>4, <1>5 DEF Ahead, Behind, NoMoreInHand
<1>6. ASSUME NEW o \in Ids, o # id
      PROVE  NoMore(o)
  BY <1>2, <1>3, <1>5, <1>6 DEF NoMore
<1>7. Chains(id)' =
        {s \in Topics \X Nat :
            /\ s[2] \in DOMAIN log'[s[1]] /\ log'[s[1]][s[2]].id = id
            /\ Ahead(log', consumer', s[1], s[2]) \/ Behind(consumer', s[1], s[2])}
  BY DEF Chains
<1>8. ASSUME NEW s \in Chains(id)', s # <<u, k>>
      PROVE  s \in Chains(id)
  <2>1. /\ s \in Topics \X Nat /\ s[1] \in Topics /\ s[2] \in DOMAIN log'[s[1]]
        /\ ~(s[1] = u /\ s[2] = k) /\ log'[s[1]][s[2]].id = id
        /\ Ahead(log', consumer', s[1], s[2]) \/ Behind(consumer', s[1], s[2])
    BY <1>7, <1>8
  <2> QED
    BY <1>5, <2>1 DEF Chains
<1>9. Tokens(id)' =
        {s \in Topics \X Nat \X (1 .. MaxRetries) :
            /\ s[2] \in DOMAIN log'[s[1]] /\ log'[s[1]][s[2]].id = id
            /\ \/ Ahead(log', consumer', s[1], s[2]) /\ s[3] > log'[s[1]][s[2]].retryCount
               \/ Behind(consumer', s[1], s[2]) /\ s[3] > log'[s[1]][s[2]].retryCount + 1}
  BY DEF Tokens
<1>10. ASSUME NEW s \in Tokens(id)'
       PROVE  s \in Tokens(id) \/ s \in Column(u, k, (n + 1) .. MaxRetries)
  <2>1. /\ s \in Topics \X Nat \X (1 .. MaxRetries) /\ s[2] \in DOMAIN log'[s[1]]
        /\ log'[s[1]][s[2]].id = id
        /\ \/ Ahead(log', consumer', s[1], s[2]) /\ s[3] > log'[s[1]][s[2]].retryCount
           \/ Behind(consumer', s[1], s[2]) /\ s[3] > log'[s[1]][s[2]].retryCount + 1
    BY <1>9, <1>10
  <2>2. s[1] \in Topics /\ s[3] \in 1 .. MaxRetries /\ s = <<s[1], s[2], s[3]>>
    BY <2>1
  <2>3. CASE ~(s[1] = u /\ s[2] = k)
    BY <1>5, <2>1, <2>2, <2>3 DEF Tokens
  <2>4. CASE s[1] = u /\ s[2] = k
    <3>1. log'[s[1]][s[2]].retryCount = n
      BY <1>2, <1>3, <2>4
    <3>2. s[3] \in (n + 1) .. MaxRetries
      BY <2>1, <2>2, <3>1, MaxRetriesAssumption
    <3> QED
      BY <2>2, <2>4, <3>2 DEF Column
  <2> QED
    BY <2>3, <2>4
<1> QED
  BY <1>6, <1>8, <1>10

LEMMA PublishSends ==
    ASSUME TypeInv, TypeInv', \A o \in Ids : IsFiniteSet(Slots(o)), \A o \in Ids : SendInv(o),
           NEW id \in Ids, NEW n \in Nat, Publish(id, n), UNCHANGED workerVars
    PROVE  \A o \in Ids : SendInv(o)'
<1>1. /\ LogOK /\ LogOK' /\ TopicOf[id] \in Topics /\ UNCHANGED <<consumer, sent, fails>>
      /\ \A o \in Ids : sent[o] \in Nat /\ fails[o] \in Nat
  BY TopicOfAssumption DEF TypeInv, TypeOK, QueueTypeOK, LogOK, WorkerTypeOK, Topics, workerVars,
     historyVars
<1>2. NoMoreInHand
  BY <1>1 DEF NoMoreInHand
<1>3. PICK k : k = Len(log[TopicOf[id]]) + 1
  OBVIOUS
<1>4. /\ \A o \in Ids : o # id => NoMore(o)
      /\ Chains(id)' \subseteq Chains(id) \cup {<<TopicOf[id], k>>}
      /\ Tokens(id)' \subseteq Tokens(id) \cup Column(TopicOf[id], k, (n + 1) .. MaxRetries)
  BY <1>1, <1>2, <1>3, WriteSets DEF Publish
<1>5. Tokens(id)' \subseteq Tokens(id) \cup Column(TopicOf[id], k, 1 .. MaxRetries)
  BY <1>4, MaxRetriesAssumption DEF Column
<1>6. SendInv(id)'
  BY <1>1, <1>4, <1>5, CopyAdded
<1>7. ASSUME NEW o \in Ids, o # id
      PROVE  SendInv(o)'
  <2>1. Slots(o)' = Slots(o)
    BY <1>1, <1>7, SlotsPublished
  <2>2. Grows
    BY <1>1, PublishType
  <2>3. Chains(o)' \subseteq Chains(o) /\ Tokens(o)' \subseteq Tokens(o)
    BY <1>1, <1>4, <1>7, <2>2, NoMoreSets
  <2>4. /\ IsFiniteSet(Chains(o)') /\ Cardinality(Chains(o)') <= Cardinality(Chains(o))
        /\ IsFiniteSet(Tokens(o)') /\ Cardinality(Tokens(o)') <= Cardinality(Tokens(o))
    BY <2>3, Fewer DEF SendInv
  <2> QED
    BY <1>1, <2>1, <2>4, SendsKept
<1> QED
  BY <1>6, <1>7

(* The other way round: nobody takes anything up, nothing is written.      *)
LEMMA NoMoreSends ==
    ASSUME TypeInv, TypeInv', Grows, NEW id \in Ids, NoMore(id), SendInv(id), IsFiniteSet(Slots(id)),
           Slots(id)' = Slots(id), sent'[id] = sent[id], fails'[id] = fails[id]
    PROVE  SendInv(id)'
<1>1. LogOK /\ LogOK' /\ sent[id] \in Nat /\ fails[id] \in Nat
  BY DEF TypeInv, TypeOK, QueueTypeOK, LogOK, WorkerTypeOK
<1>2. Chains(id)' \subseteq Chains(id) /\ Tokens(id)' \subseteq Tokens(id)
  BY <1>1, NoMoreSets
<1>3. /\ IsFiniteSet(Chains(id)') /\ Cardinality(Chains(id)') <= Cardinality(Chains(id))
      /\ IsFiniteSet(Tokens(id)') /\ Cardinality(Tokens(id)') <= Cardinality(Tokens(id))
  BY <1>2, Fewer DEF SendInv
<1> QED
  BY <1>1, <1>3, SendsKept

(***************************************************************************)
(* One consumer moves                                                      *)
(***************************************************************************)
LEMMA MoveSends ==
    ASSUME NEW w \in Workers, NEW t \in Topics, OthersStay(w, t),
           \A u \in Topics : DOMAIN log'[u] = DOMAIN log[u],
           \A u \in Topics : \A j \in DOMAIN log[u] :
               log'[u][j].state = "ready" => log[u][j].state = "ready",
           NEW i, i = consumer'[w][t].slot,
           consumer'[w][t].at \in Trying => Ahead(log, consumer, t, i),
           consumer'[w][t].at \in Failing => Ahead(log, consumer, t, i) \/ Behind(consumer, t, i)
    PROVE  \A o \in Ids : NoMore(o)
<1> SUFFICES ASSUME NEW u \in Topics, NEW j \in DOMAIN log[u]
             PROVE  /\ Ahead(log', consumer', u, j) => Ahead(log, consumer, u, j)
                    /\ Behind(consumer', u, j) =>
                          Ahead(log, consumer, u, j) \/ Behind(consumer, u, j)
  BY DEF NoMore
<1>1. \A v \in Workers : ~(v = w /\ u = t) => consumer'[v][u] = consumer[v][u]
  BY DEF OthersStay
<1>2. CASE u = t /\ j = i
  BY <1>1, <1>2 DEF Ahead, Behind, InHandAt
<1>3. CASE ~(u = t /\ j = i)
  BY <1>1, <1>3 DEF Ahead, Behind, InHandAt
<1> QED
  BY <1>2, <1>3

(* The consumer lets go of a message that it alone had.                    *)
LEMMA LetGo ==
    ASSUME NEW w \in Workers, NEW t \in Topics, OthersStay(w, t), HandInv(w, t), Holding(w, t),
           NEW i, i = consumer[w][t].slot, log'[t][i].state = "fetched",
           consumer'[w][t].at \notin Trying
    PROVE  /\ ~Ahead(log', consumer', t, i)
           /\ consumer'[w][t].at \notin Failing => ~Behind(consumer', t, i)
<1>1. \A v \in Workers : v # w => consumer'[v][t] = consumer[v][t]
  BY DEF OthersStay
<1>2. \A v \in Workers : v # w /\ consumer[v][t].slot = i =>
         consumer[v][t].at \in {"fetch", "stopped"}
  BY DEF HandInv, Holding
<1>3. \A v \in Workers : v # w => ~(consumer'[v][t].slot = i /\ consumer'[v][t].at \in Trying \cup Failing)
  BY <1>1, <1>2 DEF Trying, Failing
<1> QED
  BY <1>3 DEF Ahead, Behind, InHandAt

LEMMA ChainLeft ==
    ASSUME NEW t, NEW i, NEW id \in Ids, ~Ahead(log', consumer', t, i), ~Behind(consumer', t, i)
    PROVE  <<t, i>> \notin Chains(id)' /\ \A k : <<t, i, k>> \notin Tokens(id)'
<1>1. Chains(id)' =
        {s \in Topics \X Nat :
            /\ s[2] \in DOMAIN log'[s[1]] /\ log'[s[1]][s[2]].id = id
            /\ Ahead(log', consumer', s[1], s[2]) \/ Behind(consumer', s[1], s[2])}
  BY DEF Chains
<1>2. Tokens(id)' =
        {s \in Topics \X Nat \X (1 .. MaxRetries) :
            /\ s[2] \in DOMAIN log'[s[1]] /\ log'[s[1]][s[2]].id = id
            /\ \/ Ahead(log', consumer', s[1], s[2]) /\ s[3] > log'[s[1]][s[2]].retryCount
               \/ Behind(consumer', s[1], s[2]) /\ s[3] > log'[s[1]][s[2]].retryCount + 1}
  BY DEF Tokens
<1> QED
  BY <1>1, <1>2

LEMMA SendSends ==
    ASSUME TypeInv, TypeInv', CalmStep, HandsInv, RetryInv, NEW w \in Workers, NEW t \in Topics,
           Send(w, t), \A o \in Ids : IsFiniteSet(Slots(o)), \A o \in Ids : SendInv(o)
    PROVE  \A o \in Ids : SendInv(o)'
<1>1. /\ Holding(w, t) /\ HandInv(w, t) /\ consumer[w][t].at = "send" /\ UNCHANGED log
      /\ ConsumersOK /\ LogOK /\ LogOK'
  BY DEF Send, At, Holding, HandsInv, queueVars, TypeInv, TypeOK, WorkerTypeOK, ConsumersOK,
         QueueTypeOK, LogOK
<1>2. PICK i \in DOMAIN log[t] : i = consumer[w][t].slot
  BY <1>1, InHand
<1>3. PICK id \in Ids : id = Current(w, t).id
  BY <1>1, InHand
<1>4. PICK r \in Nat : r = log[t][i].retryCount
  BY <1>1, LogTypes DEF LogOK
<1>5. /\ log[t][i].id = id /\ log[t][i].state = "fetched" /\ i \in Nat
      /\ MaxRetries > 0 => r < MaxRetries
  BY <1>1, <1>2, <1>3, <1>4, LogTypes
     DEF Current, HandInv, RetryInv, MessagesInv, FewRetries, LogOK
<1>6. \/ /\ Goto(w, t, "delivered")
         /\ sent' = [sent EXCEPT ![id] = @ + 1] /\ UNCHANGED fails
      \/ /\ Goto(w, t, "increment")
         /\ fails' = [fails EXCEPT ![id] = @ + 1] /\ UNCHANGED sent
  BY <1>3, NoFailure DEF Send, SendAccepted, SendRejected, SendUnanswered
<1>7. /\ sent \in [Ids -> Nat] /\ fails \in [Ids -> Nat]
      /\ \A o \in Ids : o # id => sent'[o] = sent[o] /\ fails'[o] = fails[o]
      /\ \A o \in Ids : Slots(o)' = Slots(o)
  BY <1>1, <1>6, SlotsUntouched DEF TypeInv, TypeOK, WorkerTypeOK
<1>8. /\ OthersStay(w, t) /\ consumer'[w][t].slot = i
      /\ \/ /\ consumer'[w][t].at = "delivered"
            /\ sent'[id] = sent[id] + 1 /\ fails'[id] = fails[id]
         \/ /\ consumer'[w][t].at = "increment"
            /\ sent'[id] = sent[id] /\ fails'[id] = fails[id] + 1
  BY <1>1, <1>2, <1>6, <1>7, Gone
<1>9. Ahead(log, consumer, t, i)
  BY <1>1, <1>2 DEF Ahead, InHandAt, Trying
<1>10. \A o \in Ids : NoMore(o)
  BY <1>1, <1>8, <1>9, MoveSends
<1>11. /\ ~Ahead(log', consumer', t, i)
       /\ consumer'[w][t].at = "delivered" => ~Behind(consumer', t, i)
  BY <1>1, <1>2, <1>5, <1>8, LetGo DEF Trying, Failing
<1>12. Grows
  BY <1>1, LogKept
<1>13. Chains(id)' \subseteq Chains(id) /\ Tokens(id)' \subseteq Tokens(id)
  BY <1>1, <1>10, <1>12, NoMoreSets
<1>14. <<t, i>> \in Chains(id)
  BY <1>5, <1>9 DEF Chains
<1>15. MaxRetries > 0 => <<t, i, r + 1>> \in Tokens(id)
  BY <1>4, <1>5, <1>9, MaxRetriesAssumption DEF Tokens
<1>16. <<t, i, r + 1>> \notin Tokens(id)'
  <2>1. Tokens(id)' =
          {s \in Topics \X Nat \X (1 .. MaxRetries) :
              /\ s[2] \in DOMAIN log'[s[1]] /\ log'[s[1]][s[2]].id = id
              /\ \/ Ahead(log', consumer', s[1], s[2]) /\ s[3] > log'[s[1]][s[2]].retryCount
                 \/ Behind(consumer', s[1], s[2]) /\ s[3] > log'[s[1]][s[2]].retryCount + 1}
    BY DEF Tokens
  <2>2. log'[t][i].retryCount = r
    BY <1>1, <1>4
  <2> QED
    BY <1>4, <1>11, <2>1, <2>2
<1>17. consumer'[w][t].at = "delivered" => <<t, i>> \notin Chains(id)'
  BY <1>11, ChainLeft
<1>18. SendInv(id)'
  BY <1>7, <1>8, <1>13, <1>14, <1>15, <1>16, <1>17, AttemptMade
<1>19. \A o \in Ids : o # id => SendInv(o)'
  BY <1>7, <1>10, <1>12, NoMoreSends
<1> QED
  BY <1>18, <1>19

LEMMA WriteKeeps ==
    ASSUME LogOK, NEW u \in Topics, NEW id \in Ids, NEW n \in Nat, WriteMessage(u, id, n)
    PROVE  \A t \in Topics : \A i \in DOMAIN log[t] :
              i \in DOMAIN log'[t] /\ log'[t][i] = log[t][i]
<1>1. /\ \A t \in Topics : t # u => log'[t] = log[t]
      /\ log'[u] = Append(log[u], [id |-> id, retryCount |-> n, state |-> "ready"])
      /\ log[u] \in Seq(Message)
  BY AppendMessage DEF LogOK
<1> QED
  BY <1>1

(* The retry takes the place of the message that it was made from.         *)
LEMMA RetrySends ==
    ASSUME TypeInv, TypeInv', CalmStep, HandsInv, NEW w \in Workers, NEW t \in Topics,
           ScheduleRetry(w, t), \A o \in Ids : IsFiniteSet(Slots(o)), \A o \in Ids : SendInv(o)
    PROVE  \A o \in Ids : SendInv(o)'
<1>1. /\ Holding(w, t) /\ HandInv(w, t) /\ consumer[w][t].at = "retry"
      /\ UNCHANGED <<sent, fails>> /\ ConsumersOK /\ LogOK /\ LogOK' /\ RetryTopic \in Topics
      /\ \A o \in Ids : sent[o] \in Nat /\ fails[o] \in Nat
  BY DEF ScheduleRetry, At, Holding, HandsInv, historyVars, TypeInv, TypeOK, WorkerTypeOK,
         ConsumersOK, QueueTypeOK, LogOK, Topics
<1>2. PICK i \in DOMAIN log[t] : i = consumer[w][t].slot
  BY <1>1, InHand
<1>3. PICK id \in Ids : id = Current(w, t).id
  BY <1>1, InHand
<1>4. PICK r \in Nat : r = log[t][i].retryCount
  BY <1>1, LogTypes DEF LogOK
<1>5. /\ log[t][i].id = id /\ log[t][i].state = "fetched" /\ i \in Nat
      /\ Attempts(w, t) = r + 1 /\ r + 1 \in Nat
  <2>1. Current(w, t) = log[t][i] /\ Current(w, t).state = "fetched" /\ i \in Nat
    BY <1>1, <1>2, LogTypes DEF Current, HandInv, LogOK
  <2> QED
    BY <1>3, <1>4, <2>1 DEF Attempts
<1>6. PublishRetry(id, r + 1) /\ Goto(w, t, "ack")
  BY <1>3, <1>5, NoFailure DEF ScheduleRetry
<1>7. /\ OthersStay(w, t) /\ consumer'[w][t].slot = i /\ consumer'[w][t].at = "ack"
      /\ \A o \in Ids : Slots(o)' = Slots(o)
  BY <1>1, <1>2, <1>5, <1>6, Gone, SlotsRetry
<1>8. i \in DOMAIN log'[t] /\ log'[t][i] = log[t][i]
  BY <1>1, <1>5, <1>6, WriteKeeps DEF PublishRetry
<1>9. ~Ahead(log', consumer', t, i) /\ ~Behind(consumer', t, i)
  BY <1>1, <1>2, <1>5, <1>7, <1>8, LetGo DEF Trying, Failing
<1>10. NoMoreInHand
  BY <1>7 DEF NoMoreInHand, InHandAt, OthersStay, Trying, Failing
<1>11. PICK k : k = Len(log[RetryTopic]) + 1
  OBVIOUS
<1>12. /\ \A o \in Ids : o # id => NoMore(o)
       /\ Chains(id)' \subseteq Chains(id) \cup {<<RetryTopic, k>>}
       /\ Tokens(id)' \subseteq Tokens(id) \cup Column(RetryTopic, k, (r + 1 + 1) .. MaxRetries)
  BY <1>1, <1>5, <1>6, <1>10, <1>11, WriteSets DEF PublishRetry
<1>13. Behind(consumer, t, i)
  BY <1>1, <1>2 DEF Behind, InHandAt, Failing
<1>14. /\ IsFiniteSet(Chains(id)') /\ Cardinality(Chains(id)') <= Cardinality(Chains(id))
  <2> DEFINE A == {<<t, i>>}  B == {<<RetryTopic, k>>}
  <2>1. A \subseteq Chains(id)
    BY <1>5, <1>13 DEF Chains
  <2>2. IsFiniteSet(B) /\ Cardinality(B) = 1 /\ Cardinality(A) = 1
    BY FS_Singleton
  <2>3. <<t, i>> \notin Chains(id)'
    BY <1>9, ChainLeft
  <2>4. Chains(id)' \subseteq (Chains(id) \ A) \cup B
    BY <1>12, <2>3
  <2> HIDE DEF A, B
  <2>5. Cardinality(B) <= Cardinality(A)
    BY <2>2
  <2> QED
    BY <2>1, <2>2, <2>4, <2>5, Swapped DEF SendInv
<1>15. /\ IsFiniteSet(Tokens(id)') /\ Cardinality(Tokens(id)') <= Cardinality(Tokens(id))
  <2> DEFINE K == (r + 1 + 1) .. MaxRetries
             A == Column(t, i, K)  B == Column(RetryTopic, k, K)
  <2>1. A \subseteq Tokens(id)
    BY <1>4, <1>5, <1>13 DEF Tokens, Column
  <2>2. IsFiniteSet(K)
    BY <1>5, MaxRetriesAssumption, FS_Interval
  <2>3. IsFiniteSet(B) /\ Cardinality(B) = Cardinality(K) /\ Cardinality(A) = Cardinality(K)
    BY <2>2, ColumnCounts
  <2>4. Cardinality(K) \in Nat
    BY <2>2, FS_CardinalityType
  <2>5. \A x \in A : x \notin Tokens(id)'
    <3>1. \A j : <<t, i, j>> \notin Tokens(id)'
      BY <1>9, ChainLeft
    <3>2. \A x \in A : \E j : x = <<t, i, j>>
      BY DEF Column
    <3> QED
      BY <3>1, <3>2
  <2>6. Tokens(id)' \subseteq (Tokens(id) \ A) \cup B
    BY <1>12, <2>5
  <2> HIDE DEF A, B, K
  <2>7. Cardinality(B) <= Cardinality(A)
    BY <2>3, <2>4
  <2> QED
    BY <2>1, <2>3, <2>6, <2>7, Swapped DEF SendInv
<1>16. SendInv(id)'
  BY <1>1, <1>7, <1>14, <1>15, SendsKept
<1>17. Grows
  BY <1>1, <1>5, <1>6, PublishRetryType
<1>18. \A o \in Ids : o # id => SendInv(o)'
  BY <1>1, <1>7, <1>12, <1>17, NoMoreSends
<1> QED
  BY <1>16, <1>18

(***************************************************************************)
(* The other steps of a consumer                                           *)
(***************************************************************************)
LEMMA FetchStates ==
    ASSUME LogOK, NEW t \in Topics, NEW i \in DOMAIN log[t], FetchMessage(t, i)
    PROVE  /\ log[t][i].state = "ready" /\ log'[t][i].state = "fetched"
           /\ \A u \in Topics : \A j \in DOMAIN log[u] :
                 ~(u = t /\ j = i) => log'[u][j] = log[u][j]
<1> DEFINE m == [log[t][i] EXCEPT !.state = "fetched"]
           s == [log[t] EXCEPT ![i] = m]
<1>1. log[t] \in Seq(Message) /\ log[t][i] \in Message
  BY DEF LogOK
<1>2. m.state = "fetched"
  BY <1>1 DEF Message
<1>3. log' = [log EXCEPT ![t] = s] /\ log[t][i].state = "ready"
  BY DEF FetchMessage
<1>4. \A u \in Topics : log'[u] = IF u = t THEN s ELSE log[u]
  BY <1>3 DEF LogOK
<1>5. \A j \in DOMAIN log[t] : s[j] = IF j = i THEN m ELSE log[t][j]
  BY <1>1
<1> HIDE DEF m, s
<1> QED
  BY <1>2, <1>3, <1>4, <1>5

(* A commit covers, of the others, only messages that were handled.        *)
LEMMA CommitStates ==
    ASSUME LogOK, NEW t \in Topics, NEW i \in DOMAIN log[t], CommitMessage(t, i)
    PROVE  \A u \in Topics : \A j \in DOMAIN log[u] :
              /\ log'[u][j].state \in {log[u][j].state, "committed"}
              /\ ~(u = t /\ j = i) /\ log[u][j].state # "handled" => log'[u][j] = log[u][j]
<1>1. log[t] \in Seq(Message) /\ \A j \in DOMAIN log[t] : log[t][j] \in Message
  BY DEF LogOK
<1>2. PICK covered \in SUBSET {j \in DOMAIN log[t] : log[t][j].state = "handled"} :
         log' = [log EXCEPT ![t] = [j \in DOMAIN @ |->
                   IF j \in covered \cup {i} THEN [@[j] EXCEPT !.state = "committed"]
                                           ELSE @[j]]]
  BY DEF CommitMessage
<1> DEFINE s == [j \in DOMAIN log[t] |->
                   IF j \in covered \cup {i} THEN [log[t][j] EXCEPT !.state = "committed"]
                                           ELSE log[t][j]]
<1>3. \A u \in Topics : log'[u] = IF u = t THEN s ELSE log[u]
  BY <1>2 DEF LogOK
<1>4. \A j \in DOMAIN log[t] :
         /\ s[j].state \in {log[t][j].state, "committed"}
         /\ j # i /\ log[t][j].state # "handled" => s[j] = log[t][j]
  BY <1>1 DEF Message
<1> HIDE DEF s
<1> QED
  BY <1>3, <1>4

LEMMA GoSends ==
    ASSUME TypeInv, TypeInv', NEW w \in Workers, NEW t \in Topics, NEW step, Goto(w, t, step),
           step \in Trying => consumer[w][t].at \in Trying,
           step \in Failing => consumer[w][t].at \in Failing,
           UNCHANGED log, sent' = sent, fails' = fails,
           \A o \in Ids : IsFiniteSet(Slots(o)), \A o \in Ids : SendInv(o)
    PROVE  \A o \in Ids : SendInv(o)'
<1>1. ConsumersOK /\ LogOK
  BY DEF TypeInv, TypeOK, WorkerTypeOK, ConsumersOK, QueueTypeOK, LogOK
<1>2. PICK i : i = consumer[w][t].slot
  OBVIOUS
<1>3. OthersStay(w, t) /\ consumer'[w][t].slot = i /\ consumer'[w][t].at = step
  BY <1>1, <1>2, Gone
<1>4. /\ step \in Trying => Ahead(log, consumer, t, i)
      /\ step \in Failing => Behind(consumer, t, i)
  BY <1>2 DEF Ahead, Behind, InHandAt
<1>5. \A o \in Ids : NoMore(o)
  BY <1>3, <1>4, MoveSends
<1>6. Grows /\ \A o \in Ids : Slots(o)' = Slots(o)
  BY <1>1, LogKept, SlotsUntouched
<1> QED
  BY <1>5, <1>6, NoMoreSends

LEMMA FetchSends ==
    ASSUME TypeInv, TypeInv', NEW w \in Workers, NEW t \in Topics, Fetch(w, t),
           \A o \in Ids : IsFiniteSet(Slots(o)), \A o \in Ids : SendInv(o)
    PROVE  \A o \in Ids : SendInv(o)'
<1>1. ConsumersOK /\ LogOK
  BY DEF TypeInv, TypeOK, WorkerTypeOK, ConsumersOK, QueueTypeOK, LogOK
<1>2. PICK i \in DOMAIN log[t] : FetchMessage(t, i) /\ consumer' = [consumer EXCEPT ![w][t] =
         [at |-> IF t = RetryTopic THEN "delay" ELSE "limit", slot |-> i]]
  BY DEF Fetch
<1>3. OthersStay(w, t) /\ consumer'[w][t].slot = i /\ consumer'[w][t].at \in {"delay", "limit"}
  <2> DEFINE c == [at |-> IF t = RetryTopic THEN "delay" ELSE "limit", slot |-> i]
  <2>1. c.slot = i /\ c.at \in {"delay", "limit"} /\ Moves(w, t, c)
    BY <1>2 DEF Moves
  <2> HIDE DEF c
  <2> QED
    BY <1>1, <2>1, Moved
<1>4. Ahead(log, consumer, t, i)
  BY <1>1, <1>2, FetchStates DEF Ahead
<1>5. /\ Grows /\ \A u \in Topics : DOMAIN log'[u] = DOMAIN log[u]
      /\ \A u \in Topics : \A j \in DOMAIN log[u] :
            log'[u][j].state = "ready" => log[u][j].state = "ready"
  BY <1>1, <1>2, Fetching, FetchStates
<1>6. \A o \in Ids : NoMore(o)
  BY <1>3, <1>4, <1>5, MoveSends DEF Failing
<1>7. \A o \in Ids : Slots(o)' = Slots(o) /\ sent'[o] = sent[o] /\ fails'[o] = fails[o]
  BY <1>5, SlotsSame DEF Fetch, historyVars
<1> QED
  BY <1>5, <1>6, <1>7, NoMoreSends

LEMMA CommitSends ==
    ASSUME TypeInv, TypeInv', CalmStep, NEW w \in Workers, NEW t \in Topics, Commit(w, t),
           \A o \in Ids : IsFiniteSet(Slots(o)), \A o \in Ids : SendInv(o)
    PROVE  \A o \in Ids : SendInv(o)'
<1>1. ConsumersOK /\ LogOK /\ Holding(w, t)
  BY DEF Commit, At, Holding, TypeInv, TypeOK, WorkerTypeOK, ConsumersOK, QueueTypeOK, LogOK
<1>2. PICK i \in DOMAIN log[t] : i = consumer[w][t].slot
  BY <1>1, InHand
<1>3. CommitMessage(t, i) /\ Moves(w, t, Waiting)
  BY <1>2, NoFailure DEF Commit, Moves
<1>4. OthersStay(w, t) /\ consumer'[w][t].slot = 0 /\ consumer'[w][t].at = "fetch"
  BY <1>1, <1>3, Moved DEF Waiting
<1>5. /\ Grows /\ \A u \in Topics : DOMAIN log'[u] = DOMAIN log[u]
      /\ \A u \in Topics : \A j \in DOMAIN log[u] :
            log'[u][j].state = "ready" => log[u][j].state = "ready"
  BY <1>1, <1>3, Committing, CommitStates
<1>6. \A o \in Ids : NoMore(o)
  BY <1>4, <1>5, MoveSends DEF Trying, Failing
<1>7. \A o \in Ids : Slots(o)' = Slots(o) /\ sent'[o] = sent[o] /\ fails'[o] = fails[o]
  BY <1>5, SlotsSame DEF Commit
<1> QED
  BY <1>5, <1>6, <1>7, NoMoreSends

LEMMA ConsumerSends ==
    ASSUME TypeInv, TypeInv', CalmStep, HandsInv, RetryInv, NEW w \in Workers, NEW t \in Topics,
           ConsumerStep(w, t), \A o \in Ids : IsFiniteSet(Slots(o)), \A o \in Ids : SendInv(o)
    PROVE  \A o \in Ids : SendInv(o)'
<1>1. ~StopConsumer(w, t)
  BY DEF CalmStep, StopConsumer
<1>2. ASSUME NEW step, Goto(w, t, step),
             step \in Trying => consumer[w][t].at \in Trying,
             step \in Failing => consumer[w][t].at \in Failing,
             UNCHANGED log, sent' = sent, fails' = fails
      PROVE  \A o \in Ids : SendInv(o)'
  BY <1>2, GoSends
<1>3. CASE RetryAfter(w, t) \/ RateLimit(w, t) \/ MarkProcessing(w, t)
  <2>1. /\ consumer[w][t].at \in Trying /\ UNCHANGED log /\ sent' = sent /\ fails' = fails
        /\ Goto(w, t, "limit") \/ Goto(w, t, "processing") \/ Goto(w, t, "send")
    BY <1>3 DEF RetryAfter, RateLimit, MarkProcessing, At, Trying, queueVars, historyVars, CalmStep
  <2>2. \A step \in {"limit", "processing", "send"} : step \notin Failing
    BY DEF Failing
  <2> QED
    BY <1>2, <2>1, <2>2
<1>4. CASE Increment(w, t)
  <2>1. /\ consumer[w][t].at \in Failing /\ UNCHANGED log /\ sent' = sent /\ fails' = fails
        /\ Goto(w, t, "failed") \/ Goto(w, t, "retry")
    BY <1>4 DEF Increment, At, Failing, queueVars, historyVars
  <2>2. \A step \in {"failed", "retry"} : step \notin Trying
    BY DEF Trying
  <2> QED
    BY <1>2, <2>1, <2>2
<1>5. CASE MarkDelivered(w, t) \/ MarkFailed(w, t) \/ DeadLetter(w, t)
  <2>1. /\ UNCHANGED log /\ sent' = sent /\ fails' = fails
        /\ \E step \in {"ack", "nack", "dlq"} : Goto(w, t, step)
    BY <1>5 DEF MarkDelivered, MarkFailed, DeadLetter, queueVars, historyVars
  <2>2. \A step \in {"ack", "nack", "dlq"} : step \notin Trying /\ step \notin Failing
    BY DEF Trying, Failing
  <2> QED
    BY <1>2, <2>1, <2>2
<1> QED
  BY <1>1, <1>3, <1>4, <1>5, FetchSends, SendSends, RetrySends, CommitSends DEF ConsumerStep

(***************************************************************************)
(* What the consumers have in hand                                         *)
(***************************************************************************)
FreshShrinks == \A o \in Ids : Fresh(o)' => Fresh(o)

LogStays == \A t \in Topics : \A i \in DOMAIN log[t] : log'[t][i] = log[t][i]

(* A consumer that does not move, whatever the others of its topic do.     *)
LEMMA HandStays ==
    ASSUME TypeInv, FreshShrinks, NEW v \in Workers, NEW u \in Topics, HandInv(v, u),
           consumer'[v][u] = consumer[v][u],
           Holding(v, u) => log'[u][consumer[v][u].slot] = log[u][consumer[v][u].slot],
           \A x \in Workers : x # v /\ consumer'[x][u].at \notin {"fetch", "stopped"} =>
               \/ Holding(x, u) /\ consumer'[x][u].slot = consumer[x][u].slot
               \/ ~Holding(v, u)
               \/ consumer'[x][u].slot # consumer[v][u].slot
    PROVE  HandInv(v, u)'
<1>1. Holding(v, u)' <=> Holding(v, u)
  BY DEF Holding
<1>2. Holding(v, u) => Current(v, u)' = Current(v, u) /\ Current(v, u).id \in Ids
  BY InHand DEF Current
<1>3. consumer[v][u].at \in Started => Holding(v, u)
  BY DEF Started, Holding
<1>4. At(v, u, "retry") => Holding(v, u)
  BY DEF At, Holding
<1>5. consumer'[v][u].at # "stopped"
  BY DEF HandInv
<1>6. ASSUME Holding(v, u), NEW x \in Workers, Holding(x, u)',
             consumer'[x][u].slot = consumer'[v][u].slot
      PROVE  x = v
  BY <1>6 DEF HandInv, Holding
<1>7. consumer'[v][u].at \in Started => ~(Fresh(Current(v, u).id)')
  BY <1>2, <1>3 DEF HandInv, FreshShrinks
<1>8. consumer'[v][u].at \in Started => ~Fresh(Current(v, u).id)'
  BY <1>2, <1>3, <1>7 DEF Fresh, Current
<1>9. At(v, u, "retry")' => Attempts(v, u)' < MaxRetries
  BY <1>2, <1>4 DEF HandInv, Attempts, At
<1>10. Holding(v, u)' => Current(v, u)'.state = "fetched"
  BY <1>1, <1>2 DEF HandInv
<1> QED
  BY <1>1, <1>5, <1>6, <1>8, <1>9, <1>10 DEF HandInv

LEMMA HandsStay ==
    ASSUME TypeInv, HandsInv, FreshShrinks, LogStays, UNCHANGED consumer
    PROVE  HandsInv'
<1> SUFFICES ASSUME NEW v \in Workers, NEW u \in Topics
             PROVE  HandInv(v, u)'
  BY DEF HandsInv
<1>1. HandInv(v, u)
  BY DEF HandsInv
<1>2. Holding(v, u) => log'[u][consumer[v][u].slot] = log[u][consumer[v][u].slot]
  BY InHand DEF LogStays
<1> QED
  BY <1>1, <1>2, HandStays DEF Holding

(* A handler that goes on with its message.                                *)
LEMMA GoHands ==
    ASSUME TypeInv, HandsInv, FreshShrinks, LogStays,
           NEW w \in Workers, NEW t \in Topics, Holding(w, t),
           NEW step, step \notin {"fetch", "stopped"}, Goto(w, t, step),
           NEW id \in Ids, id = Current(w, t).id,
           step \in Started => consumer[w][t].at \in Started \/ ~(Fresh(id)'),
           step = "retry" => Attempts(w, t) < MaxRetries
    PROVE  HandsInv'
<1>1. ConsumersOK /\ HandInv(w, t)
  BY DEF TypeInv, TypeOK, WorkerTypeOK, ConsumersOK, HandsInv
<1>2. /\ consumer'[w][t].at = step /\ consumer'[w][t].slot = consumer[w][t].slot
      /\ OthersStay(w, t)
  BY <1>1, Gone
<1>3. consumer[w][t].slot \in DOMAIN log[t]
  BY InHand
<1>4. Current(w, t)' = Current(w, t)
  BY <1>2, <1>3 DEF Current, LogStays
<1>5. HandInv(w, t)'
  <2>1. step \in Started => ~(Fresh(id)')
    BY <1>1 DEF HandInv, FreshShrinks
  <2>2. Current(w, t)'.id = id
    BY <1>4
  <2>3. step \in Started => ~Fresh(Current(w, t).id)'
    BY <2>1, <2>2 DEF Fresh
  <2>4. Current(w, t)'.state = "fetched"
    BY <1>1, <1>4 DEF HandInv
  <2>5. At(w, t, "retry")' => Attempts(w, t)' < MaxRetries
    BY <1>2, <1>4 DEF At, Attempts
  <2>6. \A v \in Workers : Holding(v, t)' /\ consumer'[v][t].slot = consumer'[w][t].slot => v = w
    BY <1>1, <1>2 DEF HandInv, OthersStay, Holding
  <2> QED
    BY <1>2, <2>3, <2>4, <2>5, <2>6 DEF HandInv
<1>6. ASSUME NEW v \in Workers, NEW u \in Topics, ~(v = w /\ u = t)
      PROVE  HandInv(v, u)'
  <2>1. consumer'[v][u] = consumer[v][u] /\ HandInv(v, u)
    BY <1>2, <1>6 DEF OthersStay, HandsInv
  <2>2. Holding(v, u) => log'[u][consumer[v][u].slot] = log[u][consumer[v][u].slot]
    BY InHand DEF LogStays
  <2>3. \A x \in Workers : consumer'[x][u].at \notin {"fetch", "stopped"} =>
           Holding(x, u) /\ consumer'[x][u].slot = consumer[x][u].slot
    BY <1>2 DEF OthersStay, Holding
  <2> QED
    BY <2>1, <2>2, <2>3, HandStays
<1> QED
  BY <1>5, <1>6 DEF HandsInv

LEMMA FetchHands ==
    ASSUME TypeInv, HandsInv, FreshShrinks, NEW w \in Workers, NEW t \in Topics, Fetch(w, t)
    PROVE  HandsInv'
<1>1. ConsumersOK /\ LogOK
  BY DEF TypeInv, TypeOK, WorkerTypeOK, ConsumersOK, QueueTypeOK, LogOK
<1>2. PICK i \in DOMAIN log[t] : FetchMessage(t, i) /\ consumer' = [consumer EXCEPT ![w][t] =
         [at |-> IF t = RetryTopic THEN "delay" ELSE "limit", slot |-> i]]
  BY DEF Fetch
<1>3. OthersStay(w, t) /\ consumer'[w][t].slot = i /\ consumer'[w][t].at \in {"delay", "limit"}
  <2> DEFINE c == [at |-> IF t = RetryTopic THEN "delay" ELSE "limit", slot |-> i]
  <2>1. c.slot = i /\ c.at \in {"delay", "limit"} /\ Moves(w, t, c)
    BY <1>2 DEF Moves
  <2> HIDE DEF c
  <2> QED
    BY <1>1, <2>1, Moved
<1>4. /\ log[t][i].state = "ready" /\ log'[t][i].state = "fetched"
      /\ \A u \in Topics : \A j \in DOMAIN log[u] :
            ~(u = t /\ j = i) => log'[u][j] = log[u][j]
  BY <1>1, <1>2, FetchStates
<1>5. \A v \in Workers : Holding(v, t) => consumer[v][t].slot # i
  BY <1>4 DEF HandsInv, HandInv, Current
<1>6. HandInv(w, t)'
  <2>1. \A v \in Workers : Holding(v, t)' /\ consumer'[v][t].slot = i => v = w
    BY <1>3, <1>5 DEF OthersStay, Holding
  <2>2. Current(w, t)'.state = "fetched"
    BY <1>3, <1>4 DEF Current
  <2> QED
    BY <1>3, <2>1, <2>2 DEF HandInv, Started, At
<1>7. ASSUME NEW v \in Workers, NEW u \in Topics, ~(v = w /\ u = t)
      PROVE  HandInv(v, u)'
  <2>1. consumer'[v][u] = consumer[v][u] /\ HandInv(v, u)
    BY <1>3, <1>7 DEF OthersStay, HandsInv
  <2>2. Holding(v, u) => consumer[v][u].slot \in DOMAIN log[u]
    BY InHand
  <2>3. Holding(v, u) => log'[u][consumer[v][u].slot] = log[u][consumer[v][u].slot]
    BY <1>4, <1>5, <2>2
  <2>4. \A x \in Workers : x # v /\ consumer'[x][u].at \notin {"fetch", "stopped"} =>
           \/ Holding(x, u) /\ consumer'[x][u].slot = consumer[x][u].slot
           \/ ~Holding(v, u)
           \/ consumer'[x][u].slot # consumer[v][u].slot
    BY <1>3, <1>5 DEF OthersStay, Holding
  <2> QED
    BY <2>1, <2>3, <2>4, HandStays
<1> QED
  BY <1>6, <1>7 DEF HandsInv

LEMMA CommitHands ==
    ASSUME TypeInv, HandsInv, FreshShrinks, CalmStep,
           NEW w \in Workers, NEW t \in Topics, Commit(w, t)
    PROVE  HandsInv'
<1>1. ConsumersOK /\ LogOK /\ Holding(w, t) /\ HandInv(w, t)
  BY DEF Commit, At, Holding, TypeInv, TypeOK, WorkerTypeOK, ConsumersOK, QueueTypeOK, LogOK,
         HandsInv
<1>2. PICK i \in DOMAIN log[t] : i = consumer[w][t].slot
  BY <1>1, InHand
<1>3. CommitMessage(t, i) /\ Moves(w, t, Waiting)
  BY <1>2, NoFailure DEF Commit, Moves
<1>4. OthersStay(w, t) /\ consumer'[w][t].at = "fetch"
  BY <1>1, <1>3, Moved DEF Waiting
<1>5. \A u \in Topics : \A j \in DOMAIN log[u] :
         ~(u = t /\ j = i) /\ log[u][j].state # "handled" => log'[u][j] = log[u][j]
  BY <1>1, <1>3, CommitStates
<1>6. HandInv(w, t)'
  BY <1>4 DEF HandInv, Holding, At, Started
<1>7. ASSUME NEW v \in Workers, NEW u \in Topics, ~(v = w /\ u = t)
      PROVE  HandInv(v, u)'
  <2>1. consumer'[v][u] = consumer[v][u] /\ HandInv(v, u)
    BY <1>4, <1>7 DEF OthersStay, HandsInv
  <2>2. Holding(v, u) => consumer[v][u].slot \in DOMAIN log[u]
    BY InHand
  <2>3. Holding(v, u) => ~(u = t /\ consumer[v][u].slot = i)
    BY <1>1, <1>2, <1>7 DEF HandInv
  <2>4. Holding(v, u) => log'[u][consumer[v][u].slot] = log[u][consumer[v][u].slot]
    BY <1>5, <2>1, <2>2, <2>3 DEF HandInv, Current
  <2>5. \A x \in Workers : consumer'[x][u].at \notin {"fetch", "stopped"} =>
           Holding(x, u) /\ consumer'[x][u].slot = consumer[x][u].slot
    BY <1>4 DEF OthersStay, Holding
  <2> QED
    BY <2>1, <2>4, <2>5, HandStays
<1> QED
  BY <1>6, <1>7 DEF HandsInv

LEMMA ConsumerHands ==
    ASSUME TypeInv, HandsInv, FreshShrinks, CalmStep,
           NEW w \in Workers, NEW t \in Topics, ConsumerStep(w, t)
    PROVE  HandsInv'
<1>1. ~StopConsumer(w, t)
  BY DEF CalmStep, StopConsumer
<1>2. CASE Fetch(w, t)
  BY <1>2, FetchHands
<1>3. CASE Commit(w, t)
  BY <1>3, CommitHands
<1>4. LogOK /\ RowsTypeOK /\ RetryTopic \in Topics
  BY DEF TypeInv, TypeOK, QueueTypeOK, LogOK, Topics
<1>5. ASSUME ~Fetch(w, t), ~Commit(w, t)
      PROVE  HandsInv'
  <2>1. Holding(w, t)
    BY <1>1, <1>5 DEF ConsumerStep, RetryAfter, RateLimit, MarkProcessing, Send, MarkDelivered,
         Increment, MarkFailed, DeadLetter, ScheduleRetry, At, Holding
  <2>2. PICK id \in Ids : id = Current(w, t).id
    BY <2>1, InHand
  <2>3. Attempts(w, t) \in Nat
    BY <2>1, InHand
  <2>4. LogStays
    <3>1. CASE ScheduleRetry(w, t)
      BY <1>4, <2>2, <2>3, <3>1, NoFailure, WriteKeeps DEF ScheduleRetry, PublishRetry, LogStays
    <3>2. CASE UNCHANGED log
      BY <3>2 DEF LogStays
    <3> QED
      BY <1>1, <1>5, <3>1, <3>2 DEF ConsumerStep, RetryAfter, RateLimit, MarkProcessing, Send,
         MarkDelivered, Increment, MarkFailed, DeadLetter, queueVars
  <2>5. ASSUME NEW step, step \notin {"fetch", "stopped"}, Goto(w, t, step),
               step \in Started => consumer[w][t].at \in Started \/ ~(Fresh(id)'),
               step = "retry" => Attempts(w, t) < MaxRetries
        PROVE  HandsInv'
    BY <2>1, <2>2, <2>4, <2>5, GoHands
  <2>6. CASE RetryAfter(w, t)
    BY <2>5, <2>6 DEF RetryAfter, Started
  <2>7. CASE RateLimit(w, t)
    <3>1. Goto(w, t, "processing")
      BY <2>7 DEF RateLimit, CalmStep
    <3> QED
      BY <2>5, <3>1 DEF Started
  <2>8. CASE MarkProcessing(w, t)
    <3>1. UpdateStatus(id, "processing") /\ Goto(w, t, "send")
      BY <2>2, <2>8, NoFailure DEF MarkProcessing, TryUpdateStatus
    <3>2. ~(Fresh(id)')
      BY <1>4, <3>1 DEF UpdateStatus, RowsTypeOK, Row, Fresh
    <3> QED
      BY <2>5, <3>1, <3>2
  <2>9. CASE Send(w, t) \/ MarkDelivered(w, t) \/ MarkFailed(w, t) \/ DeadLetter(w, t)
               \/ ScheduleRetry(w, t)
    <3>1. /\ consumer[w][t].at \in Started
          /\ \E step \in {"delivered", "increment", "ack", "nack", "dlq"} : Goto(w, t, step)
      BY <2>9 DEF Send, SendAccepted, SendRejected, SendUnanswered, MarkDelivered, MarkFailed,
           DeadLetter, ScheduleRetry, At, Started
    <3> QED
      BY <2>5, <3>1
  <2>10. CASE Increment(w, t)
    <3>1. /\ consumer[w][t].at \in Started /\ MaxRetries \in Nat
          /\ \/ Goto(w, t, "failed")
             \/ Goto(w, t, "retry") /\ ~(Attempts(w, t) >= MaxRetries)
      BY <2>10, MaxRetriesAssumption DEF Increment, At, Started
    <3>2. ~(Attempts(w, t) >= MaxRetries) => Attempts(w, t) < MaxRetries
      BY <2>3, <3>1
    <3> QED
      BY <2>5, <3>1, <3>2
  <2> QED
    BY <1>1, <1>5, <2>6, <2>7, <2>8, <2>9, <2>10 DEF ConsumerStep
<1> QED
  BY <1>2, <1>3, <1>5

(***************************************************************************)
(* The counters of the messages and of the rows                            *)
(***************************************************************************)
LEMMA MessagesKept ==
    ASSUME MessagesInv, Grows, \A t \in Topics : DOMAIN log'[t] = DOMAIN log[t]
    PROVE  MessagesInv'
<1> SUFFICES ASSUME NEW t \in Topics, NEW i \in DOMAIN log[t]
             PROVE  FewRetries(log'[t][i].retryCount)
  BY DEF MessagesInv, FewRetries
<1>1. log'[t][i].retryCount = log[t][i].retryCount
  BY DEF Grows, SameMessage
<1> QED
  BY <1>1 DEF MessagesInv, FewRetries

LEMMA MessageWritten ==
    ASSUME LogOK, MessagesInv, NEW u \in Topics, NEW id \in Ids, NEW n \in Nat, FewRetries(n),
           WriteMessage(u, id, n)
    PROVE  MessagesInv'
<1> DEFINE m == [id |-> id, retryCount |-> n, state |-> "ready"]
<1>1. /\ \A t \in Topics : t # u => log'[t] = log[t]
      /\ log'[u] = Append(log[u], m) /\ log[u] \in Seq(Message)
  BY AppendMessage DEF LogOK
<1>2. /\ DOMAIN log'[u] = (DOMAIN log[u]) \cup {Len(log[u]) + 1}
      /\ \A i \in DOMAIN log[u] : log'[u][i] = log[u][i]
      /\ log'[u][Len(log[u]) + 1] = m
  BY <1>1
<1>3. m.retryCount = n
  OBVIOUS
<1> HIDE DEF m
<1> SUFFICES ASSUME NEW t \in Topics, NEW i \in DOMAIN log'[t]
             PROVE  FewRetries(log'[t][i].retryCount)
  BY DEF MessagesInv, FewRetries
<1>4. log'[t][i].retryCount = n \/ (i \in DOMAIN log[t] /\ log'[t][i] = log[t][i])
  BY <1>1, <1>2, <1>3
<1> QED
  BY <1>4 DEF MessagesInv, FewRetries

LEMMA ConsumerMessages ==
    ASSUME TypeInv, CalmStep, HandsInv, MessagesInv,
           NEW w \in Workers, NEW t \in Topics, ConsumerStep(w, t)
    PROVE  MessagesInv'
<1>1. LogOK
  BY DEF TypeInv, TypeOK, QueueTypeOK, LogOK
<1>2. CASE UNCHANGED log
  BY <1>1, <1>2, LogKept, MessagesKept
<1>3. CASE Fetch(w, t)
  BY <1>1, <1>3, Fetching, MessagesKept DEF Fetch
<1>4. CASE Commit(w, t)
  <2>1. consumer[w][t].slot \in DOMAIN log[t]
    BY <1>4, InHand DEF Commit, At, Holding
  <2> QED
    BY <1>1, <1>4, <2>1, Committing, MessagesKept DEF Commit
<1>5. CASE ScheduleRetry(w, t)
  <2>1. PICK id \in Ids : id = Current(w, t).id
    BY <1>5, InHand DEF ScheduleRetry, At, Holding
  <2>2. PICK n \in Nat : n = Attempts(w, t)
    BY <1>5, InHand DEF ScheduleRetry, At, Holding
  <2>3. n < MaxRetries /\ RetryTopic \in Topics
    BY <1>5, <2>2 DEF ScheduleRetry, HandsInv, HandInv, Topics
  <2>4. PublishRetry(id, n)
    BY <1>5, <2>1, <2>2, NoFailure DEF ScheduleRetry
  <2> QED
    BY <1>1, <2>3, <2>4, MessageWritten DEF PublishRetry, FewRetries
<1> QED
  BY <1>2, <1>3, <1>4, <1>5
     DEF ConsumerStep, StopConsumer, RetryAfter, RateLimit, MarkProcessing, Send, MarkDelivered,
         Increment, MarkFailed, DeadLetter, queueVars

(* IncrementRetry is for a notification that was marked processing.        *)
LEMMA RowUntried ==
    ASSUME TypeInv, HandsInv, NEW id \in Ids, Effect(id), RowCalm(id),
           rows[id].retryCount > 0 => ~Fresh(id)
    PROVE  rows'[id].retryCount > 0 => ~(Fresh(id)')
<1>1. RowsTypeOK
  BY DEF TypeInv, TypeOK
<1>2. CASE Inserted(id)
  BY <1>2 DEF Inserted
<1>3. CASE Handled(id)
  <2>1. ASSUME NEW w \in Workers, NEW t \in Topics,
               At(w, t, "increment"), Current(w, t).id = id
        PROVE  ~Fresh(id)
    <3>1. ~Fresh(Current(w, t).id)
      BY <2>1 DEF HandsInv, HandInv, At, Started
    <3> QED
      BY <2>1, <3>1
  <2>2. rows'[id].retryCount = rows[id].retryCount \/ ~Fresh(id)
    BY <1>1, <1>3, <2>1, RowFields DEF Handled, HandledAt, SameRow
  <2> QED
    BY <2>2 DEF RowCalm
<1>4. CASE ~Inserted(id) /\ ~Handled(id)
  <2>1. rows'[id].retryCount = rows[id].retryCount
    BY <1>1, <1>4, RowFields
       DEF Effect, Untouched, Rejected, LeftToScheduler, Queued, HandedOver, RolledBack,
           BatchMarked, Ended, Withdrawn, Selected, SentByScheduler, MarkedByScheduler,
           BecomesDue, SameRow
  <2> QED
    BY <2>1 DEF RowCalm
<1> QED
  BY <1>2, <1>3, <1>4

LEMMA CopiesUntried ==
    ASSUME TypeInv, UntriedInv, [Next]_vars, NEW w \in Workers, NEW n \in due'[w]
    PROVE  n.retryCount = 0
<1>1. due \in [Workers -> SUBSET Copies] /\ RowsTypeOK
  BY DEF TypeInv, TypeOK, SchedulerTypeOK
<1>2. CASE n \in due[w]
  BY <1>2 DEF UntriedInv
<1>3. ASSUME NEW v \in Workers, SelectDue(v), n \notin due[w]
      PROVE  n.retryCount = 0
  <2>1. PICK id \in GetDueScheduled : n = [id |-> id, retryCount |-> rows[id].retryCount]
    BY <1>1, <1>3 DEF SelectDue
  <2>2. id \in Ids /\ Fresh(id)
    BY <2>1 DEF GetDueScheduled, Fresh
  <2>3. rows[id].retryCount \in Nat /\ ~(rows[id].retryCount > 0)
    BY <1>1, <2>2 DEF UntriedInv, RowsTypeOK, Row
  <2> QED
    BY <2>1, <2>3
<1>4. (\E v \in Workers : SelectDue(v)) \/ due'[w] \subseteq due[w]
  BY <1>1 DEF Next, SchedulerStep, PublishDue, MarkQueued, Restart, Rebalance, TimePasses, Sigterm,
              schedulerVars, vars
<1> QED
  BY <1>2, <1>3, <1>4

LEMMA UntriedStep ==
    ASSUME TypeInv, BatchInv, HandsInv, UntriedInv, [Next]_vars, \A o \in Ids : RowCalm(o)
    PROVE  UntriedInv'
<1>1. \A o \in Ids : Effect(o)
  BY StepEffect
<1>2. ASSUME NEW o \in Ids
      PROVE  rows'[o].retryCount > 0 => ~(Fresh(o)')
  BY <1>1, RowUntried DEF UntriedInv
<1>3. \A o \in Ids : rows'[o].retryCount > 0 => ~(Fresh(o)')
  BY <1>2
<1>4. \A o \in Ids : rows'[o].retryCount > 0 => ~(rows'[o].status \in {"absent", "pending"})
  BY <1>3 DEF Fresh
<1>5. \A w \in Workers : \A n \in due'[w] : n.retryCount = 0
  BY CopiesUntried
<1> QED
  BY <1>4, <1>5 DEF UntriedInv, Fresh

(***************************************************************************)
(* The bound on the sends is inductive                                     *)
(***************************************************************************)
Writes ==
    \/ UNCHANGED log
    \/ \E id \in Ids, n \in Nat : Publish(id, n) /\ FewRetries(n)

LEMMA SchedulerWrites ==
    ASSUME TypeInv, CalmStep, UntriedInv, NEW w \in Workers, SchedulerStep(w)
    PROVE  Writes
<1>1. CASE PublishDue(w)
  <2>1. PICK n \in due[w] : Publish(n.id, n.retryCount)
    BY <1>1, NoFailure DEF PublishDue
  <2>2. n.id \in Ids /\ n.retryCount = 0
    BY DEF TypeInv, TypeOK, SchedulerTypeOK, Copies, UntriedInv
  <2> QED
    BY <2>1, <2>2 DEF Writes, FewRetries
<1>2. CASE SelectDue(w) \/ MarkQueued(w)
  BY <1>2 DEF SelectDue, MarkQueued, queueVars, Writes
<1> QED
  BY <1>1, <1>2 DEF SchedulerStep

(* A step that is no consumer's.                                           *)
LEMMA SendsElsewhere ==
    ASSUME TypeInv, TypeInv', SendsInv, FreshShrinks, UNCHANGED workerVars, Writes,
           \A o \in Ids : IsFiniteSet(Slots(o))
    PROVE  HandsInv' /\ MessagesInv' /\ \A o \in Ids : SendInv(o)'
<1>1. /\ LogOK /\ UNCHANGED <<consumer, sent, fails>>
      /\ HandsInv /\ MessagesInv /\ \A o \in Ids : SendInv(o)
  BY DEF TypeInv, TypeOK, QueueTypeOK, LogOK, workerVars, historyVars, SendsInv, RetryInv
<1>2. CASE UNCHANGED log
  <2>1. LogStays /\ Grows /\ \A o \in Ids : Slots(o)' = Slots(o)
    BY <1>1, <1>2, LogKept, SlotsUntouched DEF LogStays
  <2>2. \A o \in Ids : NoMore(o)
    BY <1>1, <1>2 DEF NoMore
  <2>3. \A o \in Ids : SendInv(o)'
    BY <1>1, <2>1, <2>2, NoMoreSends
  <2> QED
    BY <1>1, <1>2, <2>1, <2>3, HandsStay, MessagesKept
<1>3. ASSUME NEW id \in Ids, NEW n \in Nat, Publish(id, n), FewRetries(n)
      PROVE  HandsInv' /\ MessagesInv' /\ \A o \in Ids : SendInv(o)'
  <2>1. TopicOf[id] \in Topics
    BY TopicOfAssumption DEF Topics
  <2>2. LogStays /\ MessagesInv'
    BY <1>1, <1>3, <2>1, WriteKeeps, MessageWritten DEF Publish, LogStays
  <2> QED
    BY <1>1, <1>3, <2>2, HandsStay, PublishSends
<1> QED
  BY <1>2, <1>3 DEF Writes

LEMMA SendsInit == Init => SendsInv
<1> SUFFICES ASSUME Init
             PROVE  SendsInv
  OBVIOUS
<1>1. /\ \A t \in Topics : DOMAIN log[t] = {}
      /\ \A w \in Workers, t \in Topics : consumer[w][t].at = "fetch"
      /\ \A w \in Workers : due[w] = {}
  BY DEF Init, QueueInit, WorkerInit, Waiting, SchedulerInit
<1>2. HandsInv
  BY <1>1 DEF HandsInv, HandInv, Holding, At, Started
<1>3. RetryInv
  BY <1>1 DEF RetryInv, MessagesInv, UntriedInv, Init, RowsInit
<1>4. ASSUME NEW id \in Ids
      PROVE  SendInv(id)
  <2>1. TopicOf[id] \in Topics
    BY TopicOfAssumption DEF Topics
  <2>2. Chains(id) = {} /\ Tokens(id) = {} /\ Slots(id) = {}
    BY <1>1, <2>1 DEF Chains, Tokens, Slots
  <2>3. sent[id] = 0 /\ fails[id] = 0
    BY DEF Init, WorkerInit
  <2>4. IsFiniteSet({}) /\ Cardinality({}) = 0
    BY FS_EmptySet
  <2>5. 0 * MaxRetries = 0
    BY MaxRetriesAssumption
  <2> QED
    BY <2>2, <2>3, <2>4, <2>5, MaxRetriesAssumption DEF SendInv
<1> QED
  BY <1>2, <1>3, <1>4 DEF SendsInv

LEMMA SendsStep ==
    ASSUME TypeInv, TypeInv', BatchInv, PromiseInv, CopiesInv, SendsInv, CalmStep, [Next]_vars
    PROVE  SendsInv'
<1>1. \A o \in Ids : RowCalm(o) /\ IsFiniteSet(Slots(o))
  BY RowsCalm DEF CopiesInv, CopyInv
<1>2. FreshShrinks
  BY <1>1 DEF RowCalm, FreshShrinks
<1>3. HandsInv /\ RetryInv /\ MessagesInv /\ UntriedInv /\ \A o \in Ids : SendInv(o)
  BY DEF SendsInv, RetryInv
<1>4. UntriedInv'
  BY <1>1, <1>3, UntriedStep
<1>5. HandsInv' /\ MessagesInv' /\ \A o \in Ids : SendInv(o)'
  <2>1. CASE ServiceStep /\ UNCHANGED <<workerVars, schedulerVars>>
    <3>1. Writes
      BY <2>1, ServiceCalm DEF RequestsCalm, Writes, FewRetries
    <3> QED
      BY <1>1, <1>2, <2>1, <3>1, SendsElsewhere
  <2>2. ASSUME NEW w \in Workers, NEW t \in Topics, ConsumerStep(w, t)
        PROVE  HandsInv' /\ MessagesInv' /\ \A o \in Ids : SendInv(o)'
    BY <1>1, <1>2, <1>3, <2>2, ConsumerHands, ConsumerMessages, ConsumerSends
  <2>3. ASSUME NEW w \in Workers, SchedulerStep(w), UNCHANGED <<serviceVars, workerVars>>
        PROVE  HandsInv' /\ MessagesInv' /\ \A o \in Ids : SendInv(o)'
    BY <1>1, <1>2, <1>3, <2>3, SchedulerWrites, SendsElsewhere
  <2>4. CASE UNCHANGED vars \/ \E id \in Ids : TimePasses(id)
    <3>1. UNCHANGED workerVars /\ Writes
      BY <2>4 DEF TimePasses, vars, queueVars, Writes
    <3> QED
      BY <1>1, <1>2, <3>1, SendsElsewhere
  <2>5. /\ \A w \in Workers : ~Sigterm(w) /\ ~Restart(w)
        /\ ~Rebalance(MainTopics) /\ ~Rebalance({RetryTopic})
    BY NoFailure DEF Restart, Rebalance
  <2> QED
    BY <2>1, <2>2, <2>3, <2>4, <2>5 DEF Next
<1> QED
  BY <1>4, <1>5 DEF SendsInv, RetryInv

CalmInv == CopiesInv /\ SendsInv

LEMMA CalmStays == Spec => [](TypeInv /\ BatchInv /\ PromiseInv /\ (faults = 0 => CalmInv))
<1>1. TypeInv /\ TypeInv' /\ BatchInv /\ PromiseInv /\ (faults = 0 => CopiesInv)
         /\ (faults = 0 => SendsInv) /\ [Next]_vars => (faults = 0 => SendsInv)'
  <2> SUFFICES ASSUME TypeInv, TypeInv', BatchInv, PromiseInv, faults = 0 => CopiesInv,
                      faults = 0 => SendsInv, [Next]_vars, faults' = 0
               PROVE  SendsInv'
    OBVIOUS
  <2>1. faults = 0
    BY FaultsGrow
  <2>2. CalmStep
    BY <2>1 DEF CopiesInv, SchedulerInv, CalmStep
  <2> QED
    BY <2>1, <2>2, SendsStep
<1>2. Init => (faults = 0 => SendsInv)
  BY SendsInit
<1>3. (faults = 0 => CopiesInv) /\ (faults = 0 => SendsInv) => (faults = 0 => CalmInv)
  BY DEF CalmInv
<1> QED
  BY <1>1, <1>2, <1>3, CalmCopies, PTL DEF Spec

LEMMA TimesMonotone ==
    ASSUME NEW m \in Nat, NEW n \in Nat, NEW k \in Nat, n <= m
    PROVE  n * k <= m * k /\ n * k \in Nat /\ m * k \in Nat
OBVIOUS

(* Without a failure the provider accepts a notification at most once per  *)
(* copy that Create and the schedulers published, and a copy is attempted  *)
(* MAX_RETRIES times at most, whichever messages carry its attempts:       *)
(* handleFailure publishes a retry only in the place of the message it     *)
(* handles, one attempt poorer.                                            *)
THEOREM FewSends == Spec => []SendsBounded
<1>1. TypeInv /\ (faults = 0 => CalmInv) => SendsBounded
  <2> SUFFICES ASSUME TypeInv, CalmInv, NEW id \in Ids
               PROVE  /\ sent[id] <= MaxCopies(id)
                      /\ MaxRetries > 0 => sent[id] + fails[id] <= MaxCopies(id) * MaxRetries
    BY DEF SendsBounded
  <2>1. CopyInv(id) /\ SendInv(id) /\ sent[id] \in Nat /\ fails[id] \in Nat
    BY DEF CalmInv, CopiesInv, SendsInv, TypeInv, TypeOK, WorkerTypeOK
  <2>2. /\ Cardinality(Slots(id)) \in Nat /\ Cardinality(Chains(id)) \in Nat
        /\ Cardinality(Tokens(id)) \in Nat
    BY <2>1, FS_CardinalityType DEF CopyInv, SendInv
  <2>3. Cardinality(Slots(id)) <= MaxCopies(id) /\ MaxCopies(id) \in Nat
    BY <2>1, <2>2, OpenFinite, TurnType DEF CopyInv, MaxCopies
  <2>4. /\ Cardinality(Slots(id)) * MaxRetries <= MaxCopies(id) * MaxRetries
        /\ Cardinality(Slots(id)) * MaxRetries \in Nat /\ MaxCopies(id) * MaxRetries \in Nat
    BY <2>2, <2>3, TimesMonotone, MaxRetriesAssumption
  <2>5. /\ sent[id] + Cardinality(Chains(id)) <= Cardinality(Slots(id))
        /\ MaxRetries > 0 => sent[id] + fails[id] + Cardinality(Tokens(id))
                                <= Cardinality(Slots(id)) * MaxRetries
    BY <2>1 DEF SendInv
  <2>6. PICK b \in Nat : b = Cardinality(Slots(id)) * MaxRetries
    BY <2>4
  <2>7. PICK c \in Nat : c = MaxCopies(id) * MaxRetries
    BY <2>4
  <2> QED
    BY <2>1, <2>2, <2>3, <2>4, <2>5, <2>6, <2>7
<1> QED
  BY <1>1, CalmStays, PTL

(***************************************************************************)
(* What was delivered stays delivered                                      *)
(***************************************************************************)
(* A notification that was not scheduled and was sent has no copy to be    *)
(* published, and no message whose handling is still undecided.            *)
LEMMA SentOnceForAll ==
    ASSUME TypeInv, CalmInv, NEW id \in Ids, rows[id].scheduledAt = "none", sent[id] > 0
    PROVE  ~ToPublish(id) /\ Chains(id) = {}
<1>1. CopyInv(id) /\ SendInv(id) /\ sent[id] \in Nat
  BY DEF CalmInv, CopiesInv, SendsInv, TypeInv, TypeOK, WorkerTypeOK
<1>2. Cardinality(Slots(id)) \in Nat /\ Cardinality(Chains(id)) \in Nat /\ IsFiniteSet(Chains(id))
  BY <1>1, FS_CardinalityType DEF CopyInv, SendInv
<1>3. /\ Cardinality(Slots(id)) + Turn(id) <= 1
      /\ sent[id] + Cardinality(Chains(id)) <= Cardinality(Slots(id))
  BY <1>1 DEF CopyInv, SendInv
<1>4. Cardinality(Chains(id)) = 0 /\ Turn(id) = 0
  BY <1>1, <1>2, <1>3, TurnType
<1> QED
  BY <1>2, <1>4, FS_EmptySet DEF Turn

(* A handler about to mark the notification processing or failed has such  *)
(* a message.                                                              *)
LEMMA HandledChain ==
    ASSUME TypeInv, NEW id \in Ids, HandledAt(id, "processing") \/ HandledAt(id, "failed")
    PROVE  Chains(id) # {}
<1>1. PICK w \in Workers, t \in Topics :
         /\ At(w, t, "processing") \/ At(w, t, "failed")
         /\ Current(w, t).id = id
  BY DEF HandledAt
<1>2. PICK i : i = consumer[w][t].slot
  OBVIOUS
<1>3. i \in DOMAIN log[t] /\ log[t][i].id = id
  BY <1>1, <1>2, InHand DEF At, Holding, Current
<1>4. i \in Nat
  BY <1>3, LogTypes DEF TypeInv, TypeOK, QueueTypeOK
<1>5. Ahead(log, consumer, t, i) \/ Behind(consumer, t, i)
  BY <1>1, <1>2 DEF Ahead, Behind, InHandAt, Trying, Failing, At
<1>6. <<t, i>> \in Chains(id)
  BY <1>3, <1>4, <1>5 DEF Chains
<1> QED
  BY <1>6

(* Without a failure, what Create queued and a worker delivered stays      *)
(* delivered: Create sets the row to queued before it publishes, its one   *)
(* copy is attempted until it is sent, and no handler is left then that    *)
(* could set the status again.                                             *)
THEOREM DeliveredStays == Spec => DeliveredIsFinal
<1> DEFINE Stays(id) ==
        /\ rows[id].status = "delivered"
        /\ rows[id].scheduledAt = "none" /\ rows[id].batch = NoBatch
        /\ faults' = 0
        => rows'[id].status = "delivered"
<1>1. TypeInv /\ BatchInv /\ PromiseInv /\ (faults = 0 => CalmInv) /\ DeliveredIsSent /\ [Next]_vars
         => \A id \in Ids : Stays(id)
  <2> SUFFICES ASSUME TypeInv, BatchInv, PromiseInv, faults = 0 => CalmInv, DeliveredIsSent,
                      [Next]_vars, NEW id \in Ids, rows[id].status = "delivered",
                      rows[id].scheduledAt = "none", rows[id].batch = NoBatch, faults' = 0
               PROVE  rows'[id].status = "delivered"
    OBVIOUS
  <2>1. CalmInv /\ sent[id] > 0
    BY FaultsGrow DEF DeliveredIsSent
  <2>2. /\ ~ToPublish(id) /\ Chains(id) = {} /\ RowsTypeOK /\ Effect(id)
        /\ Promise(id) /\ RequestInv(id) /\ ~Marked(id)
    BY <2>1, SentOnceForAll, StepEffect
       DEF TypeInv, TypeOK, PromiseInv, CalmInv, CopiesInv, SchedulerInv, Marked
  <2>3. create[id] \notin {"none", "inserted", "publish", "batched", "mark", "rollback"}
    BY <2>2 DEF ToPublish, RequestInv
  <2>4. CASE Handled(id)
    <3>1. ~HandledAt(id, "processing") /\ ~HandledAt(id, "failed")
      BY <2>2, HandledChain
    <3> QED
      BY <2>2, <2>4, <3>1, RowFields DEF Handled, SameRow
  <2>5. CASE Withdrawn(id) \/ BecomesDue(id)
    BY <2>5 DEF Withdrawn, BecomesDue, IsCancellable
  <2>6. CASE ~Handled(id) /\ ~Withdrawn(id) /\ ~BecomesDue(id)
    <3>1. SameRow(id)
      BY <2>2, <2>3, <2>6
         DEF Effect, Untouched, Inserted, Rejected, LeftToScheduler, Queued, HandedOver, RolledBack,
             BatchMarked, Ended, Selected, SentByScheduler, MarkedByScheduler
    <3> QED
      BY <3>1 DEF SameRow
  <2> QED
    BY <2>4, <2>5, <2>6
<1>2. DeliveredIsFinal <=> [][\A id \in Ids : Stays(id)]_vars
  BY DEF DeliveredIsFinal
<1> HIDE DEF Stays
<1> QED
  BY <1>1, <1>2, CalmStays, DeliveredIsTrue, PTL DEF Spec

=============================================================================
