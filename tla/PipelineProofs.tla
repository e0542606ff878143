--------------------------- MODULE PipelineProofs ---------------------------
(***************************************************************************)
(* Theorems about Pipeline, for any number of notifications, topics,       *)
(* workers, retries and failures.                                          *)
(***************************************************************************)
EXTENDS Pipeline, SequenceTheorems, FiniteSetTheorems, TLAPS

(***************************************************************************)
(* One element more or less in a finite set.                               *)
(***************************************************************************)
LEMMA OneMore ==
    ASSUME NEW S, NEW R, NEW x, IsFiniteSet(S), R \subseteq S \cup {x}
    PROVE  IsFiniteSet(R) /\ Cardinality(R) \in Nat /\ Cardinality(R) <= Cardinality(S) + 1
<1> DEFINE T == S \cup {x}
<1>1. Cardinality(S) \in Nat
  BY FS_CardinalityType
<1>2. /\ IsFiniteSet(T)
      /\ Cardinality(T) = IF x \in S THEN Cardinality(S) ELSE Cardinality(S) + 1
  BY FS_AddElement, Zenon
<1>3. Cardinality(T) <= Cardinality(S) + 1
  <2> HIDE DEF T
  <2> QED
    BY <1>1, <1>2
<1>4. R \in SUBSET T
  OBVIOUS
<1> HIDE DEF T
<1>5. IsFiniteSet(R) /\ Cardinality(R) <= Cardinality(T)
  BY <1>2, <1>4, FS_Subset
<1>6. Cardinality(R) \in Nat /\ Cardinality(T) \in Nat
  BY <1>2, <1>5, FS_CardinalityType
<1> QED
  BY <1>1, <1>3, <1>5, <1>6

LEMMA OneLess ==
    ASSUME NEW S, NEW R, NEW x \in S, IsFiniteSet(S), R \subseteq S \ {x}
    PROVE  IsFiniteSet(R) /\ Cardinality(R) \in Nat /\ Cardinality(R) <= Cardinality(S) - 1
<1> DEFINE T == S \ {x}
<1>1. Cardinality(S) \in Nat
  BY FS_CardinalityType
<1>2. /\ IsFiniteSet(T)
      /\ Cardinality(T) = IF x \in S THEN Cardinality(S) - 1 ELSE Cardinality(S)
  BY FS_RemoveElement, Zenon
<1>3. R \in SUBSET T
  OBVIOUS
<1> HIDE DEF T
<1>4. IsFiniteSet(R) /\ Cardinality(R) <= Cardinality(T)
  BY <1>2, <1>3, FS_Subset
<1>5. Cardinality(R) \in Nat /\ Cardinality(T) \in Nat
  BY <1>2, <1>4, FS_CardinalityType
<1> QED
  BY <1>1, <1>2, <1>4, <1>5

(***************************************************************************)
(* The log.  No step removes a message or changes its id or retryCount.    *)
(***************************************************************************)
LogOK == log \in [Topics -> Seq(Message)]

SameMessage(m, n) == n.id = m.id /\ n.retryCount = m.retryCount

Grows ==
    \A t \in Topics : \A i \in DOMAIN log[t] :
        i \in DOMAIN log'[t] /\ SameMessage(log[t][i], log'[t][i])

(* A message is finished after the step only if it was before: what is new *)
(* is pending, and what was pending still is.                              *)
Retains ==
    \A t \in Topics : \A i \in DOMAIN log'[t] :
        Pending(log'[t][i]) \/ (i \in DOMAIN log[t] /\ ~Pending(log[t][i]))

(* A sequence with each element replaced is a sequence.                    *)
LEMMA Replaced ==
    ASSUME NEW S, NEW s \in Seq(S), NEW f \in [DOMAIN s -> S]
    PROVE  f \in Seq(S) /\ DOMAIN f = DOMAIN s
<1>1. Len(s) \in Nat /\ DOMAIN s = 1 .. Len(s)
  OBVIOUS
<1>2. f \in [1 .. Len(s) -> S]
  BY <1>1
<1> QED
  BY <1>1, <1>2

LEMMA Messages ==
    ASSUME NEW l \in [Topics -> Seq(Message)]
    PROVE  \A t \in Topics : \A i \in DOMAIN l[t] :
              l[t][i] \in Message /\ l[t][i].retryCount \in Nat
<1>1. \A t \in Topics : l[t] \in Seq(Message)
  OBVIOUS
<1>2. \A m \in Message : m.retryCount \in Nat
  BY DEF Message
<1> QED
  BY <1>1, <1>2

LEMMA AppendMessage ==
    ASSUME LogOK, NEW t \in Topics, NEW id \in Ids, NEW n \in Nat, WriteMessage(t, id, n)
    PROVE  /\ LogOK' /\ Grows /\ Retains
           /\ \A u \in Topics : u # t => log'[u] = log[u]
           /\ log'[t] = Append(log[t], [id |-> id, retryCount |-> n, state |-> "ready"])
<1> DEFINE m == [id |-> id, retryCount |-> n, state |-> "ready"]
<1>1. m \in Message
  BY DEF Message
<1>2. log' = [log EXCEPT ![t] = Append(@, m)]
  BY DEF WriteMessage
<1>3. log[t] \in Seq(Message)
  BY DEF LogOK
<1>4. Append(log[t], m) \in Seq(Message)
  BY <1>1, <1>3
<1>5. LogOK'
  BY <1>2, <1>4 DEF LogOK
<1>6. /\ DOMAIN log[t] = 1 .. Len(log[t])
      /\ DOMAIN Append(log[t], m) = 1 .. Len(log[t]) + 1
      /\ \A i \in DOMAIN log[t] : Append(log[t], m)[i] = log[t][i]
      /\ Append(log[t], m)[Len(log[t]) + 1] = m
      /\ Len(log[t]) \in Nat
  BY <1>1, <1>3
<1>7. \A u \in Topics : u # t => log'[u] = log[u]
  BY <1>2 DEF LogOK
<1>8. log'[t] = Append(log[t], m)
  BY <1>2 DEF LogOK
<1>9. Pending(m)
  BY DEF Pending
<1> HIDE DEF m
<1>10. Grows
  BY <1>6, <1>7, <1>8 DEF Grows, SameMessage
<1>11. ASSUME NEW u \in Topics, NEW i \in DOMAIN log'[u]
       PROVE  Pending(log'[u][i]) \/ (i \in DOMAIN log[u] /\ ~Pending(log[u][i]))
  <2>1. CASE u # t
    BY <1>7, <2>1
  <2>2. CASE u = t /\ i \in DOMAIN log[t]
    BY <1>6, <1>8, <2>2
  <2>3. CASE u = t /\ i \notin DOMAIN log[t]
    <3>1. i = Len(log[t]) + 1
      BY <1>6, <1>8, <1>11, <2>3
    <3> QED
      BY <1>6, <1>8, <1>9, <2>3, <3>1
  <2> QED
    BY <2>1, <2>2, <2>3
<1> QED
  BY <1>5, <1>7, <1>8, <1>10, <1>11 DEF m, Retains

LEMMA Fetching ==
    ASSUME LogOK, NEW t \in Topics, NEW i \in DOMAIN log[t], FetchMessage(t, i)
    PROVE  LogOK' /\ Grows /\ Retains /\ \A u \in Topics : DOMAIN log'[u] = DOMAIN log[u]
<1> DEFINE m == [log[t][i] EXCEPT !.state = "fetched"]
           s == [log[t] EXCEPT ![i] = m]
<1>1. log[t] \in Seq(Message) /\ log[t][i] \in Message
  BY DEF LogOK
<1>2. m \in Message
  BY <1>1 DEF Message
<1>3. s \in Seq(Message) /\ DOMAIN s = DOMAIN log[t]
  BY <1>1, <1>2, Replaced
<1>4. log' = [log EXCEPT ![t] = s]
  BY DEF FetchMessage
<1>5. LogOK'
  BY <1>3, <1>4 DEF LogOK
<1>6. \A u \in Topics : log'[u] = IF u = t THEN s ELSE log[u]
  BY <1>4 DEF LogOK
<1>7. SameMessage(log[t][i], m) /\ Pending(m)
  BY <1>1 DEF Message, SameMessage, Pending
<1>8. \A j \in DOMAIN log[t] : s[j] = IF j = i THEN m ELSE log[t][j]
  BY <1>1
<1> HIDE DEF m, s
<1>9. Grows
  BY <1>3, <1>6, <1>7, <1>8 DEF Grows, SameMessage
<1>10. Retains
  BY <1>3, <1>6, <1>7, <1>8 DEF Retains
<1> QED
  BY <1>3, <1>5, <1>6, <1>9, <1>10

(* A commit ends the message it names, and no other that was pending.      *)
LEMMA Committing ==
    ASSUME LogOK, NEW t \in Topics, NEW i \in DOMAIN log[t],
           CommitMessage(t, i) \/ CommitFails(t, i)
    PROVE  /\ LogOK' /\ Grows
           /\ \A u \in Topics : DOMAIN log'[u] = DOMAIN log[u]
           /\ \A u \in Topics : \A j \in DOMAIN log[u] :
                 Pending(log[u][j]) /\ ~(u = t /\ j = i) => Pending(log'[u][j])
<1>1. log[t] \in Seq(Message) /\ \A j \in DOMAIN log[t] : log[t][j] \in Message
  BY DEF LogOK
<1>2. CASE CommitMessage(t, i)
  <2>1. PICK covered \in SUBSET {j \in DOMAIN log[t] : log[t][j].state = "handled"} :
           log' = [log EXCEPT ![t] = [j \in DOMAIN @ |->
                     IF j \in covered \cup {i} THEN [@[j] EXCEPT !.state = "committed"]
                                             ELSE @[j]]]
    BY <1>2 DEF CommitMessage
  <2> DEFINE s == [j \in DOMAIN log[t] |->
                     IF j \in covered \cup {i} THEN [log[t][j] EXCEPT !.state = "committed"]
                                             ELSE log[t][j]]
  <2>2. log' = [log EXCEPT ![t] = s]
    BY <2>1 DEF LogOK
  <2>3. s \in [DOMAIN log[t] -> Message]
    BY <1>1 DEF Message
  <2>4. s \in Seq(Message) /\ DOMAIN s = DOMAIN log[t]
    BY <1>1, <2>3, Replaced
  <2>5. LogOK'
    BY <2>2, <2>4 DEF LogOK
  <2>6. \A u \in Topics : log'[u] = IF u = t THEN s ELSE log[u]
    BY <2>2 DEF LogOK
  <2>7. \A j \in DOMAIN log[t] :
           /\ SameMessage(log[t][j], s[j])
           /\ Pending(log[t][j]) /\ j # i => Pending(s[j])
    BY <1>1 DEF Message, SameMessage, Pending
  <2> HIDE DEF s
  <2> QED
    BY <2>4, <2>5, <2>6, <2>7 DEF Grows, SameMessage
<1>3. CASE CommitFails(t, i)
  <2> DEFINE m == [log[t][i] EXCEPT !.state = IF @ = "fetched" THEN "handled" ELSE @]
             s == [log[t] EXCEPT ![i] = m]
  <2>1. m \in Message /\ SameMessage(log[t][i], m)
    BY <1>1 DEF Message, SameMessage
  <2>2. s \in Seq(Message) /\ DOMAIN s = DOMAIN log[t]
    BY <1>1, <2>1, Replaced
  <2>3. log' = [log EXCEPT ![t] = s]
    BY <1>3 DEF CommitFails
  <2>4. LogOK'
    BY <2>2, <2>3 DEF LogOK
  <2>5. \A u \in Topics : log'[u] = IF u = t THEN s ELSE log[u]
    BY <2>3 DEF LogOK
  <2>6. \A j \in DOMAIN log[t] : s[j] = IF j = i THEN m ELSE log[t][j]
    BY <1>1
  <2> HIDE DEF m, s
  <2> QED
    BY <2>1, <2>2, <2>4, <2>5, <2>6 DEF Grows, SameMessage
<1> QED
  BY <1>2, <1>3

LEMMA Redelivering ==
    ASSUME LogOK, NEW groups, Redeliver(groups)
    PROVE  LogOK' /\ Grows /\ Retains /\ \A t \in Topics : DOMAIN log'[t] = DOMAIN log[t]
<1>1. \A t \in Topics : /\ log[t] \in Seq(Message)
                        /\ \A i \in DOMAIN log[t] : log[t][i] \in Message
  BY DEF LogOK
<1>2. \A t \in Topics : \A i \in DOMAIN log[t] :
         /\ Redelivered(log[t][i]) \in Message
         /\ SameMessage(log[t][i], Redelivered(log[t][i]))
         /\ Pending(log[t][i]) => Pending(Redelivered(log[t][i]))
  BY <1>1 DEF Message, Redelivered, SameMessage, Pending
<1>3. \A t \in Topics :
         log'[t] = IF t \in groups THEN [i \in DOMAIN log[t] |-> Redelivered(log[t][i])]
                                   ELSE log[t]
  BY DEF Redeliver
<1>4. ASSUME NEW t \in Topics
      PROVE  log'[t] \in Seq(Message) /\ DOMAIN log'[t] = DOMAIN log[t]
  <2> DEFINE s == [i \in DOMAIN log[t] |-> Redelivered(log[t][i])]
  <2>1. s \in [DOMAIN log[t] -> Message]
    BY <1>2
  <2>2. s \in Seq(Message) /\ DOMAIN s = DOMAIN log[t]
    BY <1>1, <2>1, Replaced
  <2> QED
    BY <1>1, <1>3, <2>2
<1>5. LogOK'
  BY <1>4 DEF LogOK, Redeliver
<1>6. Grows
  BY <1>2, <1>3, <1>4 DEF Grows, SameMessage
<1>7. Retains
  BY <1>2, <1>3 DEF Retains
<1> QED
  BY <1>4, <1>5, <1>6, <1>7

(***************************************************************************)
(* Types.  A consumer that is neither waiting nor stopped has a message of *)
(* its topic in hand.                                                      *)
(***************************************************************************)
Holding(w, t) == consumer[w][t].at \notin {"fetch", "stopped"}

SlotsOK ==
    \A w \in Workers, t \in Topics :
        Holding(w, t) => consumer[w][t].slot \in DOMAIN log[t]

ConsumersOK ==
    consumer \in [Workers -> [Topics -> [at : ConsumerSteps, slot : Nat]]]

TypeInv == TypeOK /\ SlotsOK

LEMMA StatusType ==
    ASSUME RowsTypeOK, NEW id, NEW status \in Statuses, UpdateStatus(id, status)
    PROVE  RowsTypeOK'
<1>1. \A i \in Ids : [rows[i] EXCEPT !.status = status] \in Row
  BY DEF RowsTypeOK, Row
<1> QED
  BY <1>1 DEF RowsTypeOK, UpdateStatus

LEMMA IncrementType ==
    ASSUME RowsTypeOK, NEW id, IncrementRetry(id)
    PROVE  RowsTypeOK'
<1>1. \A i \in Ids : [rows[i] EXCEPT !.retryCount = @ + 1] \in Row
  BY DEF RowsTypeOK, Row
<1> QED
  BY <1>1 DEF RowsTypeOK, IncrementRetry

LEMMA CreateType ==
    ASSUME RowsTypeOK, NEW id \in Ids, NEW at \in Schedules, NEW k \in Keys \cup {NoKey},
           Create(id, at, k)
    PROVE  RowsTypeOK'
<1>1. NewRow(at, k, NoBatch) \in Row
  BY DEF NewRow, Row, Statuses
<1> QED
  BY <1>1 DEF RowsTypeOK, Create

LEMMA CreateBatchType ==
    ASSUME RowsTypeOK, NEW b \in Batches, NEW S \in SUBSET Ids,
           NEW keyOf \in [S -> Keys \cup {NoKey}], CreateBatch(b, keyOf)
    PROVE  RowsTypeOK'
<1>1. \A id \in S : NewRow("none", keyOf[id], b) \in Row
  BY DEF NewRow, Row, Statuses, Schedules
<1> QED
  BY <1>1 DEF RowsTypeOK, CreateBatch

LEMMA CancelType ==
    ASSUME RowsTypeOK, NEW id, Cancel(id)
    PROVE  RowsTypeOK'
<1>1. UpdateStatus(id, "cancelled")
  BY DEF Cancel, UpdateStatus
<1> QED
  BY <1>1, StatusType DEF Statuses

LEMMA FaultsType ==
    ASSUME FaultsTypeOK, NoFault \/ Fault
    PROVE  FaultsTypeOK'
BY MaxFaultsAssumption DEF FaultsTypeOK, NoFault, faultVars, Fault

LEMMA CallsType ==
    ASSUME FaultsTypeOK, NEW w, CallSucceeds(w) \/ CallFails(w)
    PROVE  FaultsTypeOK'
BY FaultsType DEF CallSucceeds, CallFails

LEMMA GotoType ==
    ASSUME LogOK, ConsumersOK, SlotsOK, Grows,
           NEW w \in Workers, NEW t \in Topics, NEW step \in ConsumerSteps,
           Goto(w, t, step), Holding(w, t) \/ step = "stopped"
    PROVE  ConsumersOK' /\ SlotsOK'
<1> DEFINE c == [consumer[w][t] EXCEPT !.at = step]
<1>1. c \in [at : ConsumerSteps, slot : Nat] /\ c.at = step /\ c.slot = consumer[w][t].slot
  BY DEF ConsumersOK
<1>2. consumer' = [consumer EXCEPT ![w] = [consumer[w] EXCEPT ![t] = c]]
  BY DEF Goto
<1> HIDE DEF c
<1>3. ConsumersOK'
  BY <1>1, <1>2 DEF ConsumersOK
<1>4. \A v \in Workers, u \in Topics :
         consumer'[v][u] = IF v = w /\ u = t THEN c ELSE consumer[v][u]
  BY <1>2 DEF ConsumersOK
<1>5. SlotsOK'
  BY <1>1, <1>4 DEF SlotsOK, Holding, Grows
<1> QED
  BY <1>3, <1>5

LEMMA SlotsKept ==
    ASSUME SlotsOK, Grows, UNCHANGED consumer
    PROVE  SlotsOK'
BY DEF SlotsOK, Holding, Grows

LEMMA LogKept ==
    ASSUME LogOK, UNCHANGED log
    PROVE  LogOK' /\ Grows /\ Retains
BY DEF LogOK, Grows, Retains, SameMessage

(* What is known of a consumer with a message in hand.                     *)
LEMMA InHand ==
    ASSUME TypeInv, NEW w \in Workers, NEW t \in Topics, Holding(w, t)
    PROVE  /\ consumer[w][t].slot \in DOMAIN log[t]
           /\ Current(w, t) \in Message
           /\ Current(w, t).id \in Ids
           /\ Attempts(w, t) \in Nat
<1>1. consumer[w][t].slot \in DOMAIN log[t] /\ log[t] \in Seq(Message)
  BY DEF TypeInv, TypeOK, QueueTypeOK, SlotsOK
<1>2. Current(w, t) \in Message
  BY <1>1 DEF Current
<1> QED
  BY <1>1, <1>2 DEF Message, Attempts

LEMMA PublishType ==
    ASSUME LogOK, NEW id \in Ids, NEW n \in Nat, Publish(id, n) \/ UNCHANGED log
    PROVE  LogOK' /\ Grows /\ Retains
<1>1. CASE Publish(id, n)
  <2>1. TopicOf[id] \in Topics
    BY TopicOfAssumption DEF Topics
  <2> QED
    BY <1>1, <2>1, AppendMessage DEF Publish
<1>2. CASE UNCHANGED log
  BY <1>2, LogKept
<1> QED
  BY <1>1, <1>2

LEMMA PublishRetryType ==
    ASSUME LogOK, NEW id \in Ids, NEW n \in Nat, PublishRetry(id, n) \/ UNCHANGED log
    PROVE  LogOK' /\ Grows /\ Retains
<1>1. CASE PublishRetry(id, n)
  BY <1>1, AppendMessage DEF PublishRetry, Topics
<1>2. CASE UNCHANGED log
  BY <1>2, LogKept
<1> QED
  BY <1>1, <1>2

(***************************************************************************)
(* What the steps of the API leave: its own variables typed, the log       *)
(* grown, the workers untouched.                                           *)
(***************************************************************************)
ServiceKeeps ==
    RowsTypeOK' /\ LogOK' /\ Grows /\ Retains /\ dlq' = dlq /\ FaultsTypeOK' /\ ServiceTypeOK'

LEMMA ContinueType ==
    ASSUME ServiceTypeOK, NEW id, NEW step \in CreateSteps, Continue(id, step)
    PROVE  ServiceTypeOK'
BY DEF ServiceTypeOK, Continue, cancelVars

LEMMA ReturnType ==
    ASSUME ServiceTypeOK, NEW S,
           NEW answer \in {"none", "accepted", "error", "conflict"}, ReturnAll(S, answer)
    PROVE  ServiceTypeOK'
BY DEF ServiceTypeOK, ReturnAll, cancelVars, CreateSteps

LEMMA CreateServiceType ==
    ASSUME TypeInv, NEW id \in Ids,
           \/ \E at \in Schedules, k \in Keys \cup {NoKey} : CreateInsert(id, at, k)
           \/ CreateStep(id)
    PROVE  ServiceKeeps
<1> USE DEF TypeInv, TypeOK, QueueTypeOK, LogOK
<1>1. ASSUME NEW at \in Schedules, NEW k \in Keys \cup {NoKey}, CreateInsert(id, at, k)
      PROVE  ServiceKeeps
  <2>1. RowsTypeOK'
    BY <1>1, CreateType DEF CreateInsert, RowsTypeOK
  <2>2. FaultsTypeOK'
    BY <1>1, FaultsType DEF CreateInsert
  <2>3. ServiceTypeOK'
    BY <1>1, ContinueType, ReturnType DEF CreateInsert, Return, CreateSteps
  <2> QED
    BY <1>1, <2>1, <2>2, <2>3, LogKept DEF ServiceKeeps, CreateInsert, queueVars
<1>2. CASE CreateQueue(id)
  <2>1. RowsTypeOK'
    BY <1>2, StatusType DEF CreateQueue, RowsTypeOK, Statuses
  <2>2. FaultsTypeOK'
    BY <1>2, FaultsType DEF CreateQueue
  <2>3. ServiceTypeOK'
    BY <1>2, ContinueType, ReturnType DEF CreateQueue, Return, CreateSteps
  <2> QED
    BY <1>2, <2>1, <2>2, <2>3, LogKept DEF ServiceKeeps, CreateQueue, queueVars
<1>3. CASE CreatePublish(id)
  <2>1. FaultsTypeOK'
    BY <1>3, FaultsType DEF CreatePublish
  <2>2. ServiceTypeOK'
    BY <1>3, ContinueType, ReturnType DEF CreatePublish, Return, CreateSteps
  <2>3. LogOK' /\ Grows /\ Retains
    BY <1>3, PublishType DEF CreatePublish
  <2> QED
    BY <1>3, <2>1, <2>2, <2>3 DEF ServiceKeeps, CreatePublish, RowsTypeOK
<1>4. CASE CreateRollback(id)
  <2>1. RowsTypeOK'
    BY <1>4, StatusType DEF CreateRollback, RowsTypeOK, Statuses
  <2>2. FaultsTypeOK'
    BY <1>4, FaultsType DEF CreateRollback
  <2>3. ServiceTypeOK'
    BY <1>4, ReturnType DEF CreateRollback, Return
  <2> QED
    BY <1>4, <2>1, <2>2, <2>3, LogKept DEF ServiceKeeps, CreateRollback, queueVars
<1> QED
  BY <1>1, <1>2, <1>3, <1>4 DEF CreateStep

LEMMA BatchServiceType ==
    ASSUME TypeInv,
           \/ \E b \in Batches, S \in SUBSET Ids \ {{}} :
                 \E keyOf \in [S -> Keys \cup {NoKey}] : CreateBatchInsert(b, keyOf)
           \/ BatchStep
    PROVE  ServiceKeeps
<1> USE DEF TypeInv, TypeOK, QueueTypeOK, LogOK
<1>1. ASSUME NEW b \in Batches, NEW S \in SUBSET Ids,
             NEW keyOf \in [S -> Keys \cup {NoKey}], CreateBatchInsert(b, keyOf)
      PROVE  ServiceKeeps
  <2>1. RowsTypeOK'
    BY <1>1, CreateBatchType DEF CreateBatchInsert, RowsTypeOK
  <2>2. FaultsTypeOK'
    BY <1>1, FaultsType DEF CreateBatchInsert
  <2>3. ServiceTypeOK'
    <3>1. CASE ReturnAll(DOMAIN keyOf, "conflict") \/ ReturnAll(DOMAIN keyOf, "error")
      BY <3>1, ReturnType
    <3>2. CASE /\ create' = [id \in Ids |-> IF id \in DOMAIN keyOf THEN "batched"
                                                                  ELSE create[id]]
               /\ UNCHANGED <<reply, cancelVars>>
      BY <3>2 DEF ServiceTypeOK, CreateSteps, cancelVars
    <3> QED
      BY <1>1, <3>1, <3>2 DEF CreateBatchInsert
  <2> QED
    BY <1>1, <2>1, <2>2, <2>3, LogKept DEF ServiceKeeps, CreateBatchInsert, queueVars
<1>2. ASSUME NEW id \in Ids, BatchPublish(id)
      PROVE  ServiceKeeps
  <2>1. FaultsTypeOK'
    BY <1>2, FaultsType DEF BatchPublish
  <2>2. ServiceTypeOK'
    BY <1>2, ContinueType DEF BatchPublish, CreateSteps
  <2>3. LogOK' /\ Grows /\ Retains
    BY <1>2, PublishType DEF BatchPublish
  <2> QED
    BY <1>2, <2>1, <2>2, <2>3 DEF ServiceKeeps, BatchPublish, RowsTypeOK
<1>3. ASSUME NEW id \in Ids, BatchMark(id)
      PROVE  ServiceKeeps
  <2>1. RowsTypeOK'
    BY <1>3, StatusType DEF BatchMark, RowsTypeOK, Statuses
  <2>2. FaultsTypeOK'
    BY <1>3, FaultsType DEF BatchMark
  <2>3. ServiceTypeOK'
    BY <1>3, ContinueType DEF BatchMark, CreateSteps
  <2> QED
    BY <1>3, <2>1, <2>2, <2>3, LogKept DEF ServiceKeeps, BatchMark, queueVars
<1>4. ASSUME NEW b \in Batches, BatchReturn(b)
      PROVE  ServiceKeeps
  <2>1. ServiceTypeOK'
    BY <1>4, ReturnType DEF BatchReturn
  <2> QED
    BY <1>4, <2>1, LogKept, FaultsType
       DEF ServiceKeeps, BatchReturn, queueVars, RowsTypeOK, NoFault
<1> QED
  BY <1>1, <1>2, <1>3, <1>4 DEF BatchStep

LEMMA CancelServiceType ==
    ASSUME TypeInv, NEW id \in Ids, CancelRead(id) \/ CancelUpdate(id) \/ RequestDies(id)
    PROVE  ServiceKeeps
<1> USE DEF TypeInv, TypeOK, QueueTypeOK, LogOK
<1>1. CASE CancelRead(id)
  <2>1. ServiceTypeOK'
    BY <1>1 DEF CancelRead, ServiceTypeOK, createVars
  <2> QED
    BY <1>1, <2>1, LogKept, FaultsType
       DEF ServiceKeeps, CancelRead, queueVars, RowsTypeOK, NoFault
<1>2. CASE CancelUpdate(id)
  <2>1. RowsTypeOK'
    BY <1>2, CancelType DEF CancelUpdate, RowsTypeOK
  <2>2. FaultsTypeOK'
    BY <1>2, FaultsType DEF CancelUpdate
  <2>3. ServiceTypeOK'
    BY <1>2 DEF CancelUpdate, ServiceTypeOK, createVars
  <2> QED
    BY <1>2, <2>1, <2>2, <2>3, LogKept DEF ServiceKeeps, CancelUpdate, queueVars
<1>3. CASE RequestDies(id)
  <2>1. ServiceTypeOK'
    BY <1>3, ReturnType DEF RequestDies
  <2> QED
    BY <1>3, <2>1, LogKept, FaultsType DEF ServiceKeeps, RequestDies, queueVars, RowsTypeOK
<1> QED
  BY <1>1, <1>2, <1>3

(***************************************************************************)
(* What the steps of a consumer leave.                                     *)
(***************************************************************************)
HistoryOK == sent \in [Ids -> Nat] /\ fails \in [Ids -> Nat] /\ errored \in SUBSET Ids

QueueKeeps == LogOK' /\ Grows /\ dlq' \in SUBSET Ids

ConsumerKeeps ==
    RowsTypeOK' /\ QueueKeeps /\ FaultsTypeOK' /\ ConsumersOK' /\ SlotsOK' /\ HistoryOK'

LEMMA TryUpdateType ==
    ASSUME RowsTypeOK, FaultsTypeOK, NEW w, NEW id, NEW status \in Statuses,
           TryUpdateStatus(w, id, status)
    PROVE  RowsTypeOK' /\ FaultsTypeOK'
BY StatusType, CallsType DEF TryUpdateStatus, RowsTypeOK

LEMMA QueueKept ==
    ASSUME LogOK, dlq \in SUBSET Ids, UNCHANGED queueVars
    PROVE  QueueKeeps
BY LogKept DEF QueueKeeps, queueVars

LEMMA ConsumerStepType ==
    ASSUME TypeInv, NEW w \in Workers, NEW t \in Topics, ConsumerStep(w, t)
    PROVE  ConsumerKeeps
<1> DEFINE c == Current(w, t)
           i == consumer[w][t].slot
<1>1. /\ RowsTypeOK /\ LogOK /\ dlq \in SUBSET Ids /\ FaultsTypeOK
      /\ ConsumersOK /\ SlotsOK /\ HistoryOK
  BY DEF TypeInv, TypeOK, QueueTypeOK, WorkerTypeOK, LogOK, ConsumersOK, HistoryOK
<1>2. Holding(w, t) => /\ i \in DOMAIN log[t] /\ c.id \in Ids /\ Attempts(w, t) \in Nat
  BY InHand
<1>3. \A step : At(w, t, step) /\ step \notin {"fetch", "stopped"} => Holding(w, t)
  BY DEF At, Holding
<1> HIDE DEF c, i
<1>4. CASE Fetch(w, t)
  <2>1. PICK j \in DOMAIN log[t] :
           /\ FetchMessage(t, j)
           /\ consumer' = [consumer EXCEPT ![w][t] =
                 [at |-> IF t = RetryTopic THEN "delay" ELSE "limit", slot |-> j]]
    BY <1>4 DEF Fetch
  <2>2. LogOK' /\ Grows
    BY <1>1, <2>1, Fetching
  <2> DEFINE d == [at |-> IF t = RetryTopic THEN "delay" ELSE "limit", slot |-> j]
  <2>3. j \in Nat
    BY <1>1 DEF LogOK
  <2>4. d \in [at : ConsumerSteps, slot : Nat] /\ d.slot = j
    BY <2>3 DEF ConsumerSteps
  <2>5. consumer' = [consumer EXCEPT ![w] = [consumer[w] EXCEPT ![t] = d]]
    BY <2>1
  <2> HIDE DEF d
  <2>6. ConsumersOK'
    BY <1>1, <2>4, <2>5 DEF ConsumersOK
  <2>7. \A v \in Workers, u \in Topics :
           consumer'[v][u] = IF v = w /\ u = t THEN d ELSE consumer[v][u]
    BY <1>1, <2>5 DEF ConsumersOK
  <2>8. SlotsOK'
    BY <1>1, <2>2, <2>4, <2>7 DEF SlotsOK, Holding, Grows
  <2> QED
    BY <1>1, <1>4, <2>2, <2>6, <2>8, FaultsType
       DEF Fetch, ConsumerKeeps, QueueKeeps, RowsTypeOK, HistoryOK, historyVars, NoFault
<1>5. CASE StopConsumer(w, t)
  <2>1. ConsumersOK' /\ SlotsOK'
    BY <1>1, <1>5, LogKept, GotoType DEF StopConsumer, queueVars, ConsumerSteps
  <2> QED
    BY <1>1, <1>5, <2>1, QueueKept, FaultsType
       DEF StopConsumer, ConsumerKeeps, RowsTypeOK, HistoryOK, historyVars, NoFault
<1>6. CASE RetryAfter(w, t) \/ RateLimit(w, t)
  <2>1. ConsumersOK' /\ SlotsOK'
    BY <1>1, <1>3, <1>6, LogKept, GotoType DEF RetryAfter, RateLimit, queueVars, ConsumerSteps
  <2> QED
    BY <1>1, <1>6, <2>1, QueueKept, FaultsType
       DEF RetryAfter, RateLimit, ConsumerKeeps, RowsTypeOK, HistoryOK, historyVars, NoFault
<1>7. CASE MarkProcessing(w, t) \/ MarkDelivered(w, t) \/ MarkFailed(w, t)
  <2>1. ConsumersOK' /\ SlotsOK'
    BY <1>1, <1>3, <1>7, LogKept, GotoType
       DEF MarkProcessing, MarkDelivered, MarkFailed, queueVars, ConsumerSteps
  <2>2. RowsTypeOK' /\ FaultsTypeOK'
    BY <1>1, <1>7, TryUpdateType DEF MarkProcessing, MarkDelivered, MarkFailed, Statuses
  <2> QED
    BY <1>1, <1>7, <2>1, <2>2, QueueKept
       DEF MarkProcessing, MarkDelivered, MarkFailed, ConsumerKeeps, HistoryOK, historyVars
<1>8. CASE Send(w, t)
  <2>1. ConsumersOK' /\ SlotsOK'
    BY <1>1, <1>3, <1>8, LogKept, GotoType
       DEF Send, SendAccepted, SendRejected, SendUnanswered, queueVars, ConsumerSteps
  <2>2. FaultsTypeOK'
    BY <1>1, <1>8, FaultsType, CallsType
       DEF Send, SendAccepted, SendRejected, SendUnanswered, NoFault
  <2>3. HistoryOK'
    BY <1>1, <1>8 DEF Send, SendAccepted, SendRejected, SendUnanswered, HistoryOK
  <2> QED
    BY <1>1, <1>8, <2>1, <2>2, <2>3, QueueKept DEF Send, ConsumerKeeps, RowsTypeOK
<1>9. CASE Increment(w, t)
  <2>1. ConsumersOK' /\ SlotsOK'
    BY <1>1, <1>3, <1>9, LogKept, GotoType DEF Increment, queueVars, ConsumerSteps
  <2>2. RowsTypeOK' /\ FaultsTypeOK'
    BY <1>1, <1>9, IncrementType, CallsType DEF Increment, RowsTypeOK
  <2> QED
    BY <1>1, <1>9, <2>1, <2>2, QueueKept DEF Increment, ConsumerKeeps, HistoryOK, historyVars
<1>10. CASE DeadLetter(w, t)
  <2>1. FaultsTypeOK' /\ dlq' \in SUBSET Ids
    BY <1>1, <1>2, <1>3, <1>10, CallsType DEF DeadLetter, PublishDLQ, c
  <2>2. ConsumersOK' /\ SlotsOK'
    BY <1>1, <1>3, <1>10, LogKept, GotoType DEF DeadLetter, ConsumerSteps
  <2> QED
    BY <1>1, <1>10, <2>1, <2>2, LogKept
       DEF DeadLetter, ConsumerKeeps, QueueKeeps, RowsTypeOK, HistoryOK, historyVars
<1>11. CASE ScheduleRetry(w, t)
  <2>1. FaultsTypeOK'
    BY <1>1, <1>11, CallsType DEF ScheduleRetry
  <2>2. LogOK' /\ Grows
    BY <1>1, <1>2, <1>3, <1>11, PublishRetryType DEF ScheduleRetry, c
  <2>3. ConsumersOK' /\ SlotsOK'
    BY <1>1, <1>3, <1>11, <2>2, GotoType DEF ScheduleRetry, ConsumerSteps
  <2> QED
    BY <1>1, <1>11, <2>1, <2>2, <2>3
       DEF ScheduleRetry, ConsumerKeeps, QueueKeeps, RowsTypeOK, HistoryOK, historyVars
<1>12. CASE Commit(w, t)
  <2>1. Holding(w, t)
    BY <1>3, <1>12 DEF Commit
  <2>2. LogOK' /\ Grows
    BY <1>1, <1>2, <1>12, <2>1, Committing DEF Commit, i
  <2>3. FaultsTypeOK'
    BY <1>1, <1>12, FaultsType, CallsType DEF Commit
  <2>4. HistoryOK'
    BY <1>1, <1>2, <1>12, <2>1 DEF Commit, HistoryOK, c
  <2>5. consumer' = [consumer EXCEPT ![w] = [consumer[w] EXCEPT ![t] = Waiting]]
    BY <1>12 DEF Commit
  <2>6. ConsumersOK'
    BY <1>1, <2>5 DEF ConsumersOK, Waiting, ConsumerSteps
  <2>7. \A v \in Workers, u \in Topics :
           consumer'[v][u] = IF v = w /\ u = t THEN Waiting ELSE consumer[v][u]
    BY <1>1, <2>5 DEF ConsumersOK
  <2>8. SlotsOK'
    BY <1>1, <2>2, <2>7 DEF SlotsOK, Holding, Grows, Waiting
  <2> QED
    BY <1>1, <1>12, <2>2, <2>3, <2>4, <2>6, <2>8 DEF Commit, ConsumerKeeps, QueueKeeps, RowsTypeOK
<1> QED
  BY <1>4, <1>5, <1>6, <1>7, <1>8, <1>9, <1>10, <1>11, <1>12 DEF ConsumerStep

LEMMA SchedulerStepType ==
    ASSUME TypeInv, NEW w \in Workers, SchedulerStep(w)
    PROVE  RowsTypeOK' /\ QueueKeeps /\ Retains /\ FaultsTypeOK' /\ SchedulerTypeOK'
<1>1. /\ RowsTypeOK /\ LogOK /\ dlq \in SUBSET Ids /\ FaultsTypeOK /\ SchedulerTypeOK
  BY DEF TypeInv, TypeOK, QueueTypeOK, LogOK
<1>2. CASE SelectDue(w)
  <2>1. \A id \in Ids : [id |-> id, retryCount |-> rows[id].retryCount] \in Copies
    BY <1>1 DEF RowsTypeOK, Row, Copies
  <2>2. SchedulerTypeOK'
    BY <1>1, <1>2, <2>1 DEF SelectDue, SchedulerTypeOK, GetDueScheduled
  <2> QED
    BY <1>1, <1>2, <2>2, QueueKept, LogKept, CallsType DEF SelectDue, RowsTypeOK, queueVars
<1>3. CASE PublishDue(w)
  <2>1. PICK n \in due[w] :
           /\ due' = [due EXCEPT ![w] = @ \ {n}]
           /\ \/ /\ Publish(n.id, n.retryCount)
                 /\ marking' = [marking EXCEPT ![w] = {n.id}]
                 /\ CallSucceeds(w)
              \/ /\ Publish(n.id, n.retryCount) \/ UNCHANGED log
                 /\ UNCHANGED marking
                 /\ CallFails(w)
    BY <1>3 DEF PublishDue
  <2>2. n.id \in Ids /\ n.retryCount \in Nat
    BY <1>1 DEF SchedulerTypeOK, Copies
  <2>3. SchedulerTypeOK'
    BY <1>1, <2>1, <2>2 DEF SchedulerTypeOK
  <2>4. LogOK' /\ Grows /\ Retains
    BY <1>1, <2>1, <2>2, PublishType
  <2> QED
    BY <1>1, <1>3, <2>1, <2>3, <2>4, CallsType DEF PublishDue, QueueKeeps, RowsTypeOK
<1>4. CASE MarkQueued(w)
  <2>1. RowsTypeOK' /\ FaultsTypeOK'
    BY <1>1, <1>4, StatusType, CallsType DEF MarkQueued, RowsTypeOK, Statuses
  <2>2. SchedulerTypeOK'
    BY <1>1, <1>4 DEF MarkQueued, SchedulerTypeOK
  <2> QED
    BY <1>1, <1>4, <2>1, <2>2, QueueKept, LogKept DEF MarkQueued, queueVars
<1> QED
  BY <1>2, <1>3, <1>4 DEF SchedulerStep

LEMMA RestartType ==
    ASSUME TypeInv, NEW w \in Workers, Restart(w)
    PROVE  TypeInv' /\ Grows /\ Retains
<1>1. /\ LogOK /\ FaultsTypeOK /\ ConsumersOK /\ SlotsOK /\ SchedulerTypeOK
  BY DEF TypeInv, TypeOK, QueueTypeOK, WorkerTypeOK, LogOK, ConsumersOK
<1>2. LogOK' /\ Grows /\ Retains
  BY <1>1, Redelivering DEF Restart
<1>3. FaultsTypeOK'
  <2>1. CASE stopping' = [stopping EXCEPT ![w] = FALSE] /\ UNCHANGED faults
    BY <1>1, <2>1, Zenon DEF FaultsTypeOK
  <2>2. CASE Fault
    BY <1>1, <2>2, FaultsType
  <2> QED
    BY <2>1, <2>2 DEF Restart, ProcessRestarts
<1>4. consumer' = [consumer EXCEPT ![w] = [t \in Topics |-> Waiting]]
  BY DEF Restart
<1>5. ConsumersOK'
  BY <1>1, <1>4 DEF ConsumersOK, Waiting, ConsumerSteps
<1>6. \A v \in Workers, t \in Topics :
         consumer'[v][t] = IF v = w THEN Waiting ELSE consumer[v][t]
  BY <1>1, <1>4 DEF ConsumersOK
<1>7. SlotsOK'
  BY <1>1, <1>2, <1>6 DEF SlotsOK, Holding, Grows, Waiting
<1>8. SchedulerTypeOK'
  BY <1>1 DEF Restart, SchedulerTypeOK
<1> QED
  BY <1>2, <1>3, <1>5, <1>7, <1>8
     DEF Restart, TypeInv, TypeOK, RowsTypeOK, QueueTypeOK, LogOK, ServiceTypeOK, WorkerTypeOK,
         ConsumersOK, serviceVars, createVars, cancelVars, historyVars

LEMMA RebalanceType ==
    ASSUME TypeInv, NEW groups, Rebalance(groups)
    PROVE  TypeInv' /\ Grows /\ Retains
<1>1. LogOK /\ FaultsTypeOK /\ SlotsOK
  BY DEF TypeInv, TypeOK, QueueTypeOK, LogOK
<1>2. LogOK' /\ Grows /\ Retains
  BY <1>1, Redelivering DEF Rebalance
<1>3. FaultsTypeOK'
  BY <1>1, FaultsType DEF Rebalance
<1>4. SlotsOK'
  BY <1>1, <1>2, SlotsKept DEF Rebalance, workerVars
<1> QED
  BY <1>2, <1>3, <1>4
     DEF Rebalance, TypeInv, TypeOK, RowsTypeOK, QueueTypeOK, LogOK, ServiceTypeOK, WorkerTypeOK,
         SchedulerTypeOK, serviceVars, createVars, cancelVars, workerVars, historyVars,
         schedulerVars

LEMMA TimeType ==
    ASSUME TypeInv, NEW id \in Ids, TimePasses(id)
    PROVE  TypeInv' /\ Grows /\ Retains
<1>1. \A i \in Ids : [rows[i] EXCEPT !.scheduledAt = "due"] \in Row
  BY DEF TypeInv, TypeOK, RowsTypeOK, Row, Schedules
<1>2. RowsTypeOK'
  BY <1>1 DEF TypeInv, TypeOK, RowsTypeOK, TimePasses, Elapse
<1>3. LogOK' /\ Grows /\ Retains
  BY LogKept DEF TypeInv, TypeOK, QueueTypeOK, LogOK, TimePasses, queueVars
<1>4. SlotsOK'
  BY <1>3, SlotsKept DEF TypeInv, TimePasses, workerVars
<1> QED
  BY <1>2, <1>3, <1>4
     DEF TimePasses, TypeInv, TypeOK, QueueTypeOK, LogOK, FaultsTypeOK, ServiceTypeOK,
         WorkerTypeOK, SchedulerTypeOK, queueVars, faultVars, serviceVars, createVars, cancelVars,
         workerVars, historyVars, schedulerVars

LEMMA SigtermType ==
    ASSUME TypeInv, NEW w \in Workers, Sigterm(w),
           UNCHANGED <<rows, queueVars, serviceVars, workerVars, schedulerVars>>
    PROVE  TypeInv' /\ Grows /\ Retains
<1>1. FaultsTypeOK'
  BY DEF TypeInv, TypeOK, FaultsTypeOK, Sigterm
<1>2. LogOK' /\ Grows /\ Retains
  BY LogKept DEF TypeInv, TypeOK, QueueTypeOK, LogOK, queueVars
<1>3. SlotsOK'
  BY <1>2, SlotsKept DEF TypeInv, workerVars
<1> QED
  BY <1>1, <1>2, <1>3
     DEF TypeInv, TypeOK, RowsTypeOK, QueueTypeOK, LogOK, ServiceTypeOK, WorkerTypeOK,
         SchedulerTypeOK, queueVars, serviceVars, createVars, cancelVars, workerVars, historyVars,
         schedulerVars

LEMMA ServiceStepType ==
    ASSUME TypeInv, ServiceStep, UNCHANGED <<workerVars, schedulerVars>>
    PROVE  TypeInv' /\ Grows /\ Retains
<1>1. ServiceKeeps
  BY CreateServiceType, BatchServiceType, CancelServiceType, ClientAssumption
     DEF ServiceStep, NewRequest
<1>2. SlotsOK'
  BY <1>1, SlotsKept DEF TypeInv, ServiceKeeps, workerVars
<1> QED
  BY <1>1, <1>2
     DEF ServiceKeeps, TypeInv, TypeOK, QueueTypeOK, LogOK, WorkerTypeOK, SchedulerTypeOK,
         workerVars, historyVars, schedulerVars

LEMMA TypeInit == Init => TypeInv
<1> SUFFICES ASSUME Init PROVE TypeInv
  OBVIOUS
<1>1. RowsTypeOK
  BY DEF Init, RowsInit, RowsTypeOK, Row, Statuses, Schedules
<1>2. QueueTypeOK
  BY DEF Init, QueueInit, QueueTypeOK
<1>3. FaultsTypeOK /\ ServiceTypeOK /\ SchedulerTypeOK
  BY DEF Init, FaultsInit, FaultsTypeOK, ServiceInit, ServiceTypeOK, CreateSteps,
         SchedulerInit, SchedulerTypeOK
<1>4. WorkerTypeOK /\ SlotsOK
  BY DEF Init, WorkerInit, WorkerTypeOK, Waiting, ConsumerSteps, SlotsOK, Holding
<1> QED
  BY <1>1, <1>2, <1>3, <1>4 DEF TypeInv, TypeOK

LEMMA TypeStep == TypeInv /\ [Next]_vars => TypeInv' /\ Grows
<1> SUFFICES ASSUME TypeInv, [Next]_vars PROVE TypeInv' /\ Grows
  OBVIOUS
<1>1. CASE ServiceStep /\ UNCHANGED <<workerVars, schedulerVars>>
  BY <1>1, ServiceStepType
<1>2. ASSUME NEW w \in Workers, NEW t \in Topics, ConsumerStep(w, t),
             UNCHANGED <<serviceVars, schedulerVars>>
      PROVE  TypeInv' /\ Grows
  <2>1. ConsumerKeeps
    BY <1>2, ConsumerStepType
  <2> QED
    BY <1>2, <2>1
       DEF ConsumerKeeps, QueueKeeps, TypeInv, TypeOK, QueueTypeOK, LogOK, ServiceTypeOK,
           WorkerTypeOK, ConsumersOK, HistoryOK, SchedulerTypeOK, serviceVars, createVars,
           cancelVars, schedulerVars
<1>3. ASSUME NEW w \in Workers, SchedulerStep(w), UNCHANGED <<serviceVars, workerVars>>
      PROVE  TypeInv' /\ Grows
  <2>1. RowsTypeOK' /\ QueueKeeps /\ FaultsTypeOK' /\ SchedulerTypeOK'
    BY <1>3, SchedulerStepType
  <2>2. SlotsOK'
    BY <1>3, <2>1, SlotsKept DEF TypeInv, QueueKeeps, workerVars
  <2> QED
    BY <1>3, <2>1, <2>2
       DEF QueueKeeps, TypeInv, TypeOK, QueueTypeOK, LogOK, ServiceTypeOK, WorkerTypeOK,
           serviceVars, createVars, cancelVars, workerVars, historyVars
<1>4. ASSUME NEW w \in Workers,
             \/ Sigterm(w)
                /\ UNCHANGED <<rows, queueVars, serviceVars, workerVars, schedulerVars>>
             \/ Restart(w)
      PROVE  TypeInv' /\ Grows
  BY <1>4, SigtermType, RestartType
<1>5. CASE Rebalance(MainTopics) \/ Rebalance({RetryTopic})
  BY <1>5, RebalanceType
<1>6. CASE \E id \in Ids : TimePasses(id)
  BY <1>6, TimeType
<1>7. CASE UNCHANGED vars
  <2>1. LogOK' /\ Grows
    BY <1>7, LogKept DEF TypeInv, TypeOK, QueueTypeOK, LogOK, vars, queueVars
  <2>2. SlotsOK'
    BY <1>7, <2>1, SlotsKept DEF TypeInv, vars, workerVars
  <2> QED
    BY <1>7, <2>1, <2>2
       DEF TypeInv, TypeOK, RowsTypeOK, QueueTypeOK, LogOK, FaultsTypeOK, ServiceTypeOK,
           WorkerTypeOK, SchedulerTypeOK, vars, queueVars, faultVars, serviceVars, createVars,
           cancelVars, workerVars, historyVars, schedulerVars
<1> QED
  BY <1>1, <1>2, <1>3, <1>4, <1>5, <1>6, <1>7 DEF Next

(* Every variable of the pipeline keeps its type, whatever the number of   *)
(* notifications, replicas, retries and failures: in particular no counter *)
(* runs below zero and no consumer works on a message that is not there.   *)
THEOREM TypeCorrect == Spec => []TypeOK
<1>1. TypeInv => TypeOK
  BY DEF TypeInv
<1> QED
  BY <1>1, TypeInit, TypeStep, PTL DEF Spec

(***************************************************************************)
(* No silent loss.                                                         *)
(*                                                                         *)
(* NoSilentLoss is not inductive: a commit ends a pending message, so it   *)
(* must be known that the handler left something behind.  A handler that   *)
(* returned without an error ("ack") has reached the provider or the dead  *)
(* letter topic, or has published a later copy of the message.  "Later" is *)
(* what makes this last: the later copy may be committed in its turn, but  *)
(* only when there is a still later one, and this one is never its own     *)
(* successor.                                                              *)
(***************************************************************************)
Resolved(id) == sent[id] > 0 \/ id \in dlq \/ id \in errored

(* Some message for id is pending that has been attempted more than n      *)
(* times.                                                                  *)
Carried(id, n) ==
    \E t \in Topics : \E i \in DOMAIN log[t] :
        log[t][i].id = id /\ Pending(log[t][i]) /\ log[t][i].retryCount > n

DeliveredSent(w, t) == At(w, t, "delivered") => sent[Current(w, t).id] > 0

AckEarned(w, t) ==
    At(w, t, "ack") =>
        Resolved(Current(w, t).id) \/ Carried(Current(w, t).id, Current(w, t).retryCount)

LossInv ==
    /\ NoSilentLoss
    /\ \A w \in Workers, t \in Topics : DeliveredSent(w, t) /\ AckEarned(w, t)

(* Nothing that resolved a notification is undone.                         *)
HistoryGrows ==
    \A id \in Ids : /\ sent[id] > 0 => sent'[id] > 0
                    /\ id \in dlq => id \in dlq'
                    /\ id \in errored => id \in errored'

LEMMA CarriedKept ==
    ASSUME LogOK, LogOK', Grows, Retains, NEW id, NEW n, Carried(id, n)
    PROVE  Carried(id, n)'
<1>1. PICK t \in Topics : \E i \in DOMAIN log[t] :
         log[t][i].id = id /\ Pending(log[t][i]) /\ log[t][i].retryCount > n
  BY DEF Carried
<1>2. PICK i \in DOMAIN log[t] :
         log[t][i].id = id /\ Pending(log[t][i]) /\ log[t][i].retryCount > n
  BY <1>1
<1>3. /\ i \in DOMAIN log'[t] /\ log'[t][i].id = id /\ log'[t][i].retryCount > n
      /\ Pending(log'[t][i])
  BY <1>2 DEF Grows, Retains, SameMessage
<1> QED
  BY <1>3 DEF Carried

LEMMA NoSilentLossKept ==
    ASSUME LogOK, LogOK', Grows, Retains, HistoryGrows, NoSilentLoss
    PROVE  NoSilentLoss'
<1> SUFFICES ASSUME NEW id \in Ids, Published(id)' PROVE (Live(id) \/ Resolved(id))'
  BY DEF NoSilentLoss, Resolved
<1>1. PICK t \in Topics : \E j \in DOMAIN log'[t] : log'[t][j].id = id
  BY DEF Published
<1>2. PICK i \in DOMAIN log'[t] : log'[t][i].id = id
  BY <1>1
<1>3. CASE Pending(log'[t][i])
  BY <1>2, <1>3 DEF Live
<1>4. CASE i \in DOMAIN log[t]
  <2>1. log[t][i].id = id
    BY <1>2, <1>4 DEF Grows, SameMessage
  <2>2. Live(id) \/ Resolved(id)
    BY <1>4, <2>1 DEF NoSilentLoss, Published, Resolved
  <2>3. CASE Live(id)
    <3>1. PICK u \in Topics : \E j \in DOMAIN log[u] : log[u][j].id = id /\ Pending(log[u][j])
      BY <2>3 DEF Live
    <3>2. PICK j \in DOMAIN log[u] : log[u][j].id = id /\ Pending(log[u][j])
      BY <3>1
    <3>3. j \in DOMAIN log'[u] /\ log'[u][j].id = id /\ Pending(log'[u][j])
      BY <3>2 DEF Grows, Retains, SameMessage
    <3> QED
      BY <3>3 DEF Live
  <2>4. CASE Resolved(id)
    BY <2>4 DEF Resolved, HistoryGrows
  <2> QED
    BY <2>2, <2>3, <2>4
<1> QED
  BY <1>3, <1>4 DEF Retains

(* A consumer that does not move keeps the message it has in hand.         *)
LEMMA CurrentKept ==
    ASSUME TypeInv, Grows, NEW w \in Workers, NEW t \in Topics, Holding(w, t),
           consumer'[w][t].slot = consumer[w][t].slot
    PROVE  SameMessage(Current(w, t), Current(w, t)')
BY InHand DEF Current, Grows

(* Consumers that do not move are fine after a step that finishes nothing. *)
LEMMA UnmovedFine ==
    ASSUME TypeInv, TypeInv', LossInv, Grows, Retains, HistoryGrows,
           NEW w \in Workers, NEW t \in Topics, consumer'[w][t] = consumer[w][t]
    PROVE  DeliveredSent(w, t)' /\ AckEarned(w, t)'
<1>1. LogOK /\ LogOK'
  BY DEF TypeInv, TypeOK, QueueTypeOK, LogOK
<1>2. \A step : At(w, t, step)' => At(w, t, step)
  BY DEF At
<1>3. CASE At(w, t, "delivered") \/ At(w, t, "ack")
  <2>1. Holding(w, t)
    BY <1>3 DEF At, Holding
  <2>2. Current(w, t).id \in Ids
    BY <2>1, InHand
  <2>3. SameMessage(Current(w, t), Current(w, t)')
    BY <2>1, CurrentKept
  <2>4. DeliveredSent(w, t)'
    BY <1>2, <2>2, <2>3 DEF DeliveredSent, LossInv, HistoryGrows, SameMessage
  <2>5. ASSUME At(w, t, "ack")'
        PROVE  Resolved(Current(w, t).id)'
               \/ Carried(Current(w, t).id, Current(w, t).retryCount)'
    <3>1. Resolved(Current(w, t).id)
          \/ Carried(Current(w, t).id, Current(w, t).retryCount)
      BY <1>2, <2>5 DEF LossInv, AckEarned
    <3>2. CASE Resolved(Current(w, t).id)
      BY <2>2, <2>3, <3>2 DEF Resolved, HistoryGrows, SameMessage
    <3>3. CASE Carried(Current(w, t).id, Current(w, t).retryCount)
      <4>1. \E u \in Topics : \E i \in DOMAIN log'[u] :
               /\ log'[u][i].id = Current(w, t).id
               /\ Pending(log'[u][i])
               /\ log'[u][i].retryCount > Current(w, t).retryCount
        BY <1>1, <3>3, CarriedKept DEF Carried
      <4> QED
        BY <2>3, <4>1 DEF Carried, SameMessage
    <3> QED
      BY <3>1, <3>2, <3>3
  <2> QED
    BY <2>4, <2>5 DEF AckEarned
<1>4. CASE ~At(w, t, "delivered") /\ ~At(w, t, "ack")
  BY <1>2, <1>4 DEF DeliveredSent, AckEarned
<1> QED
  BY <1>3, <1>4

LEMMA UnmovedStep ==
    ASSUME TypeInv, TypeInv', LossInv, Grows, Retains, HistoryGrows, UNCHANGED consumer
    PROVE  LossInv'
<1>1. NoSilentLoss'
  BY NoSilentLossKept DEF TypeInv, TypeOK, QueueTypeOK, LogOK, LossInv
<1>2. \A w \in Workers, t \in Topics : DeliveredSent(w, t)' /\ AckEarned(w, t)'
  BY UnmovedFine
<1> QED
  BY <1>1, <1>2 DEF LossInv

OthersStay(w, t) ==
    \A v \in Workers, u \in Topics :
        v # w \/ u # t => consumer'[v][u] = consumer[v][u]

LEMMA MovedStep ==
    ASSUME TypeInv, TypeInv', LossInv, Grows, Retains, HistoryGrows,
           NEW w \in Workers, NEW t \in Topics, OthersStay(w, t),
           DeliveredSent(w, t)', AckEarned(w, t)'
    PROVE  LossInv'
<1>1. NoSilentLoss'
  BY NoSilentLossKept DEF TypeInv, TypeOK, QueueTypeOK, LogOK, LossInv
<1>2. ASSUME NEW v \in Workers, NEW u \in Topics
      PROVE  DeliveredSent(v, u)' /\ AckEarned(v, u)'
  <2>1. CASE v = w /\ u = t
    BY <2>1
  <2>2. CASE v # w \/ u # t
    BY <2>2, UnmovedFine DEF OthersStay
  <2> QED
    BY <2>1, <2>2
<1> QED
  BY <1>1, <1>2 DEF LossInv

Moves(w, t, c) == consumer' = [consumer EXCEPT ![w][t] = c]

LEMMA Moved ==
    ASSUME ConsumersOK, NEW w \in Workers, NEW t \in Topics, NEW c, Moves(w, t, c)
    PROVE  consumer'[w][t] = c /\ OthersStay(w, t)
<1>1. consumer' = [consumer EXCEPT ![w] = [consumer[w] EXCEPT ![t] = c]]
  BY DEF Moves
<1> QED
  BY <1>1 DEF ConsumersOK, OthersStay

LEMMA Gone ==
    ASSUME ConsumersOK, NEW w \in Workers, NEW t \in Topics, NEW step, Goto(w, t, step)
    PROVE  /\ consumer'[w][t].at = step
           /\ consumer'[w][t].slot = consumer[w][t].slot
           /\ OthersStay(w, t)
<1> DEFINE c == [consumer[w][t] EXCEPT !.at = step]
<1>1. Moves(w, t, c)
  BY DEF Goto, Moves
<1>2. c.at = step /\ c.slot = consumer[w][t].slot
  BY DEF ConsumersOK
<1> HIDE DEF c
<1>3. consumer'[w][t] = c /\ OthersStay(w, t)
  BY <1>1, Moved
<1> QED
  BY <1>2, <1>3

(* A step of a handler to where nothing is claimed.                        *)
LEMMA QuietStep ==
    ASSUME TypeInv, TypeInv', LossInv, NEW w \in Workers, NEW t \in Topics,
           NEW step, step \notin {"delivered", "ack"}, Goto(w, t, step),
           Grows, Retains, HistoryGrows
    PROVE  LossInv'
<1>1. ConsumersOK
  BY DEF TypeInv, TypeOK, WorkerTypeOK, ConsumersOK
<1>2. DeliveredSent(w, t)' /\ AckEarned(w, t)'
  BY <1>1, Gone DEF DeliveredSent, AckEarned, At
<1> QED
  BY <1>1, <1>2, Gone, MovedStep

(* A handler that returns without an error for a resolved notification.    *)
LEMMA AckStep ==
    ASSUME TypeInv, TypeInv', LossInv, NEW w \in Workers, NEW t \in Topics,
           Goto(w, t, "ack"), Holding(w, t), Resolved(Current(w, t).id)',
           Grows, Retains, HistoryGrows
    PROVE  LossInv'
<1>1. ConsumersOK
  BY DEF TypeInv, TypeOK, WorkerTypeOK, ConsumersOK
<1>2. DeliveredSent(w, t)' /\ AckEarned(w, t)'
  BY <1>1, Gone DEF DeliveredSent, AckEarned, At
<1> QED
  BY <1>1, <1>2, Gone, MovedStep

LEMMA HistoryKept ==
    ASSUME UNCHANGED historyVars, dlq \subseteq dlq'
    PROVE  HistoryGrows
BY DEF HistoryGrows, historyVars

LEMMA ConsumerStepLoss ==
    ASSUME TypeInv, TypeInv', LossInv, NEW w \in Workers, NEW t \in Topics,
           ConsumerStep(w, t), ~Commit(w, t)
    PROVE  LossInv'
<1>1. LogOK /\ ConsumersOK
  BY DEF TypeInv, TypeOK, QueueTypeOK, LogOK, WorkerTypeOK, ConsumersOK
<1>2. Holding(w, t) =>
         /\ consumer[w][t].slot \in DOMAIN log[t]
         /\ Current(w, t) \in Message /\ Current(w, t).id \in Ids
         /\ Attempts(w, t) \in Nat
  BY InHand
<1>3. \A step : At(w, t, step) /\ step \notin {"fetch", "stopped"} => Holding(w, t)
  BY DEF At, Holding
<1>4. CASE Fetch(w, t)
  <2>1. PICK j \in DOMAIN log[t] :
           /\ FetchMessage(t, j)
           /\ consumer' = [consumer EXCEPT ![w][t] =
                 [at |-> IF t = RetryTopic THEN "delay" ELSE "limit", slot |-> j]]
    BY <1>4 DEF Fetch
  <2>2. Grows /\ Retains /\ HistoryGrows
    BY <1>1, <1>4, <2>1, Fetching, HistoryKept DEF Fetch
  <2> DEFINE c == [at |-> IF t = RetryTopic THEN "delay" ELSE "limit", slot |-> j]
  <2>3. c.at \notin {"delivered", "ack"} /\ Moves(w, t, c)
    BY <2>1 DEF Moves
  <2> HIDE DEF c
  <2>4. consumer'[w][t] = c /\ OthersStay(w, t)
    BY <1>1, <2>3, Moved
  <2>5. DeliveredSent(w, t)' /\ AckEarned(w, t)'
    BY <2>3, <2>4 DEF DeliveredSent, AckEarned, At
  <2> QED
    BY <2>2, <2>4, <2>5, MovedStep
<1>5. CASE StopConsumer(w, t) \/ RetryAfter(w, t) \/ RateLimit(w, t)
  <2>1. Grows /\ Retains /\ HistoryGrows
    BY <1>1, <1>5, LogKept, HistoryKept DEF StopConsumer, RetryAfter, RateLimit, queueVars
  <2> QED
    BY <1>5, <2>1, QuietStep DEF StopConsumer, RetryAfter, RateLimit
<1>6. CASE MarkProcessing(w, t) \/ MarkFailed(w, t) \/ Increment(w, t)
  <2>1. Grows /\ Retains /\ HistoryGrows
    BY <1>1, <1>6, LogKept, HistoryKept DEF MarkProcessing, MarkFailed, Increment, queueVars
  <2> QED
    BY <1>6, <2>1, QuietStep DEF MarkProcessing, MarkFailed, Increment
<1>7. CASE Send(w, t)
  <2>1. Grows /\ Retains /\ UNCHANGED <<log, dlq, errored>>
    BY <1>1, <1>7, LogKept DEF Send, queueVars
  <2>2. HistoryGrows
    BY <1>7, <2>1 DEF Send, SendAccepted, SendRejected, SendUnanswered, HistoryGrows,
                      TypeInv, TypeOK, WorkerTypeOK
  <2>3. CASE SendAccepted(w, t)
    <3>1. sent'[Current(w, t).id] > 0
      BY <1>2, <1>3, <1>7, <2>3
         DEF Send, SendAccepted, TypeInv, TypeOK, WorkerTypeOK
    <3>2. Current(w, t)' = Current(w, t)
      BY <1>1, <2>1, <2>3, Gone DEF SendAccepted, Current
    <3>3. DeliveredSent(w, t)'
      BY <3>1, <3>2 DEF DeliveredSent
    <3>4. AckEarned(w, t)'
      BY <1>1, <2>3, Gone DEF SendAccepted, AckEarned, At
    <3> QED
      BY <1>1, <2>1, <2>2, <2>3, <3>3, <3>4, Gone, MovedStep DEF SendAccepted
  <2>4. CASE SendRejected(w, t) \/ SendUnanswered(w, t)
    BY <2>1, <2>2, <2>4, QuietStep DEF SendRejected, SendUnanswered
  <2> QED
    BY <1>7, <2>3, <2>4 DEF Send
<1>8. CASE MarkDelivered(w, t)
  <2>1. Grows /\ Retains /\ HistoryGrows /\ UNCHANGED <<log, sent>> /\ Goto(w, t, "ack")
    BY <1>1, <1>8, LogKept, HistoryKept DEF MarkDelivered, queueVars, historyVars
  <2>2. sent[Current(w, t).id] > 0
    BY <1>8 DEF MarkDelivered, LossInv, DeliveredSent
  <2>3. Resolved(Current(w, t).id)'
    <3>1. Current(w, t)' = Current(w, t)
      BY <1>1, <2>1, Gone DEF Current
    <3> QED
      BY <2>1, <2>2, <3>1 DEF Resolved
  <2> QED
    BY <1>3, <1>8, <2>1, <2>3, AckStep DEF MarkDelivered
<1>9. CASE DeadLetter(w, t)
  <2>1. Grows /\ Retains /\ HistoryGrows /\ UNCHANGED log
    BY <1>1, <1>9, LogKept, HistoryKept DEF DeadLetter, PublishDLQ
  <2>2. CASE PublishDLQ(Current(w, t).id) /\ Goto(w, t, "ack")
    <3>1. Current(w, t)' = Current(w, t)
      BY <1>1, <2>1, <2>2, Gone DEF Current
    <3>2. Resolved(Current(w, t).id)'
      BY <2>2, <3>1 DEF PublishDLQ, Resolved
    <3> QED
      BY <1>3, <1>9, <2>1, <2>2, <3>2, AckStep DEF DeadLetter
  <2>3. CASE Goto(w, t, "nack")
    BY <2>1, <2>3, QuietStep
  <2> QED
    BY <1>9, <2>2, <2>3 DEF DeadLetter
<1>10. CASE ScheduleRetry(w, t)
  <2>1. Holding(w, t)
    BY <1>3, <1>10 DEF ScheduleRetry
  <2>2. Grows /\ Retains /\ HistoryGrows
    BY <1>1, <1>2, <1>10, <2>1, PublishRetryType, HistoryKept DEF ScheduleRetry
  <2>3. CASE PublishRetry(Current(w, t).id, Attempts(w, t)) /\ Goto(w, t, "ack")
    <3> DEFINE m == [id |-> Current(w, t).id, retryCount |-> Attempts(w, t),
                     state |-> "ready"]
    <3>1. log'[RetryTopic] = Append(log[RetryTopic], m)
      BY <1>1, <1>2, <2>1, <2>3, AppendMessage DEF PublishRetry, Topics
    <3>2. log[RetryTopic] \in Seq(Message)
      BY <1>1 DEF LogOK, Topics
    <3>3. /\ Len(log[RetryTopic]) + 1 \in DOMAIN log'[RetryTopic]
          /\ log'[RetryTopic][Len(log[RetryTopic]) + 1] = m
      BY <3>1, <3>2
    <3>4. SameMessage(Current(w, t), Current(w, t)')
      BY <1>1, <2>1, <2>2, <2>3, CurrentKept, Gone
    <3>5. Carried(Current(w, t).id, Current(w, t).retryCount)'
      <4>1. m.id = Current(w, t).id /\ m.retryCount > Current(w, t).retryCount /\ Pending(m)
        BY <1>2, <2>1 DEF Attempts, Pending, Message
      <4> HIDE DEF m
      <4> QED
        BY <3>3, <3>4, <4>1 DEF Carried, SameMessage, Topics
    <3>6. DeliveredSent(w, t)' /\ AckEarned(w, t)'
      BY <1>1, <2>3, <3>5, Gone DEF DeliveredSent, AckEarned, At
    <3> QED
      BY <1>1, <2>2, <2>3, <3>6, Gone, MovedStep
  <2>4. CASE Goto(w, t, "nack")
    BY <2>2, <2>4, QuietStep
  <2> QED
    BY <1>10, <2>3, <2>4 DEF ScheduleRetry
<1> QED
  BY <1>4, <1>5, <1>6, <1>7, <1>8, <1>9, <1>10 DEF ConsumerStep

(* What carries a notification when a consumer commits carries it after,   *)
(* unless it is resolved.  With n = -1 this is about Live.                 *)
LEMMA CommitCarries ==
    ASSUME TypeInv, LossInv, NEW w \in Workers, NEW t \in Topics, Commit(w, t),
           NEW id \in Ids, NEW n \in Int, Carried(id, n)
    PROVE  Resolved(id)' \/ Carried(id, n)'
<1> DEFINE i == consumer[w][t].slot
<1>1. Holding(w, t) /\ LogOK
  BY DEF Commit, At, Holding, TypeInv, TypeOK, QueueTypeOK, LogOK
<1>2. i \in DOMAIN log[t] /\ Current(w, t) = log[t][i]
  BY <1>1, InHand DEF Current
<1>3. CommitMessage(t, i) \/ CommitFails(t, i)
  BY DEF Commit
<1> HIDE DEF i
<1>4. /\ Grows
      /\ \A u \in Topics : DOMAIN log'[u] = DOMAIN log[u]
      /\ \A u \in Topics : \A j \in DOMAIN log[u] :
            Pending(log[u][j]) /\ ~(u = t /\ j = i) => Pending(log'[u][j])
  BY <1>1, <1>2, <1>3, Committing
<1>5. ASSUME NEW u \in Topics, NEW j \in DOMAIN log[u], ~(u = t /\ j = i),
             log[u][j].id = id, Pending(log[u][j]), log[u][j].retryCount > n
      PROVE  Carried(id, n)'
  BY <1>4, <1>5 DEF Carried, Grows, SameMessage
<1>6. PICK u \in Topics : \E j \in DOMAIN log[u] :
         log[u][j].id = id /\ Pending(log[u][j]) /\ log[u][j].retryCount > n
  BY DEF Carried
<1>7. PICK j \in DOMAIN log[u] :
         log[u][j].id = id /\ Pending(log[u][j]) /\ log[u][j].retryCount > n
  BY <1>6
<1>8. CASE ~(u = t /\ j = i)
  BY <1>5, <1>7, <1>8
<1>9. CASE u = t /\ j = i
  <2>1. Current(w, t).id = id /\ Current(w, t).retryCount > n
    BY <1>2, <1>7, <1>9
  <2>2. CASE At(w, t, "nack")
    BY <2>1, <2>2 DEF Commit, Resolved
  <2>3. CASE At(w, t, "ack") /\ Resolved(id)
    BY <2>3 DEF Commit, Resolved, At
  <2>4. CASE Carried(id, Current(w, t).retryCount)
    <3>1. PICK v \in Topics : \E k \in DOMAIN log[v] :
             /\ log[v][k].id = id /\ Pending(log[v][k])
             /\ log[v][k].retryCount > Current(w, t).retryCount
      BY <2>4 DEF Carried
    <3>2. PICK k \in DOMAIN log[v] :
             /\ log[v][k].id = id /\ Pending(log[v][k])
             /\ log[v][k].retryCount > Current(w, t).retryCount
      BY <3>1
    <3>3. log[v][k].retryCount \in Nat /\ Current(w, t).retryCount \in Nat
      BY <1>1, InHand, Messages DEF LogOK, Message
    <3>4. ~(v = t /\ k = i) /\ log[v][k].retryCount > n
      BY <1>2, <2>1, <3>2, <3>3
    <3> QED
      BY <1>5, <3>2, <3>4
  <2> QED
    BY <2>1, <2>2, <2>3, <2>4 DEF Commit, LossInv, AckEarned
<1> QED
  BY <1>8, <1>9

LEMMA LiveIsCarried ==
    ASSUME LogOK, NEW id
    PROVE  Live(id) <=> Carried(id, -1)
<1>1. \A t \in Topics : \A i \in DOMAIN log[t] : log[t][i].retryCount > -1
  BY Messages DEF LogOK
<1> QED
  BY <1>1 DEF Live, Carried

(* The one step that finishes a message.                                   *)
LEMMA CommitLoss ==
    ASSUME TypeInv, TypeInv', LossInv, NEW w \in Workers, NEW t \in Topics, Commit(w, t)
    PROVE  LossInv'
<1> DEFINE i == consumer[w][t].slot
<1>1. LogOK /\ LogOK' /\ ConsumersOK
  BY DEF TypeInv, TypeOK, QueueTypeOK, LogOK, WorkerTypeOK, ConsumersOK
<1>2. i \in DOMAIN log[t] /\ Current(w, t).id \in Ids
  BY InHand DEF Commit, At, Holding
<1>3. Grows /\ \A u \in Topics : DOMAIN log'[u] = DOMAIN log[u]
  BY <1>1, <1>2, Committing DEF Commit
<1>4. HistoryGrows
  BY DEF Commit, HistoryGrows
<1>5. consumer'[w][t] = Waiting /\ OthersStay(w, t)
  BY <1>1, Moved DEF Commit, Moves
<1>6. NoSilentLoss'
  <2> SUFFICES ASSUME NEW id \in Ids, Published(id)' PROVE (Live(id) \/ Resolved(id))'
    BY DEF NoSilentLoss, Resolved
  <2>1. Published(id)
    BY <1>3 DEF Published, Grows, SameMessage
  <2>2. Carried(id, -1) \/ Resolved(id)
    BY <1>1, <2>1, LiveIsCarried DEF LossInv, NoSilentLoss, Resolved
  <2>3. Carried(id, -1)' \/ Resolved(id)'
    BY <1>4, <2>2, CommitCarries DEF Resolved, HistoryGrows
  <2>4. Live(id)' <=> Carried(id, -1)'
    <3> DEFINE l == log'
    <3>1. l \in [Topics -> Seq(Message)]
      BY <1>1 DEF LogOK
    <3> HIDE DEF l
    <3>2. \A u \in Topics : \A j \in DOMAIN l[u] : l[u][j].retryCount > -1
      BY <3>1, Messages
    <3> QED
      BY <3>2 DEF l, Live, Carried
  <2> QED
    BY <2>3, <2>4
<1>7. ASSUME NEW v \in Workers, NEW u \in Topics
      PROVE  DeliveredSent(v, u)' /\ AckEarned(v, u)'
  <2>1. CASE v = w /\ u = t
    BY <1>5, <2>1 DEF Waiting, DeliveredSent, AckEarned, At
  <2>2. CASE (v # w \/ u # t) /\ (At(v, u, "delivered") \/ At(v, u, "ack"))
    <3>1. consumer'[v][u] = consumer[v][u] /\ Holding(v, u)
      BY <1>5, <2>2 DEF At, Holding, OthersStay
    <3>2. /\ Current(v, u).id \in Ids /\ Current(v, u).retryCount \in Int
          /\ SameMessage(Current(v, u), Current(v, u)')
      BY <1>3, <3>1, InHand, CurrentKept DEF Message
    <3>3. DeliveredSent(v, u)'
      BY <1>4, <3>1, <3>2 DEF DeliveredSent, LossInv, HistoryGrows, SameMessage, At
    <3>4. ASSUME At(v, u, "ack")'
          PROVE  Resolved(Current(v, u).id)' \/ Carried(Current(v, u).id, Current(v, u).retryCount)'
      <4> DEFINE id == Current(v, u).id
                 n == Current(v, u).retryCount
      <4>1. Resolved(id) \/ Carried(id, n)
        BY <3>1, <3>4 DEF LossInv, AckEarned, At
      <4>2. Current(v, u)'.id = id /\ Current(v, u)'.retryCount = n
        BY <3>2 DEF SameMessage
      <4>3. \/ sent'[id] > 0 \/ id \in dlq' \/ id \in errored'
            \/ \E y \in Topics : \E k \in DOMAIN log'[y] :
                  log'[y][k].id = id /\ Pending(log'[y][k]) /\ log'[y][k].retryCount > n
        <5> HIDE DEF id, n
        <5>1. id \in Ids /\ n \in Int
          BY <3>2 DEF id, n
        <5>2. CASE Resolved(id)
          BY <1>4, <5>1, <5>2 DEF Resolved, HistoryGrows
        <5>3. ASSUME NEW a \in Ids, NEW b \in Int, Carried(a, b)
              PROVE  \/ sent'[a] > 0 \/ a \in dlq' \/ a \in errored'
                     \/ \E y \in Topics : \E k \in DOMAIN log'[y] :
                          log'[y][k].id = a /\ Pending(log'[y][k]) /\ log'[y][k].retryCount > b
          BY <5>3, CommitCarries DEF Resolved, Carried
        <5> QED
          BY <4>1, <5>1, <5>2, <5>3
      <4> QED
        BY <4>2, <4>3 DEF Resolved, Carried
    <3> QED
      BY <3>3, <3>4 DEF AckEarned
  <2>3. CASE (v # w \/ u # t) /\ ~At(v, u, "delivered") /\ ~At(v, u, "ack")
    BY <1>5, <2>3 DEF DeliveredSent, AckEarned, At, OthersStay
  <2> QED
    BY <2>1, <2>2, <2>3
<1> QED
  BY <1>6, <1>7 DEF LossInv

LEMMA RestartLoss ==
    ASSUME TypeInv, TypeInv', LossInv, Grows, Retains, NEW w \in Workers, Restart(w)
    PROVE  LossInv'
<1>1. HistoryGrows
  BY HistoryKept DEF Restart
<1>2. NoSilentLoss'
  BY <1>1, NoSilentLossKept DEF TypeInv, TypeOK, QueueTypeOK, LogOK, LossInv
<1>3. \A v \in Workers, t \in Topics :
         consumer'[v][t] = IF v = w THEN Waiting ELSE consumer[v][t]
  BY DEF Restart, TypeInv, TypeOK, WorkerTypeOK
<1>4. ASSUME NEW v \in Workers, NEW t \in Topics
      PROVE  DeliveredSent(v, t)' /\ AckEarned(v, t)'
  <2>1. CASE v = w
    BY <1>3, <2>1 DEF Waiting, DeliveredSent, AckEarned, At
  <2>2. CASE v # w
    BY <1>1, <1>3, <2>2, UnmovedFine
  <2> QED
    BY <2>1, <2>2
<1> QED
  BY <1>2, <1>4 DEF LossInv

(* Requests, schedulers and the environment touch no handler.              *)
LEMMA ServiceDlq ==
    ASSUME ServiceStep
    PROVE  dlq' = dlq
BY DEF ServiceStep, NewRequest, BatchStep, CreateStep, CreateInsert, CreateQueue, CreatePublish,
       CreateRollback, CreateBatchInsert, BatchPublish, BatchMark, BatchReturn, CancelRead,
       CancelUpdate, RequestDies, queueVars

LEMMA LossInit == Init => LossInv
<1> SUFFICES ASSUME Init PROVE LossInv
  OBVIOUS
<1>1. NoSilentLoss
  BY DEF Init, QueueInit, NoSilentLoss, Published
<1>2. \A w \in Workers, t \in Topics : DeliveredSent(w, t) /\ AckEarned(w, t)
  BY DEF Init, WorkerInit, Waiting, DeliveredSent, AckEarned, At
<1> QED
  BY <1>1, <1>2 DEF LossInv

LEMMA LossStep == TypeInv /\ TypeInv' /\ LossInv /\ [Next]_vars => LossInv'
<1> SUFFICES ASSUME TypeInv, TypeInv', LossInv, [Next]_vars PROVE LossInv'
  OBVIOUS
<1>1. CASE ServiceStep /\ UNCHANGED <<workerVars, schedulerVars>>
  <2>1. Grows /\ Retains /\ HistoryGrows /\ UNCHANGED consumer
    BY <1>1, ServiceStepType, ServiceDlq, HistoryKept DEF workerVars
  <2> QED
    BY <2>1, UnmovedStep
<1>2. ASSUME NEW w \in Workers, NEW t \in Topics, ConsumerStep(w, t)
      PROVE  LossInv'
  BY <1>2, CommitLoss, ConsumerStepLoss
<1>3. ASSUME NEW w \in Workers, SchedulerStep(w), UNCHANGED <<serviceVars, workerVars>>
      PROVE  LossInv'
  <2>1. dlq' = dlq
    BY <1>3 DEF SchedulerStep, SelectDue, PublishDue, MarkQueued, queueVars
  <2>2. Grows /\ Retains /\ HistoryGrows /\ UNCHANGED consumer
    BY <1>3, <2>1, SchedulerStepType, HistoryKept DEF QueueKeeps, workerVars
  <2> QED
    BY <2>2, UnmovedStep
<1>4. ASSUME NEW w \in Workers, Restart(w)
      PROVE  LossInv'
  BY <1>4, RestartType, RestartLoss
<1>5. ASSUME NEW w \in Workers, Sigterm(w),
             UNCHANGED <<rows, queueVars, serviceVars, workerVars, schedulerVars>>
      PROVE  LossInv'
  <2>1. Grows /\ Retains /\ HistoryGrows /\ UNCHANGED consumer
    BY <1>5, SigtermType, HistoryKept DEF queueVars, workerVars
  <2> QED
    BY <2>1, UnmovedStep
<1>6. CASE Rebalance(MainTopics) \/ Rebalance({RetryTopic})
  <2>1. Grows /\ Retains /\ HistoryGrows /\ UNCHANGED consumer
    BY <1>6, RebalanceType, HistoryKept DEF Rebalance, workerVars
  <2> QED
    BY <2>1, UnmovedStep
<1>7. CASE \E id \in Ids : TimePasses(id)
  <2>1. Grows /\ Retains /\ HistoryGrows /\ UNCHANGED consumer
    BY <1>7, TimeType, HistoryKept DEF TimePasses, queueVars, workerVars
  <2> QED
    BY <2>1, UnmovedStep
<1>8. CASE UNCHANGED vars
  <2>1. Grows /\ Retains /\ HistoryGrows /\ UNCHANGED consumer
    BY <1>8, LogKept, HistoryKept
       DEF TypeInv, TypeOK, QueueTypeOK, LogOK, vars, queueVars, workerVars
  <2> QED
    BY <2>1, UnmovedStep
<1> QED
  BY <1>1, <1>2, <1>3, <1>4, <1>5, <1>6, <1>7, <1>8 DEF Next

(* No message disappears: a notification that reached Kafka is still to be *)
(* handled, reached the provider or the dead letter topic, or an error was *)
(* logged for it, in spite of crashes, shutdowns, rebalances and failing   *)
(* calls, however many.                                                    *)
THEOREM NothingLostSilently == Spec => []NoSilentLoss
<1>1. LossInv => NoSilentLoss
  BY DEF LossInv
<1> QED
  BY <1>1, TypeInit, TypeStep, LossInit, LossStep, PTL DEF Spec

(***************************************************************************)
(* The status delivered.                                                   *)
(*                                                                         *)
(* Requests, consumers and schedulers all write the status, but only one   *)
(* statement writes "delivered", and by DeliveredSent its handler has the  *)
(* provider's answer.                                                      *)
(***************************************************************************)
NoNewClaim ==
    \A id \in Ids : rows'[id].status = "delivered" => rows[id].status = "delivered"

LEMMA StatusClaims ==
    ASSUME RowsTypeOK, NEW id \in Ids, NEW status, status # "delivered",
           UpdateStatus(id, status) \/ IncrementRetry(id) \/ Cancel(id) \/ Elapse(id)
           \/ UNCHANGED rows
    PROVE  NoNewClaim
BY DEF RowsTypeOK, Row, UpdateStatus, IncrementRetry, Cancel, Elapse, NoNewClaim

LEMMA CreateClaims ==
    ASSUME RowsTypeOK, NEW id \in Ids, NEW at, NEW k, Create(id, at, k)
    PROVE  NoNewClaim
BY DEF RowsTypeOK, Row, Create, NewRow, NoNewClaim

LEMMA BatchClaims ==
    ASSUME RowsTypeOK, NEW b, NEW keyOf, CreateBatch(b, keyOf)
    PROVE  NoNewClaim
BY DEF RowsTypeOK, CreateBatch, NewRow, NoNewClaim

LEMMA ServiceClaims ==
    ASSUME RowsTypeOK, ServiceStep
    PROVE  NoNewClaim
<1>1. CASE UNCHANGED rows
  BY <1>1 DEF NoNewClaim
<1>2. ASSUME NEW id \in Ids, NEW at \in ClientSchedules, NEW k \in Keys \cup {NoKey},
             CreateInsert(id, at, k)
      PROVE  NoNewClaim
  BY <1>1, <1>2, CreateClaims DEF CreateInsert
<1>3. ASSUME NEW id \in Ids, CreateStep(id) \/ BatchMark(id)
      PROVE  NoNewClaim
  BY <1>1, <1>3, StatusClaims
     DEF CreateStep, CreateQueue, CreatePublish, CreateRollback, BatchMark
<1>4. ASSUME NEW id \in Ids, BatchPublish(id) \/ RequestDies(id) \/ CancelRead(id)
      PROVE  NoNewClaim
  BY <1>1, <1>4 DEF BatchPublish, RequestDies, CancelRead
<1>5. ASSUME NEW b \in Batches, NEW S \in SUBSET Ids, NEW keyOf \in [S -> Keys \cup {NoKey}],
             CreateBatchInsert(b, keyOf)
      PROVE  NoNewClaim
  BY <1>1, <1>5, BatchClaims DEF CreateBatchInsert
<1>6. ASSUME NEW b \in Batches, BatchReturn(b)
      PROVE  NoNewClaim
  BY <1>1, <1>6 DEF BatchReturn
<1>7. ASSUME NEW id \in Ids, CancelUpdate(id)
      PROVE  NoNewClaim
  <2>1. Cancel(id) \/ UNCHANGED rows
    BY <1>7 DEF CancelUpdate
  <2> QED
    BY <2>1, StatusClaims
<1>8. ClientCancels \subseteq Ids
  BY ClientAssumption
<1> QED
  BY <1>2, <1>3, <1>4, <1>5, <1>6, <1>7, <1>8 DEF ServiceStep, NewRequest, BatchStep

LEMMA ConsumerClaims ==
    ASSUME TypeInv, NEW w \in Workers, NEW t \in Topics, ConsumerStep(w, t),
           ~MarkDelivered(w, t)
    PROVE  NoNewClaim
<1>1. RowsTypeOK
  BY DEF TypeInv, TypeOK
<1>2. CASE UNCHANGED rows
  BY <1>2 DEF NoNewClaim
<1>3. CASE MarkProcessing(w, t) \/ MarkFailed(w, t) \/ Increment(w, t)
  <2>1. Current(w, t).id \in Ids
    BY <1>3, InHand DEF MarkProcessing, MarkFailed, Increment, At, Holding
  <2>2. \/ UpdateStatus(Current(w, t).id, "processing")
        \/ UpdateStatus(Current(w, t).id, "failed")
        \/ IncrementRetry(Current(w, t).id)
        \/ UNCHANGED rows
    BY <1>3 DEF MarkProcessing, MarkFailed, Increment, TryUpdateStatus
  <2> QED
    BY <1>1, <2>1, <2>2, StatusClaims
<1> QED
  BY <1>2, <1>3
     DEF ConsumerStep, Fetch, StopConsumer, RetryAfter, RateLimit, Send, DeadLetter,
         ScheduleRetry, Commit

LEMMA SchedulerClaims ==
    ASSUME TypeInv, NEW w \in Workers, SchedulerStep(w)
    PROVE  NoNewClaim
<1>1. CASE UNCHANGED rows
  BY <1>1 DEF NoNewClaim
<1>2. CASE MarkQueued(w)
  <2>1. PICK id \in marking[w] : UpdateStatus(id, "queued") \/ UNCHANGED rows
    BY <1>2 DEF MarkQueued
  <2>2. id \in Ids /\ RowsTypeOK
    BY DEF TypeInv, TypeOK, SchedulerTypeOK
  <2> QED
    BY <2>1, <2>2, StatusClaims
<1> QED
  BY <1>1, <1>2 DEF SchedulerStep, SelectDue, PublishDue

LEMMA DeliveredStep ==
    TypeInv /\ TypeInv' /\ LossInv /\ DeliveredIsSent /\ [Next]_vars => DeliveredIsSent'
<1> SUFFICES ASSUME TypeInv, TypeInv', LossInv, DeliveredIsSent, [Next]_vars
             PROVE  DeliveredIsSent'
  OBVIOUS
<1>1. RowsTypeOK /\ sent \in [Ids -> Nat]
  BY DEF TypeInv, TypeOK, WorkerTypeOK
<1>2. ASSUME NoNewClaim, \A id \in Ids : sent[id] > 0 => sent'[id] > 0
      PROVE  DeliveredIsSent'
  BY <1>2 DEF NoNewClaim, DeliveredIsSent
<1>3. CASE ServiceStep /\ UNCHANGED <<workerVars, schedulerVars>>
  BY <1>1, <1>2, <1>3, ServiceClaims DEF workerVars, historyVars
<1>4. ASSUME NEW w \in Workers, NEW t \in Topics, ConsumerStep(w, t), ~MarkDelivered(w, t)
      PROVE  DeliveredIsSent'
  <2>1. \A id \in Ids : sent[id] > 0 => sent'[id] > 0
    <3>1. CASE Send(w, t)
      BY <1>1, <3>1 DEF Send, SendAccepted, SendRejected, SendUnanswered
    <3>2. CASE UNCHANGED sent
      BY <3>2
    <3> QED
      BY <1>4, <3>1, <3>2
         DEF ConsumerStep, Fetch, StopConsumer, RetryAfter, RateLimit, MarkProcessing, Increment,
             MarkFailed, DeadLetter, ScheduleRetry, Commit, historyVars
  <2> QED
    BY <1>2, <1>4, <2>1, ConsumerClaims
<1>5. ASSUME NEW w \in Workers, NEW t \in Topics, MarkDelivered(w, t)
      PROVE  DeliveredIsSent'
  <2>1. sent' = sent /\ sent[Current(w, t).id] > 0
    BY <1>5 DEF MarkDelivered, historyVars, LossInv, DeliveredSent
  <2>2. UpdateStatus(Current(w, t).id, "delivered") \/ UNCHANGED rows
    BY <1>5 DEF MarkDelivered, TryUpdateStatus
  <2> QED
    BY <1>1, <2>1, <2>2 DEF UpdateStatus, RowsTypeOK, Row, DeliveredIsSent
<1>6. ASSUME NEW w \in Workers, SchedulerStep(w), UNCHANGED <<serviceVars, workerVars>>
      PROVE  DeliveredIsSent'
  BY <1>1, <1>2, <1>6, SchedulerClaims DEF workerVars, historyVars
<1>7. CASE \E id \in Ids : TimePasses(id)
  <2>1. NoNewClaim /\ UNCHANGED sent
    BY <1>1, <1>7, StatusClaims DEF TimePasses, workerVars, historyVars
  <2> QED
    BY <1>2, <2>1
<1>8. CASE UNCHANGED <<rows, sent>>
  BY <1>8 DEF DeliveredIsSent
<1> QED
  BY <1>3, <1>4, <1>5, <1>6, <1>7, <1>8
     DEF Next, Restart, Rebalance, vars, workerVars, historyVars

(* The status delivered is never wrong: whoever writes the row, and        *)
(* whatever is redelivered, the provider has accepted the notification.    *)
THEOREM DeliveredIsTrue == Spec => []DeliveredIsSent
<1>1. Init => DeliveredIsSent
  BY DEF Init, RowsInit, DeliveredIsSent
<1> QED
  BY <1>1, TypeInit, TypeStep, LossInit, LossStep, DeliveredStep, PTL DEF Spec

(***************************************************************************)
(* Given up                                                                *)
(*                                                                         *)
(* A notification is given up only after MAX_RETRIES failed attempts.  The *)
(* attempts are counted in three places, and each count is shown to stay   *)
(* at or below the failures there were: that of every message and of every *)
(* copy of a scheduler; that of a handler with a failed attempt in hand;   *)
(* and that of the row, with the handlers still about to add to it.        *)
(***************************************************************************)
(* Where a handler has a failed attempt in hand.                           *)
AfterFailure == {"increment", "retry", "failed", "dlq"}

(* The consumers that are about to count a failure of id in its row.       *)
Incrementing(id) ==
    {c \in Workers \X Topics : At(c[1], c[2], "increment") /\ Current(c[1], c[2]).id = id}

MessagesCounted ==
    \A t \in Topics : \A i \in DOMAIN log[t] : log[t][i].retryCount <= fails[log[t][i].id]

CopiesCounted == \A w \in Workers : \A n \in due[w] : n.retryCount <= fails[n.id]

HandCounted(w, t) ==
    /\ consumer[w][t].at \in AfterFailure => Attempts(w, t) <= fails[Current(w, t).id]
    /\ consumer[w][t].at \in {"failed", "dlq"} => Attempts(w, t) >= MaxRetries

RowCounted(id) ==
    /\ IsFiniteSet(Incrementing(id))
    /\ rows[id].retryCount + Cardinality(Incrementing(id)) <= fails[id]

GivenUp(id) == rows[id].status = "failed" \/ id \in dlq

CountInv ==
    /\ MessagesCounted /\ CopiesCounted
    /\ \A w \in Workers, t \in Topics : HandCounted(w, t)
    /\ \A id \in Ids : RowCounted(id)
    /\ \A id \in Ids : GivenUp(id) => fails[id] >= MaxRetries

(***************************************************************************)
(* The counts, one at a time, while the failures only grow in number.      *)
(***************************************************************************)
FailsGrow ==
    /\ fails \in [Ids -> Nat] /\ fails' \in [Ids -> Nat]
    /\ \A id \in Ids : fails'[id] >= fails[id]

LEMMA MessagesStay ==
    ASSUME TypeInv, LogOK', MessagesCounted, Grows, FailsGrow,
           \A t \in Topics : \A i \in DOMAIN log'[t] :
              i \in DOMAIN log[t] \/ log'[t][i].retryCount <= fails[log'[t][i].id]
    PROVE  MessagesCounted'
<1> SUFFICES ASSUME NEW t \in Topics, NEW i \in DOMAIN log'[t]
             PROVE  log'[t][i].retryCount <= fails'[log'[t][i].id]
  BY DEF MessagesCounted
<1>1. log'[t] \in Seq(Message)
  BY DEF LogOK
<1>2. log'[t][i] \in Message
  BY <1>1
<1>3. log'[t][i].id \in Ids /\ log'[t][i].retryCount \in Nat
  BY <1>2 DEF Message
<1>4. log'[t][i].retryCount <= fails[log'[t][i].id]
  BY DEF MessagesCounted, Grows, SameMessage
<1>5. /\ fails[log'[t][i].id] \in Nat /\ fails'[log'[t][i].id] \in Nat
      /\ fails'[log'[t][i].id] >= fails[log'[t][i].id]
  BY <1>3 DEF FailsGrow
<1> QED
  BY <1>3, <1>4, <1>5

LEMMA CopiesStay ==
    ASSUME SchedulerTypeOK', CopiesCounted, FailsGrow,
           \A w \in Workers : \A n \in due'[w] : n \in due[w] \/ n.retryCount <= fails[n.id]
    PROVE  CopiesCounted'
<1> SUFFICES ASSUME NEW w \in Workers, NEW n \in due'[w]
             PROVE  n.retryCount <= fails'[n.id]
  BY DEF CopiesCounted
<1>1. n.id \in Ids /\ n.retryCount \in Nat
  BY DEF SchedulerTypeOK, Copies
<1>2. n.retryCount <= fails[n.id]
  BY DEF CopiesCounted
<1> QED
  BY <1>1, <1>2 DEF FailsGrow

LEMMA HandCountStays ==
    ASSUME TypeInv, Grows, FailsGrow, NEW w \in Workers, NEW t \in Topics, HandCounted(w, t),
           consumer'[w][t].at \in AfterFailure => consumer'[w][t] = consumer[w][t]
    PROVE  HandCounted(w, t)'
<1> SUFFICES ASSUME consumer'[w][t].at \in AfterFailure PROVE HandCounted(w, t)'
  BY DEF HandCounted, AfterFailure
<1>1. consumer'[w][t] = consumer[w][t] /\ Holding(w, t)
  BY DEF AfterFailure, Holding
<1>2. /\ Current(w, t)'.id = Current(w, t).id
      /\ Current(w, t)'.retryCount = Current(w, t).retryCount
      /\ Current(w, t).id \in Ids
  BY <1>1, CurrentKept, InHand DEF SameMessage
<1>3. Attempts(w, t)' = Attempts(w, t) /\ Attempts(w, t) \in Nat
  BY <1>1, <1>2, InHand DEF Attempts
<1>4. /\ fails[Current(w, t).id] \in Nat /\ fails'[Current(w, t).id] \in Nat
      /\ fails'[Current(w, t).id] >= fails[Current(w, t).id]
  BY <1>2 DEF FailsGrow
<1> QED
  BY <1>1, <1>2, <1>3, <1>4, MaxRetriesAssumption DEF HandCounted, AfterFailure

LEMMA RowStays ==
    ASSUME TypeInv, RowsTypeOK', FailsGrow, NEW id \in Ids, RowCounted(id),
           Incrementing(id)' \subseteq Incrementing(id),
           rows'[id].retryCount <= rows[id].retryCount
    PROVE  RowCounted(id)'
<1>1. rows[id].retryCount \in Nat /\ rows'[id].retryCount \in Nat
  BY DEF TypeInv, TypeOK, RowsTypeOK, Row
<1>2. IsFiniteSet(Incrementing(id)) /\ Cardinality(Incrementing(id)) \in Nat
  BY FS_CardinalityType DEF RowCounted
<1>3. /\ IsFiniteSet(Incrementing(id)')
      /\ Cardinality(Incrementing(id)') <= Cardinality(Incrementing(id))
  BY <1>2, FS_Subset
<1>4. Cardinality(Incrementing(id)') \in Nat
  BY <1>3, FS_CardinalityType
<1> QED
  BY <1>1, <1>2, <1>3, <1>4 DEF RowCounted, FailsGrow

(* Who is about to count a failure, after a step in which only c moved.    *)
LEMMA IncrementingStays ==
    ASSUME TypeInv, Grows, NEW id \in Ids, NEW c \in Workers \X Topics,
           c \in Incrementing(id)',
           consumer'[c[1]][c[2]] = consumer[c[1]][c[2]]
    PROVE  c \in Incrementing(id)
<1>1. c[1] \in Workers /\ c[2] \in Topics
  OBVIOUS
<1>2. At(c[1], c[2], "increment") /\ Holding(c[1], c[2])
  BY DEF Incrementing, At, Holding
<1>3. SameMessage(Current(c[1], c[2]), Current(c[1], c[2])')
  BY <1>1, <1>2, CurrentKept
<1>4. Current(c[1], c[2])'.id = id
  BY DEF Incrementing
<1> QED
  BY <1>2, <1>3, <1>4 DEF Incrementing, SameMessage

(***************************************************************************)
(* Steps that add nothing to a count: every step but the failure itself    *)
(* and what handleFailure does with it.                                    *)
(***************************************************************************)
RowsUncounted ==
    \A id \in Ids : /\ rows'[id].retryCount <= rows[id].retryCount
                    /\ rows'[id].status = "failed" => rows[id].status = "failed"

LogCalm ==
    /\ Grows
    /\ \A t \in Topics : \A i \in DOMAIN log'[t] :
          i \in DOMAIN log[t] \/ log'[t][i].retryCount <= fails[log'[t][i].id]

DueCalm == \A w \in Workers : \A n \in due'[w] : n \in due[w] \/ n.retryCount <= fails[n.id]

HandsCalm ==
    \A w \in Workers, t \in Topics :
        consumer'[w][t].at \in AfterFailure => consumer'[w][t] = consumer[w][t]

LEMMA UncountedStep ==
    ASSUME TypeInv, TypeInv', CountInv, UNCHANGED <<fails, dlq>>,
           RowsUncounted, LogCalm, DueCalm, HandsCalm
    PROVE  CountInv'
<1>1. LogOK' /\ SchedulerTypeOK' /\ RowsTypeOK' /\ FailsGrow
  BY DEF TypeInv, TypeOK, QueueTypeOK, LogOK, WorkerTypeOK, FailsGrow
<1>2. MessagesCounted'
  BY <1>1, MessagesStay DEF CountInv, LogCalm
<1>3. CopiesCounted'
  BY <1>1, CopiesStay DEF CountInv, DueCalm
<1>4. \A w \in Workers, t \in Topics : HandCounted(w, t)'
  BY <1>1, HandCountStays DEF CountInv, LogCalm, HandsCalm
<1>5. ASSUME NEW id \in Ids
      PROVE  RowCounted(id)'
  <2>1. ASSUME NEW c \in Incrementing(id)'
        PROVE  c \in Incrementing(id)
    <3>1. c \in Workers \X Topics /\ consumer'[c[1]][c[2]].at = "increment"
      BY <2>1 DEF Incrementing, At
    <3>2. consumer'[c[1]][c[2]] = consumer[c[1]][c[2]]
      BY <3>1 DEF HandsCalm, AfterFailure
    <3> QED
      BY <2>1, <3>1, <3>2, IncrementingStays DEF LogCalm
  <2> QED
    BY <1>1, <2>1, RowStays DEF CountInv, RowsUncounted
<1>6. \A id \in Ids : GivenUp(id)' => fails'[id] >= MaxRetries
  BY DEF CountInv, GivenUp, RowsUncounted
<1> QED
  BY <1>2, <1>3, <1>4, <1>5, <1>6 DEF CountInv

LEMMA RowsKept ==
    ASSUME RowsTypeOK, NEW id \in Ids, NEW status, status # "failed",
           UpdateStatus(id, status) \/ Cancel(id) \/ Elapse(id) \/ UNCHANGED rows
    PROVE  RowsUncounted
BY DEF RowsTypeOK, Row, UpdateStatus, Cancel, Elapse, RowsUncounted

LEMMA CreateRows ==
    ASSUME RowsTypeOK, NEW id \in Ids, NEW at, NEW k, Create(id, at, k)
    PROVE  RowsUncounted
BY DEF RowsTypeOK, Row, Create, NewRow, RowsUncounted

LEMMA BatchRowsCalm ==
    ASSUME RowsTypeOK, NEW b, NEW keyOf, CreateBatch(b, keyOf)
    PROVE  RowsUncounted
BY DEF RowsTypeOK, Row, CreateBatch, NewRow, RowsUncounted

LEMMA LogKeptCalm ==
    ASSUME UNCHANGED log
    PROVE  LogCalm
BY DEF LogCalm, Grows, SameMessage

LEMMA SameDomainCalm ==
    ASSUME Grows, \A t \in Topics : DOMAIN log'[t] = DOMAIN log[t]
    PROVE  LogCalm
BY DEF LogCalm

LEMMA WriteCalm ==
    ASSUME LogOK, NEW t \in Topics, NEW id \in Ids, NEW n \in Nat, n <= fails[id],
           WriteMessage(t, id, n)
    PROVE  LogCalm
<1> DEFINE m == [id |-> id, retryCount |-> n, state |-> "ready"]
<1>1. /\ Grows /\ \A u \in Topics : u # t => log'[u] = log[u]
      /\ log'[t] = Append(log[t], m)
  BY AppendMessage
<1>2. log[t] \in Seq(Message)
  BY DEF LogOK
<1>3. /\ DOMAIN log'[t] = 1 .. Len(log[t]) + 1 /\ Len(log[t]) \in Nat
      /\ DOMAIN log[t] = 1 .. Len(log[t])
      /\ log'[t][Len(log[t]) + 1] = m
  BY <1>1, <1>2
<1>4. ASSUME NEW i \in DOMAIN log'[t], i \notin DOMAIN log[t]
      PROVE  log'[t][i].retryCount <= fails[log'[t][i].id]
  <2>1. i = Len(log[t]) + 1
    BY <1>3, <1>4
  <2> QED
    BY <1>3, <2>1
<1> QED
  BY <1>1, <1>4 DEF LogCalm

LEMMA PublishCalm ==
    ASSUME TypeInv, NEW id \in Ids, NEW n \in Nat, n <= fails[id],
           Publish(id, n) \/ UNCHANGED log
    PROVE  LogCalm
<1>1. LogOK /\ TopicOf[id] \in Topics
  BY TopicOfAssumption DEF TypeInv, TypeOK, QueueTypeOK, LogOK, Topics
<1> QED
  BY <1>1, WriteCalm, LogKeptCalm DEF Publish

(***************************************************************************)
(* The API, the schedulers and the environment                             *)
(***************************************************************************)
LEMMA ServiceRows ==
    ASSUME TypeInv, ServiceStep
    PROVE  RowsUncounted
<1>1. RowsTypeOK
  BY DEF TypeInv, TypeOK
<1>2. CASE UNCHANGED rows
  BY <1>1, <1>2 DEF RowsUncounted, RowsTypeOK, Row
<1>3. ASSUME NEW id \in Ids, NEW at \in ClientSchedules, NEW k \in Keys \cup {NoKey},
             CreateInsert(id, at, k)
      PROVE  RowsUncounted
  BY <1>1, <1>2, <1>3, CreateRows DEF CreateInsert
<1>4. ASSUME NEW id \in Ids, CreateStep(id) \/ BatchMark(id)
      PROVE  RowsUncounted
  BY <1>1, <1>2, <1>4, RowsKept
     DEF CreateStep, CreateQueue, CreatePublish, CreateRollback, BatchMark
<1>5. ASSUME NEW id \in Ids, BatchPublish(id) \/ RequestDies(id) \/ CancelRead(id)
      PROVE  RowsUncounted
  BY <1>2, <1>5 DEF BatchPublish, RequestDies, CancelRead
<1>6. ASSUME NEW b \in Batches, NEW S \in SUBSET Ids, NEW keyOf \in [S -> Keys \cup {NoKey}],
             CreateBatchInsert(b, keyOf)
      PROVE  RowsUncounted
  BY <1>1, <1>2, <1>6, BatchRowsCalm DEF CreateBatchInsert
<1>7. ASSUME NEW b \in Batches, BatchReturn(b)
      PROVE  RowsUncounted
  BY <1>2, <1>7 DEF BatchReturn
<1>8. ASSUME NEW id \in Ids, CancelUpdate(id)
      PROVE  RowsUncounted
  <2>1. Cancel(id) \/ UNCHANGED rows
    BY <1>8 DEF CancelUpdate
  <2> QED
    BY <1>1, <2>1, RowsKept
<1> QED
  BY <1>3, <1>4, <1>5, <1>6, <1>7, <1>8, ClientAssumption DEF ServiceStep, NewRequest, BatchStep

LEMMA ServiceLog ==
    ASSUME TypeInv, ServiceStep
    PROVE  LogCalm
<1>1. CASE UNCHANGED log
  BY <1>1, LogKeptCalm
<1>2. ASSUME NEW id \in Ids, CreatePublish(id) \/ BatchPublish(id)
      PROVE  LogCalm
  <2>1. Publish(id, 0) \/ UNCHANGED log
    BY <1>2 DEF CreatePublish, BatchPublish
  <2>2. 0 <= fails[id]
    BY DEF TypeInv, TypeOK, WorkerTypeOK
  <2> QED
    BY <2>1, <2>2, PublishCalm
<1> QED
  BY <1>1, <1>2
     DEF ServiceStep, NewRequest, BatchStep, CreateStep, CreateInsert, CreateQueue,
         CreateRollback, CreateBatchInsert, BatchMark, BatchReturn, CancelRead, CancelUpdate,
         RequestDies, queueVars

LEMMA Idle ==
    ASSUME TypeInv
    PROVE  /\ UNCHANGED rows => RowsUncounted
           /\ UNCHANGED log => LogCalm
           /\ UNCHANGED schedulerVars => DueCalm
           /\ UNCHANGED consumer => HandsCalm
BY LogKeptCalm
   DEF TypeInv, TypeOK, RowsTypeOK, Row, RowsUncounted, DueCalm, HandsCalm, schedulerVars

(* The scheduler's copies take their counter from the row.                 *)
LEMMA SchedulerCalm ==
    ASSUME TypeInv, CountInv, NEW w \in Workers, SchedulerStep(w)
    PROVE  RowsUncounted /\ LogCalm /\ DueCalm /\ dlq' = dlq
<1>1. RowsTypeOK /\ SchedulerTypeOK /\ fails \in [Ids -> Nat]
  BY DEF TypeInv, TypeOK, WorkerTypeOK
<1>2. CASE SelectDue(w)
  <2>1. ASSUME NEW id \in Ids
        PROVE  rows[id].retryCount <= fails[id]
    <3>1. Cardinality(Incrementing(id)) \in Nat
      BY FS_CardinalityType DEF CountInv, RowCounted
    <3> QED
      BY <1>1, <3>1 DEF CountInv, RowCounted, RowsTypeOK, Row
  <2>2. \A v \in Workers : \A n \in due'[v] :
           n \in due[v] \/ \E id \in Ids : n = [id |-> id, retryCount |-> rows[id].retryCount]
    BY <1>1, <1>2 DEF SelectDue, SchedulerTypeOK, GetDueScheduled
  <2> QED
    BY <1>2, <2>1, <2>2, Idle DEF SelectDue, queueVars, DueCalm
<1>3. CASE PublishDue(w)
  <2>1. PICK n \in due[w] : /\ due' = [due EXCEPT ![w] = @ \ {n}]
                            /\ Publish(n.id, n.retryCount) \/ UNCHANGED log
    BY <1>3 DEF PublishDue
  <2>2. n.id \in Ids /\ n.retryCount \in Nat /\ n.retryCount <= fails[n.id]
    BY <1>1 DEF CountInv, CopiesCounted, SchedulerTypeOK, Copies
  <2>3. LogCalm
    BY <2>1, <2>2, PublishCalm
  <2>4. DueCalm
    BY <1>1, <2>1 DEF SchedulerTypeOK, DueCalm
  <2> QED
    BY <1>3, <2>3, <2>4, Idle DEF PublishDue
<1>4. CASE MarkQueued(w)
  <2>1. PICK id \in marking[w] : UpdateStatus(id, "queued") \/ UNCHANGED rows
    BY <1>4 DEF MarkQueued
  <2>2. RowsUncounted
    BY <1>1, <2>1, RowsKept DEF SchedulerTypeOK
  <2> QED
    BY <1>4, <2>2, Idle DEF MarkQueued, queueVars, DueCalm
<1> QED
  BY <1>2, <1>3, <1>4 DEF SchedulerStep

LEMMA EnvironmentCounts ==
    ASSUME TypeInv, TypeInv', CountInv,
           \/ \E w \in Workers : Restart(w)
           \/ \E w \in Workers :
                 Sigterm(w) /\ UNCHANGED <<rows, queueVars, serviceVars, workerVars, schedulerVars>>
           \/ Rebalance(MainTopics) \/ Rebalance({RetryTopic})
           \/ \E id \in Ids : TimePasses(id)
           \/ UNCHANGED vars
    PROVE  CountInv'
<1>1. LogOK /\ RowsTypeOK /\ SchedulerTypeOK /\ ConsumersOK
  BY DEF TypeInv, TypeOK, QueueTypeOK, LogOK, WorkerTypeOK, ConsumersOK
<1>2. ASSUME NEW w \in Workers, Restart(w)
      PROVE  CountInv'
  <2>1. LogCalm
    BY <1>1, <1>2, Redelivering, SameDomainCalm DEF Restart
  <2>2. DueCalm
    BY <1>1, <1>2 DEF Restart, SchedulerTypeOK, DueCalm
  <2>3. HandsCalm
    BY <1>1, <1>2 DEF Restart, ConsumersOK, Waiting, HandsCalm, AfterFailure
  <2> QED
    BY <1>2, <2>1, <2>2, <2>3, Idle, UncountedStep DEF Restart, historyVars
<1>3. CASE Rebalance(MainTopics) \/ Rebalance({RetryTopic})
  <2>1. LogCalm
    BY <1>1, <1>3, Redelivering, SameDomainCalm DEF Rebalance
  <2> QED
    BY <1>3, <2>1, Idle, UncountedStep DEF Rebalance, workerVars, historyVars
<1>4. ASSUME NEW id \in Ids, TimePasses(id)
      PROVE  CountInv'
  <2>1. RowsUncounted
    BY <1>1, <1>4, RowsKept DEF TimePasses
  <2> QED
    BY <1>4, <2>1, Idle, UncountedStep DEF TimePasses, queueVars, workerVars, historyVars
<1>5. CASE UNCHANGED <<rows, queueVars, workerVars, schedulerVars>>
  BY <1>5, Idle, UncountedStep DEF queueVars, workerVars, historyVars
<1> QED
  BY <1>2, <1>3, <1>4, <1>5 DEF vars

(***************************************************************************)
(* The handlers                                                            *)
(***************************************************************************)
LEMMA MovedHands ==
    ASSUME ConsumersOK, NEW w \in Workers, NEW t \in Topics, OthersStay(w, t),
           consumer'[w][t].at \notin AfterFailure
    PROVE  HandsCalm
BY DEF OthersStay, HandsCalm

LEMMA RetryCalm ==
    ASSUME TypeInv, CountInv, NEW w \in Workers, NEW t \in Topics, ScheduleRetry(w, t)
    PROVE  LogCalm
<1>1. LogOK /\ Current(w, t).id \in Ids /\ Attempts(w, t) \in Nat
  BY InHand DEF TypeInv, TypeOK, QueueTypeOK, LogOK, ScheduleRetry, At, Holding
<1>2. Attempts(w, t) <= fails[Current(w, t).id]
  BY DEF CountInv, HandCounted, ScheduleRetry, At, AfterFailure
<1>3. PublishRetry(Current(w, t).id, Attempts(w, t)) \/ UNCHANGED log
  BY DEF ScheduleRetry
<1> QED
  BY <1>1, <1>2, <1>3, WriteCalm, LogKeptCalm DEF PublishRetry, Topics

LEMMA ConsumerCalm ==
    ASSUME TypeInv, TypeInv', CountInv, NEW w \in Workers, NEW t \in Topics, ConsumerStep(w, t),
           UNCHANGED schedulerVars, UNCHANGED <<fails, dlq>>,
           ~At(w, t, "increment"), ~At(w, t, "failed"), ~At(w, t, "dlq")
    PROVE  CountInv'
<1>1. LogOK /\ RowsTypeOK /\ ConsumersOK
  BY DEF TypeInv, TypeOK, QueueTypeOK, LogOK, WorkerTypeOK, ConsumersOK
<1>2. LogCalm
  <2>1. CASE Fetch(w, t)
    BY <1>1, <2>1, Fetching, SameDomainCalm DEF Fetch
  <2>2. CASE Commit(w, t)
    <3>1. consumer[w][t].slot \in DOMAIN log[t]
      BY <2>2, InHand DEF Commit, At, Holding
    <3> QED
      BY <1>1, <2>2, <3>1, Committing, SameDomainCalm DEF Commit
  <2>3. CASE ScheduleRetry(w, t)
    BY <2>3, RetryCalm
  <2>4. CASE UNCHANGED log
    BY <2>4, LogKeptCalm
  <2> QED
    BY <2>1, <2>2, <2>3, <2>4
       DEF ConsumerStep, StopConsumer, RetryAfter, RateLimit, MarkProcessing, Send, MarkDelivered,
           Increment, MarkFailed, DeadLetter, queueVars
<1>3. RowsUncounted
  <2>1. CASE MarkProcessing(w, t) \/ MarkDelivered(w, t)
    <3>1. Current(w, t).id \in Ids
      BY <2>1, InHand DEF MarkProcessing, MarkDelivered, At, Holding
    <3>2. \/ UpdateStatus(Current(w, t).id, "processing")
          \/ UpdateStatus(Current(w, t).id, "delivered")
          \/ UNCHANGED rows
      BY <2>1 DEF MarkProcessing, MarkDelivered, TryUpdateStatus
    <3> QED
      BY <1>1, <3>1, <3>2, RowsKept
  <2>2. CASE UNCHANGED rows
    BY <2>2, Idle
  <2> QED
    BY <2>1, <2>2
       DEF ConsumerStep, Fetch, StopConsumer, RetryAfter, RateLimit, Send, Increment, MarkFailed,
           DeadLetter, ScheduleRetry, Commit
<1>4. HandsCalm
  <2>1. \/ \E c : Moves(w, t, c) /\ c.at \notin AfterFailure
        \/ \E step : Goto(w, t, step) /\ step \notin AfterFailure
    <3>1. CASE Fetch(w, t) \/ Commit(w, t)
      <4>1. CASE Fetch(w, t)
        <5>1. PICK i \in DOMAIN log[t] :
                 Moves(w, t, [at |-> IF t = RetryTopic THEN "delay" ELSE "limit", slot |-> i])
          BY <4>1 DEF Fetch, Moves
        <5> QED
          BY <5>1 DEF AfterFailure
      <4>2. CASE Commit(w, t)
        <5>1. Moves(w, t, Waiting) /\ Waiting.at \notin AfterFailure
          BY <4>2 DEF Commit, Moves, Waiting, AfterFailure
        <5> QED
          BY <5>1
      <4> QED
        BY <3>1, <4>1, <4>2
    <3>2. CASE Send(w, t)
      <4>1. fails' = fails
        OBVIOUS
      <4>2. SendAccepted(w, t)
        <5>1. ASSUME fails' = [fails EXCEPT ![Current(w, t).id] = @ + 1]
              PROVE  FALSE
          <6>1. Current(w, t).id \in Ids
            BY <3>2, InHand DEF Send, At, Holding
          <6> QED
            BY <4>1, <5>1, <6>1 DEF TypeInv, TypeOK, WorkerTypeOK
        <5> QED
          BY <3>2, <5>1 DEF Send, SendRejected, SendUnanswered
      <4> QED
        BY <4>2 DEF SendAccepted, AfterFailure
    <3> QED
      BY <3>1, <3>2
         DEF ConsumerStep, StopConsumer, RetryAfter, RateLimit, MarkProcessing, MarkDelivered,
             Increment, MarkFailed, DeadLetter, ScheduleRetry, AfterFailure
  <2> QED
    BY <1>1, <2>1, Moved, Gone, MovedHands
<1> QED
  BY <1>2, <1>3, <1>4, Idle, UncountedStep

(* A failed attempt: the handler's count and the row's to come grow with   *)
(* the failures.                                                           *)
LEMMA FailureCounted ==
    ASSUME TypeInv, TypeInv', CountInv, NEW w \in Workers, NEW t \in Topics, Send(w, t),
           UNCHANGED schedulerVars,
           fails' = [fails EXCEPT ![Current(w, t).id] = @ + 1], Goto(w, t, "increment")
    PROVE  CountInv'
<1>1. LogOK' /\ SchedulerTypeOK' /\ RowsTypeOK' /\ RowsTypeOK /\ ConsumersOK
  BY DEF TypeInv, TypeOK, QueueTypeOK, LogOK, WorkerTypeOK, ConsumersOK
<1>2. Holding(w, t) /\ At(w, t, "send") /\ UNCHANGED <<rows, log, dlq, due>>
  BY DEF Send, At, Holding, queueVars, schedulerVars
<1> PICK id \in Ids : id = Current(w, t).id
  BY <1>2, InHand
<1>3. id \in Ids /\ Attempts(w, t) \in Nat /\ consumer[w][t].slot \in DOMAIN log[t]
  BY <1>2, InHand
<1>4. FailsGrow /\ fails'[id] = fails[id] + 1
  BY <1>3 DEF TypeInv, TypeOK, WorkerTypeOK, FailsGrow
<1>5. /\ consumer'[w][t].at = "increment" /\ consumer'[w][t].slot = consumer[w][t].slot
      /\ OthersStay(w, t)
  BY <1>1, Gone
<1>6. Grows /\ LogCalm
  BY <1>2, LogKeptCalm DEF LogCalm
<1>7. MessagesCounted'
  BY <1>1, <1>4, <1>6, MessagesStay DEF CountInv, LogCalm
<1>8. CopiesCounted'
  BY <1>1, <1>2, <1>4, CopiesStay DEF CountInv
<1>9. Current(w, t)' = Current(w, t)
  BY <1>2, <1>5 DEF Current
<1>10. ASSUME NEW v \in Workers, NEW u \in Topics
       PROVE  HandCounted(v, u)'
  <2>1. CASE v = w /\ u = t
    <3>1. Current(w, t).retryCount <= fails[id]
      BY <1>3 DEF CountInv, MessagesCounted, Current
    <3>2. Current(w, t).retryCount \in Nat
      BY <1>2, InHand DEF Message
    <3>3. Attempts(w, t)' <= fails'[id]
      BY <1>3, <1>4, <1>9, <3>1, <3>2 DEF Attempts, FailsGrow
    <3> QED
      BY <1>5, <1>9, <2>1, <3>3 DEF HandCounted
  <2>2. CASE v # w \/ u # t
    <3>1. consumer'[v][u] = consumer[v][u]
      BY <1>5, <2>2 DEF OthersStay
    <3> QED
      BY <1>4, <1>6, <3>1, HandCountStays DEF CountInv
  <2> QED
    BY <2>1, <2>2
<1>11. ASSUME NEW o \in Ids, NEW c \in Incrementing(o)', c # <<w, t>>
       PROVE  c \in Incrementing(o)
  <2>1. c \in Workers \X Topics /\ c = <<c[1], c[2]>>
    BY <1>11 DEF Incrementing
  <2>2. c[1] \in Workers /\ c[2] \in Topics /\ (c[1] # w \/ c[2] # t)
    BY <1>11, <2>1
  <2>3. consumer'[c[1]][c[2]] = consumer[c[1]][c[2]]
    BY <1>5, <2>2 DEF OthersStay
  <2> QED
    BY <1>6, <1>11, <2>1, <2>3, IncrementingStays
<1>12. ASSUME NEW o \in Ids
       PROVE  RowCounted(o)'
  <2>1. CASE o # id
    <3>1. <<w, t>> \notin Incrementing(o)'
      BY <1>9, <2>1 DEF Incrementing
    <3>2. Incrementing(o)' \subseteq Incrementing(o)
      BY <1>11, <3>1
    <3>3. rows'[o].retryCount <= rows[o].retryCount
      BY <1>1, <1>2 DEF RowsTypeOK, Row
    <3> QED
      BY <1>1, <1>4, <3>2, <3>3, RowStays DEF CountInv
  <2>2. CASE o = id
    <3>1. rows[id].retryCount \in Nat /\ fails[id] \in Nat
      BY <1>1, <1>4 DEF RowsTypeOK, Row, FailsGrow
    <3>2. /\ IsFiniteSet(Incrementing(id)) /\ Cardinality(Incrementing(id)) \in Nat
          /\ rows[id].retryCount + Cardinality(Incrementing(id)) <= fails[id]
      BY FS_CardinalityType DEF CountInv, RowCounted
    <3>3. Incrementing(id)' \subseteq Incrementing(id) \cup {<<w, t>>}
      BY <1>11
    <3>4. /\ IsFiniteSet(Incrementing(id)') /\ Cardinality(Incrementing(id)') \in Nat
          /\ Cardinality(Incrementing(id)') <= Cardinality(Incrementing(id)) + 1
      BY <3>2, <3>3, OneMore
    <3> QED
      BY <1>2, <1>4, <2>2, <3>1, <3>2, <3>4 DEF RowCounted
  <2> QED
    BY <2>1, <2>2
<1>13. \A o \in Ids : GivenUp(o)' => fails'[o] >= MaxRetries
  <2>1. \A o \in Ids : GivenUp(o)' => GivenUp(o)
    BY <1>2 DEF GivenUp
  <2> QED
    BY <1>4, <2>1, MaxRetriesAssumption DEF CountInv, FailsGrow
<1> QED
  BY <1>7, <1>8, <1>10, <1>12, <1>13 DEF CountInv

(* handleFailure goes on: no failure is added, no copy is made.            *)
LEMMA FailureHandled ==
    ASSUME TypeInv, TypeInv', CountInv, NEW w \in Workers, NEW t \in Topics, NEW step,
           Holding(w, t), Goto(w, t, step), UNCHANGED <<fails, log, due>>,
           HandCounted(w, t)', \A o \in Ids : RowCounted(o)',
           \A o \in Ids : GivenUp(o)' => GivenUp(o) \/ fails[o] >= MaxRetries
    PROVE  CountInv'
<1>1. LogOK' /\ SchedulerTypeOK' /\ FailsGrow /\ ConsumersOK
  BY DEF TypeInv, TypeOK, QueueTypeOK, LogOK, WorkerTypeOK, ConsumersOK, FailsGrow
<1>2. LogCalm
  BY LogKeptCalm
<1>3. MessagesCounted' /\ CopiesCounted'
  BY DEF CountInv, MessagesCounted, CopiesCounted
<1>4. ASSUME NEW v \in Workers, NEW u \in Topics, v # w \/ u # t
      PROVE  HandCounted(v, u)'
  <2>1. consumer'[v][u] = consumer[v][u]
    BY <1>1, <1>4, Gone DEF OthersStay
  <2> QED
    BY <1>1, <1>2, <2>1, HandCountStays DEF CountInv, LogCalm
<1>5. \A o \in Ids : GivenUp(o)' => fails'[o] >= MaxRetries
  BY DEF CountInv
<1> QED
  BY <1>3, <1>4, <1>5 DEF CountInv

(* Who is about to count, after a step that takes (w, t) elsewhere.        *)
LEMMA IncrementingElsewhere ==
    ASSUME TypeInv, NEW w \in Workers, NEW t \in Topics, NEW step, step # "increment",
           Goto(w, t, step), UNCHANGED log, NEW o \in Ids
    PROVE  Incrementing(o)' \subseteq Incrementing(o) \ {<<w, t>>}
<1>1. ConsumersOK /\ Grows
  BY LogKeptCalm DEF TypeInv, TypeOK, WorkerTypeOK, ConsumersOK, LogCalm
<1>2. consumer'[w][t].at = step /\ OthersStay(w, t)
  BY <1>1, Gone
<1>3. ASSUME NEW c \in Incrementing(o)'
      PROVE  c \in Incrementing(o) /\ c # <<w, t>>
  <2>1. /\ c \in Workers \X Topics /\ c = <<c[1], c[2]>>
        /\ consumer'[c[1]][c[2]].at = "increment"
    BY <1>3 DEF Incrementing, At
  <2>2. c # <<w, t>>
    BY <1>2, <2>1
  <2>3. c[1] \in Workers /\ c[2] \in Topics /\ (c[1] # w \/ c[2] # t)
    BY <2>1, <2>2
  <2>4. consumer'[c[1]][c[2]] = consumer[c[1]][c[2]]
    BY <1>2, <2>3 DEF OthersStay
  <2> QED
    BY <1>1, <1>3, <2>1, <2>2, <2>4, IncrementingStays
<1> QED
  BY <1>3

LEMMA RowsStay ==
    ASSUME TypeInv, TypeInv', CountInv, NEW w \in Workers, NEW t \in Topics, NEW step,
           step # "increment", Goto(w, t, step), UNCHANGED <<log, fails>>,
           \A o \in Ids : rows'[o].retryCount <= rows[o].retryCount
    PROVE  \A o \in Ids : RowCounted(o)'
<1>1. RowsTypeOK' /\ FailsGrow
  BY DEF TypeInv, TypeOK, WorkerTypeOK, FailsGrow
<1>2. \A o \in Ids : Incrementing(o)' \subseteq Incrementing(o)
  BY IncrementingElsewhere
<1> QED
  BY <1>1, <1>2, RowStays DEF CountInv

LEMMA IncrementCounts ==
    ASSUME TypeInv, TypeInv', CountInv, NEW w \in Workers, NEW t \in Topics, Increment(w, t),
           UNCHANGED schedulerVars
    PROVE  CountInv'
<1> DEFINE step == IF Attempts(w, t) >= MaxRetries THEN "failed" ELSE "retry"
<1>1. RowsTypeOK /\ RowsTypeOK' /\ ConsumersOK /\ fails \in [Ids -> Nat]
  BY DEF TypeInv, TypeOK, WorkerTypeOK, ConsumersOK
<1>2. /\ Holding(w, t) /\ consumer[w][t].at = "increment" /\ Goto(w, t, step)
      /\ UNCHANGED <<fails, log, dlq, due>>
  BY DEF Increment, At, Holding, queueVars, historyVars, schedulerVars
<1>3. step \in {"failed", "retry"} /\ (step = "failed" => Attempts(w, t) >= MaxRetries)
  OBVIOUS
<1> PICK id \in Ids : id = Current(w, t).id
  BY <1>2, InHand
<1>4. IncrementRetry(id) \/ UNCHANGED rows
  BY DEF Increment
<1> HIDE DEF step
<1>5. consumer'[w][t].at = step /\ consumer'[w][t].slot = consumer[w][t].slot
  BY <1>1, <1>2, Gone
<1>6. HandCounted(w, t)'
  <2>1. Current(w, t)' = Current(w, t) /\ Attempts(w, t)' = Attempts(w, t)
    BY <1>2, <1>5 DEF Current, Attempts
  <2>2. Attempts(w, t) <= fails[Current(w, t).id]
    BY <1>2 DEF CountInv, HandCounted, AfterFailure
  <2> QED
    BY <1>2, <1>3, <1>5, <2>1, <2>2 DEF HandCounted
<1>7. ASSUME NEW o \in Ids
      PROVE  RowCounted(o)'
  <2>1. Incrementing(o)' \subseteq Incrementing(o) \ {<<w, t>>}
    BY <1>2, <1>3, IncrementingElsewhere
  <2>2. CASE o # id
    <3>1. rows'[o].retryCount <= rows[o].retryCount
      BY <1>1, <1>4, <2>2 DEF IncrementRetry, RowsTypeOK, Row
    <3>2. FailsGrow
      BY <1>1, <1>2 DEF FailsGrow
    <3> QED
      BY <1>1, <2>1, <3>1, <3>2, RowStays DEF CountInv
  <2>3. CASE o = id
    <3>1. /\ rows[id].retryCount \in Nat /\ rows'[id].retryCount \in Nat
          /\ rows'[id].retryCount <= rows[id].retryCount + 1
      BY <1>1, <1>4 DEF IncrementRetry, RowsTypeOK, Row
    <3>2. /\ IsFiniteSet(Incrementing(id)) /\ Cardinality(Incrementing(id)) \in Nat
          /\ rows[id].retryCount + Cardinality(Incrementing(id)) <= fails[id]
      BY FS_CardinalityType DEF CountInv, RowCounted
    <3>3. <<w, t>> \in Incrementing(id)
      BY <1>2 DEF Incrementing, At
    <3>4. /\ IsFiniteSet(Incrementing(id)') /\ Cardinality(Incrementing(id)') \in Nat
          /\ Cardinality(Incrementing(id)') <= Cardinality(Incrementing(id)) - 1
      BY <2>1, <2>3, <3>2, <3>3, OneLess
    <3> QED
      BY <1>1, <1>2, <2>3, <3>1, <3>2, <3>4 DEF RowCounted
  <2> QED
    BY <2>2, <2>3
<1>8. \A o \in Ids : GivenUp(o)' => GivenUp(o)
  BY <1>1, <1>2, <1>4 DEF IncrementRetry, RowsTypeOK, Row, GivenUp
<1> QED
  BY <1>2, <1>6, <1>7, <1>8, FailureHandled

LEMMA GivingUpCounts ==
    ASSUME TypeInv, TypeInv', CountInv, NEW w \in Workers, NEW t \in Topics,
           MarkFailed(w, t) \/ DeadLetter(w, t), UNCHANGED schedulerVars
    PROVE  CountInv'
<1>1. RowsTypeOK /\ ConsumersOK /\ fails \in [Ids -> Nat]
  BY DEF TypeInv, TypeOK, WorkerTypeOK, ConsumersOK
<1>2. /\ Holding(w, t) /\ consumer[w][t].at \in {"failed", "dlq"}
      /\ UNCHANGED <<fails, log, due>>
  BY DEF MarkFailed, DeadLetter, At, Holding, queueVars, historyVars, schedulerVars
<1> PICK id \in Ids : id = Current(w, t).id
  BY <1>2, InHand
<1>3. fails[id] >= MaxRetries
  <2>1. Attempts(w, t) <= fails[id] /\ Attempts(w, t) >= MaxRetries
    BY <1>2 DEF CountInv, HandCounted, AfterFailure
  <2>2. Attempts(w, t) \in Nat /\ fails[id] \in Nat
    BY <1>1, <1>2, InHand
  <2> QED
    BY <2>1, <2>2, MaxRetriesAssumption
<1>4. PICK step \in {"dlq", "ack", "nack"} : Goto(w, t, step)
  BY DEF MarkFailed, DeadLetter
<1>5. /\ \A o \in Ids : rows'[o].retryCount <= rows[o].retryCount
      /\ \A o \in Ids : GivenUp(o)' => GivenUp(o) \/ o = id
  <2>1. CASE MarkFailed(w, t)
    <3>1. UpdateStatus(id, "failed") \/ UNCHANGED rows
      BY <2>1 DEF MarkFailed, TryUpdateStatus
    <3>2. UNCHANGED dlq
      BY <2>1 DEF MarkFailed, queueVars
    <3> QED
      BY <1>1, <3>1, <3>2 DEF UpdateStatus, RowsTypeOK, Row, GivenUp
  <2>2. CASE DeadLetter(w, t)
    <3>1. UNCHANGED rows /\ (PublishDLQ(id) \/ UNCHANGED dlq)
      BY <2>2 DEF DeadLetter
    <3> QED
      BY <1>1, <3>1 DEF PublishDLQ, RowsTypeOK, Row, GivenUp
  <2> QED
    BY <2>1, <2>2
<1>6. HandCounted(w, t)'
  <2>1. consumer'[w][t].at = step /\ consumer'[w][t].slot = consumer[w][t].slot
    BY <1>1, <1>4, Gone
  <2>2. Current(w, t)' = Current(w, t) /\ Attempts(w, t)' = Attempts(w, t)
    BY <1>2, <2>1 DEF Current, Attempts
  <2> QED
    BY <1>2, <2>1, <2>2 DEF CountInv, HandCounted, AfterFailure
<1>7. \A o \in Ids : RowCounted(o)'
  BY <1>2, <1>4, <1>5, RowsStay
<1> QED
  BY <1>2, <1>3, <1>4, <1>5, <1>6, <1>7, FailureHandled

LEMMA ConsumerCounts ==
    ASSUME TypeInv, TypeInv', CountInv, NEW w \in Workers, NEW t \in Topics, ConsumerStep(w, t),
           UNCHANGED schedulerVars
    PROVE  CountInv'
<1>1. CASE Send(w, t)
  <2>1. CASE SendAccepted(w, t)
    BY <1>1, <2>1, ConsumerCalm DEF Send, SendAccepted, At, queueVars
  <2>2. CASE SendRejected(w, t) \/ SendUnanswered(w, t)
    BY <1>1, <2>2, FailureCounted DEF SendRejected, SendUnanswered
  <2> QED
    BY <1>1, <2>1, <2>2 DEF Send
<1>2. CASE MarkFailed(w, t) \/ DeadLetter(w, t)
  BY <1>2, GivingUpCounts
<1>3. CASE Increment(w, t)
  BY <1>3, IncrementCounts
<1>4. CASE \/ Fetch(w, t) \/ StopConsumer(w, t) \/ RetryAfter(w, t) \/ RateLimit(w, t)
           \/ MarkProcessing(w, t) \/ MarkDelivered(w, t) \/ ScheduleRetry(w, t) \/ Commit(w, t)
  BY <1>4, ConsumerCalm
     DEF ConsumerStep, Fetch, StopConsumer, RetryAfter, RateLimit, MarkProcessing,
         MarkDelivered, ScheduleRetry, Commit, At, queueVars, historyVars
<1> QED
  BY <1>1, <1>2, <1>3, <1>4 DEF ConsumerStep

LEMMA CountInit == Init => CountInv
<1> SUFFICES ASSUME Init PROVE CountInv
  OBVIOUS
<1>1. MessagesCounted /\ CopiesCounted
  BY DEF Init, QueueInit, SchedulerInit, MessagesCounted, CopiesCounted
<1>2. \A w \in Workers, t \in Topics : consumer[w][t].at = "fetch"
  BY DEF Init, WorkerInit, Waiting
<1>3. \A w \in Workers, t \in Topics : HandCounted(w, t)
  BY <1>2 DEF HandCounted, AfterFailure
<1>4. ASSUME NEW id \in Ids
      PROVE  RowCounted(id) /\ ~GivenUp(id)
  <2>1. Incrementing(id) = {}
    BY <1>2 DEF Incrementing, At
  <2>2. rows[id].retryCount = 0 /\ fails[id] = 0 /\ rows[id].status = "absent" /\ dlq = {}
    BY DEF Init, RowsInit, WorkerInit, QueueInit
  <2> QED
    BY <2>1, <2>2, FS_EmptySet DEF RowCounted, GivenUp
<1> QED
  BY <1>1, <1>3, <1>4 DEF CountInv

LEMMA CountStep == TypeInv /\ TypeInv' /\ CountInv /\ [Next]_vars => CountInv'
<1> SUFFICES ASSUME TypeInv, TypeInv', CountInv, [Next]_vars PROVE CountInv'
  OBVIOUS
<1>1. CASE ServiceStep /\ UNCHANGED <<workerVars, schedulerVars>>
  BY <1>1, ServiceRows, ServiceLog, ServiceDlq, Idle, UncountedStep DEF workerVars, historyVars
<1>2. ASSUME NEW w \in Workers, SchedulerStep(w), UNCHANGED workerVars
      PROVE  CountInv'
  BY <1>2, SchedulerCalm, Idle, UncountedStep DEF workerVars, historyVars
<1> QED
  BY <1>1, <1>2, ConsumerCounts, EnvironmentCounts DEF Next

(* The status failed and the dead letter topic are reached only after      *)
(* MAX_RETRIES failed attempts, and the row's retry_count never exceeds    *)
(* the failures there were, whatever is redelivered or copied.             *)
THEOREM GivenUpIsEarned == Spec => []DeadLetterEarned
<1>1. TypeInv /\ CountInv => DeadLetterEarned
  <2> SUFFICES ASSUME TypeInv, CountInv, NEW id \in Ids
               PROVE  rows[id].retryCount <= fails[id]
    BY DEF DeadLetterEarned, CountInv, GivenUp
  <2>1. rows[id].retryCount \in Nat /\ fails[id] \in Nat
    BY DEF TypeInv, TypeOK, RowsTypeOK, Row, WorkerTypeOK
  <2>2. /\ Cardinality(Incrementing(id)) \in Nat
        /\ rows[id].retryCount + Cardinality(Incrementing(id)) <= fails[id]
    BY FS_CardinalityType DEF CountInv, RowCounted
  <2> QED
    BY <2>1, <2>2
<1> QED
  BY <1>1, TypeInit, TypeStep, CountInit, CountStep, PTL DEF Spec
=============================================================================
