---------------------------- MODULE MessageQueue ----------------------------
(***************************************************************************)
(* Kafka as the producer and consumer adapters use it.  A topic is an      *)
(* append-only log; a message is a copy of the notification taken when it  *)
(* was published, of which only the id and RetryCount matter later.        *)
(*                                                                         *)
(* The state of a message is that of its consumer group: "ready" to be     *)
(* fetched, "fetched" by a member whose handler has not returned,          *)
(* "handled" when it has and the commit failed, or "committed".            *)
(* The writers balance by LeastBytes over the partitions, whatever the     *)
(* key, so the log's order is not the order of consumption.                *)
(***************************************************************************)
EXTENDS Notification, Naturals, Sequences

CONSTANTS MainTopics,   \* the topics notifications-<channel>-<priority>
          TopicOf       \* TopicOf[id]: the topic of id's channel and priority

RetryTopic == "notifications-retry"
Topics == MainTopics \cup {RetryTopic}

ASSUME TopicOfAssumption == TopicOf \in [Ids -> MainTopics]
ASSUME RetryTopicAssumption == RetryTopic \notin MainTopics

VARIABLES log,          \* log[t]: the messages of topic t
          dlq           \* the notifications in notifications-dlq, which has no consumer

queueVars == <<log, dlq>>

Message == [id : Ids, retryCount : Nat,
            state : {"ready", "fetched", "handled", "committed"}]

QueueTypeOK ==
    /\ log \in [Topics -> Seq(Message)]
    /\ dlq \in SUBSET Ids

QueueInit ==
    /\ log = [t \in Topics |-> << >>]
    /\ dlq = {}

WriteMessage(t, id, rc) ==
    log' = [log EXCEPT ![t] = Append(@, [id |-> id, retryCount |-> rc, state |-> "ready"])]

Publish(id, rc) == WriteMessage(TopicOf[id], id, rc)

PublishRetry(id, rc) == WriteMessage(RetryTopic, id, rc)

PublishDLQ(id) == dlq' = dlq \cup {id}

(* A slip to detect: ReadMessage, which commits what it returns.           *)
ReadMessage(t, i) ==
    /\ log[t][i].state = "ready"
    /\ log' = [log EXCEPT ![t][i].state = "committed"]

FetchMessage(t, i) ==
    /\ log[t][i].state = "ready"
    /\ log' = [log EXCEPT ![t][i].state = "fetched"]

(* A commit moves the offset of a partition: it may cover earlier messages *)
(* of that partition, all handled, whose own commit failed.                *)
CommitMessage(t, i) ==
    \E covered \in SUBSET {j \in DOMAIN log[t] : log[t][j].state = "handled"} :
        log' = [log EXCEPT ![t] = [j \in DOMAIN @ |->
                    IF j \in covered \cup {i} THEN [@[j] EXCEPT !.state = "committed"]
                                            ELSE @[j]]]

CommitFails(t, i) ==
    log' = [log EXCEPT ![t][i].state = IF @ = "fetched" THEN "handled" ELSE @]

(***************************************************************************)
(* The members of a consumer group start again from the committed offsets: *)
(* what was fetched and not committed is delivered again, also when the    *)
(* member that fetched it is still working on it.                          *)
(***************************************************************************)
Redelivered(m) == IF m.state = "committed" THEN m ELSE [m EXCEPT !.state = "ready"]

Redeliver(groups) ==
    log' = [t \in Topics |-> IF t \in groups
                             THEN [i \in DOMAIN log[t] |-> Redelivered(log[t][i])]
                             ELSE log[t]]

Published(id) == \E t \in Topics : \E i \in DOMAIN log[t] : log[t][i].id = id

(* A consumer still has to fetch m, or to finish it.                       *)
Pending(m) == m.state \in {"ready", "fetched"}

Live(id) ==
    \E t \in Topics : \E i \in DOMAIN log[t] : log[t][i].id = id /\ Pending(log[t][i])
=============================================================================
