---------------------------- MODULE RetrySchedule ----------------------------
(***************************************************************************)
(* When failed deliveries are tried again.  handleFailure writes the time  *)
(* of the next attempt into the message's retry-after header.  All         *)
(* channels share the retry topic.  A partition of it is read by the one   *)
(* replica that owns it, in order, and a replica's consumer handles one    *)
(* message at a time: it holds the message until its time has come, and    *)
(* the others of its partitions wait behind it.                            *)
(*                                                                         *)
(* The copies that a rebalance or a failed commit leaves behind are the    *)
(* subject of Pipeline: here a message has one holder.                     *)
(*                                                                         *)
(* Time is counted in ticks and kept relative: how long it is until        *)
(* retry-after and since the failure, and where in its second it is.       *)
(***************************************************************************)
EXTENDS Integers, Sequences, FiniteSets

CONSTANTS Ids,              \* notifications, of any channels
          Workers,          \* replicas
          Partitions,       \* of the retry topic
          MaxRetries,
          BaseRetryDelay,   \* in ticks
          Second,           \* the ticks of a second
          MaxFaults

ASSUME RetryAssumption == MaxRetries \in Nat /\ BaseRetryDelay \in Nat \ {0}
ASSUME SecondAssumption == Second \in Nat \ {0}
ASSUME FaultsAssumption == MaxFaults \in Nat

VARIABLES place,        \* place[id]: "attempt", "topic", "delay" or "over"
          retryCount,   \* retryCount[id]: RetryCount in the message
          delay,        \* delay[id]: the last delay that was chosen for it
          wait,         \* wait[id]: the ticks until retry-after
          waited,       \* waited[id]: the ticks since the last failure, if not many
          topic,        \* topic[p]: what is in partition p and not committed
          owner,        \* owner[p]: the replica whose consumer reads p
          reading,      \* reading[w]: the partition whose first message w holds, or Nothing
          phase,        \* the tick in the current second
          faults

messageVars == <<place, retryCount, delay, wait, waited>>
queueVars == <<topic, owner, reading>>
vars == <<messageVars, queueVars, phase, faults>>

Nothing == "nothing"

(* retryDelay: the backoff, and the jitter in [0, base) that is added.     *)
Backoff(attempt) == BaseRetryDelay * 2 ^ (attempt - 1)

(* Slips to detect: jitter around the backoff, and in [0, 2 * base].       *)
JitterBothWays == 1 - BaseRetryDelay .. BaseRetryDelay - 1

JitterOfTwoDelays == 0 .. 2 * BaseRetryDelay

Jitter == 0 .. BaseRetryDelay - 1

(* No delay that is chosen is as long.                                     *)
Horizon == IF MaxRetries > 0 THEN Backoff(MaxRetries) ELSE 0

TypeOK ==
    /\ place \in [Ids -> {"attempt", "topic", "delay", "over"}]
    /\ retryCount \in [Ids -> 0 .. MaxRetries]
    /\ delay \in [Ids -> 0 .. Horizon] /\ wait \in [Ids -> 0 .. Horizon]
    /\ waited \in [Ids -> 0 .. Horizon]
    /\ topic \in [Partitions -> Seq(Ids)]
    /\ owner \in [Partitions -> Workers]
    /\ reading \in [Workers -> Partitions \cup {Nothing}]
    /\ phase \in 0 .. Second - 1
    /\ faults \in 0 .. MaxFaults

(* The first attempts are those of the channels' own consumers.            *)
Init ==
    /\ place = [id \in Ids |-> "attempt"]
    /\ retryCount = [id \in Ids |-> 0]
    /\ delay = [id \in Ids |-> 0] /\ wait = [id \in Ids |-> 0]
    /\ waited = [id \in Ids |-> 0]
    /\ topic = [p \in Partitions |-> <<>>]
    /\ owner \in [Partitions -> Workers]
    /\ reading = [w \in Workers |-> Nothing]
    /\ phase \in 0 .. Second - 1
    /\ faults = 0

Tick ==
    /\ phase' = (phase + 1) % Second
    /\ wait' = [id \in Ids |-> IF wait[id] > 0 THEN wait[id] - 1 ELSE 0]
    /\ waited' = [id \in Ids |->
                    IF waited[id] < Horizon THEN waited[id] + 1 ELSE Horizon]
    /\ UNCHANGED <<place, retryCount, delay, queueVars, faults>>

First(p, id) == topic[p] # <<>> /\ Head(topic[p]) = id

(* The handler returned and its message is committed.  That of a first     *)
(* attempt is in another topic.                                            *)
Commit(id) == [p \in Partitions |-> IF First(p, id) THEN Tail(topic[p]) ELSE topic[p]]

Release(id) ==
    reading' = [w \in Workers |->
                   IF reading[w] # Nothing /\ First(reading[w], id) THEN Nothing ELSE reading[w]]

Delivered(id) ==
    /\ place[id] = "attempt"
    /\ place' = [place EXCEPT ![id] = "over"]
    /\ topic' = Commit(id)
    /\ Release(id)
    /\ UNCHANGED <<retryCount, delay, wait, waited, owner, phase, faults>>

(* time.RFC3339 has no fraction of a second: it is cut off.                *)
UntilRetryAfter(d) ==
    LET cut == d - ((phase + d) % Second) IN IF cut > 0 THEN cut ELSE 0

(* handleFailure, with PublishRetry: any partition may have got the fewest *)
(* bytes.                                                                  *)
ScheduleRetry(id) ==
    /\ place[id] = "attempt"
    /\ retryCount[id] + 1 < MaxRetries
    /\ retryCount' = [retryCount EXCEPT ![id] = @ + 1]
    /\ \E jitter \in Jitter :
          LET d == Backoff(retryCount[id] + 1) + jitter IN
          /\ delay' = [delay EXCEPT ![id] = d]
          /\ wait' = [wait EXCEPT ![id] = UntilRetryAfter(d)]
    /\ waited' = [waited EXCEPT ![id] = 0]
    /\ place' = [place EXCEPT ![id] = "topic"]
    /\ \E p \in Partitions : topic' = [Commit(id) EXCEPT ![p] = Append(@, id)]
    /\ Release(id)
    /\ UNCHANGED <<owner, phase, faults>>

DeadLetter(id) ==
    /\ place[id] = "attempt"
    /\ retryCount[id] + 1 >= MaxRetries
    /\ place' = [place EXCEPT ![id] = "over"]
    /\ topic' = Commit(id)
    /\ Release(id)
    /\ UNCHANGED <<retryCount, delay, wait, waited, owner, phase, faults>>

(***************************************************************************)
(* ConsumeWithDelay                                                        *)
(***************************************************************************)
Fetch(w, p) ==
    /\ owner[p] = w
    /\ reading[w] = Nothing
    /\ topic[p] # <<>>
    /\ reading' = [reading EXCEPT ![w] = p]
    /\ place' = [place EXCEPT ![Head(topic[p])] = "delay"]
    /\ UNCHANGED <<retryCount, delay, wait, waited, topic, owner, phase, faults>>

RetryAfter(id) ==
    /\ place[id] = "delay"
    /\ wait[id] = 0
    /\ place' = [place EXCEPT ![id] = "attempt"]
    /\ UNCHANGED <<retryCount, delay, wait, waited, queueVars, phase, faults>>

(* A slip to detect: a message is committed when it is fetched, so that a  *)
(* long delay does not hold up the offset.                                 *)
RestartCommitted(w) ==
    /\ faults < MaxFaults
    /\ reading[w] # Nothing
    /\ place' = [place EXCEPT ![Head(topic[reading[w]])] = "over"]
    /\ topic' = [topic EXCEPT ![reading[w]] = Tail(@)]
    /\ reading' = [reading EXCEPT ![w] = Nothing]
    /\ faults' = faults + 1
    /\ UNCHANGED <<retryCount, delay, wait, waited, owner, phase>>

(* The replica ends in the middle of a delay or an attempt.  The message   *)
(* is fetched again, with the retry-after it had, by whoever owns its      *)
(* partition now; what a survivor is reading stays with it.                *)
Restart(w) ==
    /\ faults < MaxFaults
    /\ reading[w] # Nothing
    /\ place' = [place EXCEPT ![Head(topic[reading[w]])] = "topic"]
    /\ reading' = [reading EXCEPT ![w] = Nothing]
    /\ owner' \in [Partitions -> Workers]
    /\ \A v \in Workers \ {w} : reading[v] # Nothing => owner'[reading[v]] = v
    /\ faults' = faults + 1
    /\ UNCHANGED <<retryCount, delay, wait, waited, topic, phase>>

Handle(id) == Delivered(id) \/ ScheduleRetry(id) \/ DeadLetter(id)

Next ==
    \/ Tick
    \/ \E id \in Ids : Handle(id) \/ RetryAfter(id)
    \/ \E w \in Workers :
          \/ Restart(w)
          \/ \E p \in Partitions : Fetch(w, p)

Spec == Init /\ [][Next]_vars

(* Time passes, timers fire, handlers return, consumers go on reading.     *)
Fairness ==
    /\ WF_vars(Tick)
    /\ \A id \in Ids : WF_vars(Handle(id)) /\ WF_vars(RetryAfter(id))
    /\ \A p \in Partitions : WF_vars(\E w \in Workers : Fetch(w, p))

FairSpec == Spec /\ Fairness

(***************************************************************************)
(* Properties                                                              *)
(***************************************************************************)

(* A retry is attempted no more than a second before its backoff is over,  *)
(* whoever held it, and however often its wait was interrupted.            *)
BackoffAlmostKept ==
    [][\A id \in Ids : place[id] = "delay" /\ place'[id] = "attempt"
            => waited[id] + Second > Backoff(retryCount[id])]_vars

(* Each retry of a notification is put off for longer than the one before, *)
(* whatever the jitter of either.                                          *)
DelaysGrow ==
    [][\A id \in Ids : retryCount'[id] # retryCount[id] => delay'[id] > delay[id]]_vars

(* No message stays in the retry topic or in a consumer's hands for ever:  *)
(* what is behind another's delay in its partition, or in its replica's    *)
(* other partition, has its turn, though replicas end in the middle.       *)
EveryRetryAttempted ==
    \A id \in Ids : place[id] \in {"topic", "delay"} ~> place[id] = "attempt"
=============================================================================
