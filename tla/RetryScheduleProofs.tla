------------------------- MODULE RetryScheduleProofs -------------------------
(***************************************************************************)
(* Delays and how long they last, for any number of notifications, of      *)
(* replicas, of attempts and of restarts, and any base delay.              *)
(*                                                                         *)
(* That a backoff is twice the one before is what both properties rest on. *)
(* The provers know nothing of powers; the library knows 2^n as the number *)
(* of subsets of a set with n elements.                                    *)
(***************************************************************************)
EXTENDS RetrySchedule, FiniteSetTheorems, TLAPS

(***************************************************************************)
(* Powers of two                                                           *)
(***************************************************************************)
LEMMA SubsetsOf ==
    ASSUME NEW n \in Nat
    PROVE  /\ IsFiniteSet(SUBSET (1 .. n)) /\ Cardinality(SUBSET (1 .. n)) = 2 ^ n
           /\ 2 ^ n \in Nat
<1>1. IsFiniteSet(1 .. n) /\ Cardinality(1 .. n) = n
  BY FS_Interval
<1>2. IsFiniteSet(SUBSET (1 .. n)) /\ Cardinality(SUBSET (1 .. n)) = 2 ^ n
  BY <1>1, FS_SUBSET
<1> QED
  BY <1>2, FS_CardinalityType

LEMMA PowersGrow ==
    ASSUME NEW m \in Nat, NEW n \in Nat, m <= n
    PROVE  2 ^ m <= 2 ^ n
<1> DEFINE S == SUBSET (1 .. m)
           T == SUBSET (1 .. n)
<1>1. S \subseteq T
  OBVIOUS
<1>2. IsFiniteSet(T) /\ Cardinality(S) = 2 ^ m /\ Cardinality(T) = 2 ^ n
  BY SubsetsOf
<1> HIDE DEF S, T
<1>3. Cardinality(S) <= Cardinality(T)
  BY <1>1, <1>2, FS_Subset
<1> QED
  BY <1>2, <1>3

(* Half of the subsets of 1 .. n + 1 contain n + 1.                        *)
LEMMA PowersDouble ==
    ASSUME NEW n \in Nat
    PROVE  2 ^ (n + 1) = 2 * 2 ^ n
<1> DEFINE S == SUBSET (1 .. n)
           T == {A \cup {n + 1} : A \in S}
           f == [A \in S |-> A \cup {n + 1}]
<1>1. IsFiniteSet(S) /\ Cardinality(S) = 2 ^ n /\ 2 ^ n \in Nat
      /\ Cardinality(SUBSET (1 .. n + 1)) = 2 ^ (n + 1)
  BY SubsetsOf
<1>2. \A A \in S : n + 1 \notin A
  OBVIOUS
<1>3. f \in Bijection(S, T)
  <2>1. f \in [S -> T]
    OBVIOUS
  <2>2. \A A, B \in S : f[A] = f[B] => A = B
    BY <1>2
  <2>3. \A B \in T : \E A \in S : f[A] = B
    OBVIOUS
  <2> HIDE DEF S, T, f
  <2> QED
    BY <2>1, <2>2, <2>3 DEF Bijection, Injection, Surjection, IsInjective
<1>4. IsFiniteSet(T) /\ Cardinality(T) = 2 ^ n
  <2> HIDE DEF S, T, f
  <2> QED
    BY <1>1, <1>3, FS_Bijection DEF ExistsBijection
<1>5. S \cap T = {}
  BY <1>2
<1>6. SUBSET (1 .. n + 1) = S \cup T
  <2>1. 1 .. n + 1 = (1 .. n) \cup {n + 1}
    OBVIOUS
  <2>2. ASSUME NEW B \in SUBSET (1 .. n + 1)
        PROVE  B \in S \cup T
    <3>1. CASE n + 1 \in B
      <4>1. B \ {n + 1} \in S /\ B = (B \ {n + 1}) \cup {n + 1}
        BY <2>1, <3>1
      <4> QED
        BY <4>1
    <3>2. CASE n + 1 \notin B
      BY <2>1, <3>2
    <3> QED
      BY <3>1, <3>2
  <2>3. S \cup T \subseteq SUBSET (1 .. n + 1)
    BY <2>1
  <2> QED
    BY <2>2, <2>3
<1>7. Cardinality(S \cup T) = Cardinality(S) + Cardinality(T) - Cardinality(S \cap T)
  <2> HIDE DEF S, T
  <2> QED
    BY <1>1, <1>4, FS_Union
<1>8. Cardinality(S \cap T) = 0
  BY <1>5, FS_EmptySet
<1>9. Cardinality(S \cup T) = 2 ^ (n + 1)
  BY <1>1, <1>6
<1> DEFINE p == 2 ^ n
<1> HIDE DEF S, T, p
<1>10. Cardinality(S \cup T) = 2 * p
  <2>1. p \in Nat /\ Cardinality(S) = p /\ Cardinality(T) = p
    BY <1>1, <1>4 DEF p
  <2> QED
    BY <2>1, <1>7, <1>8
<1> QED
  BY <1>9, <1>10 DEF p

(***************************************************************************)
(* Backoffs                                                                *)
(***************************************************************************)
LEMMA BackoffIs ==
    ASSUME NEW n \in Nat \ {0}
    PROVE  /\ Backoff(n) \in Nat /\ Backoff(n) >= BaseRetryDelay
           /\ Backoff(n + 1) = 2 * Backoff(n)
           /\ Backoff(n) + BaseRetryDelay <= Backoff(n + 1)
<1> DEFINE k == n - 1
           p == 2 ^ k
<1>1. k \in Nat /\ n = k + 1 /\ n + 1 - 1 = k + 1
  OBVIOUS
<1>2. p \in Nat /\ p >= 1 /\ 2 ^ (k + 1) = 2 * p
  <2> HIDE DEF k
  <2>1. p \in Nat /\ 2 ^ (k + 1) = 2 * p
    BY <1>1, SubsetsOf, PowersDouble
  <2>2. Cardinality(SUBSET (1 .. k)) = p /\ IsFiniteSet(SUBSET (1 .. k))
    BY <1>1, SubsetsOf
  <2>3. SUBSET (1 .. k) # {}
    OBVIOUS
  <2> QED
    BY <2>1, <2>2, <2>3, FS_EmptySet
<1>3. Backoff(n) = BaseRetryDelay * p
  BY DEF Backoff
<1>4. Backoff(n + 1) = BaseRetryDelay * (2 * p)
  BY <1>1, <1>2 DEF Backoff
<1> HIDE DEF p
<1>5. /\ BaseRetryDelay * p \in Nat /\ BaseRetryDelay * p >= BaseRetryDelay
      /\ BaseRetryDelay * (2 * p) = 2 * (BaseRetryDelay * p)
  BY <1>2, RetryAssumption
<1> QED
  BY <1>3, <1>4, <1>5, RetryAssumption

LEMMA BackoffsGrow ==
    ASSUME NEW m \in Nat \ {0}, NEW n \in Nat \ {0}, m <= n
    PROVE  Backoff(m) <= Backoff(n)
<1> DEFINE p == 2 ^ (m - 1)
           q == 2 ^ (n - 1)
<1>1. p \in Nat /\ q \in Nat /\ p <= q
  <2>1. m - 1 \in Nat /\ n - 1 \in Nat /\ m - 1 <= n - 1
    OBVIOUS
  <2> QED
    BY <2>1, SubsetsOf, PowersGrow
<1>2. Backoff(m) = BaseRetryDelay * p /\ Backoff(n) = BaseRetryDelay * q
  BY DEF Backoff
<1> HIDE DEF p, q
<1> QED
  BY <1>1, <1>2, RetryAssumption

(* The delay that is chosen for a retry, the last one included.            *)
LEMMA DelayIs ==
    ASSUME NEW n \in Nat, n + 1 < MaxRetries, NEW jitter \in Jitter
    PROVE  /\ Backoff(n + 1) + jitter \in Nat
           /\ Backoff(n + 1) + jitter < Backoff(n + 2)
           /\ Backoff(n + 2) <= Horizon /\ Horizon \in Nat
<1>1. MaxRetries \in Nat \ {0} /\ n + 1 \in Nat \ {0} /\ n + 2 \in Nat \ {0} /\ n + 2 <= MaxRetries
      /\ n + 2 = (n + 1) + 1
  BY RetryAssumption
<1>2. jitter \in Nat /\ jitter < BaseRetryDelay /\ BaseRetryDelay \in Nat
  BY RetryAssumption DEF Jitter
<1>3. Backoff(n + 1) \in Nat /\ Backoff(n + 1) + BaseRetryDelay <= Backoff((n + 1) + 1)
  BY <1>1, BackoffIs
<1>4. Backoff(n + 2) \in Nat /\ Backoff(MaxRetries) \in Nat
  BY <1>1, BackoffIs
<1>5. Backoff(n + 2) <= Backoff(MaxRetries)
  BY <1>1, BackoffsGrow
<1>6. Horizon = Backoff(MaxRetries)
  BY <1>1 DEF Horizon
<1> QED
  BY <1>1, <1>2, <1>3, <1>4, <1>5, <1>6

(***************************************************************************)
(* The invariant                                                           *)
(***************************************************************************)

(* What is in the retry topic, or was read from it, has failed before.     *)
RetriesOnly ==
    /\ \A id \in Ids : place[id] \in {"topic", "delay"} => retryCount[id] > 0
    /\ \A p \in Partitions : \A i \in DOMAIN topic[p] : retryCount[topic[p][i]] > 0

(* Who is reading a partition holds a message of it.                       *)
ReadingFirst == \A w \in Workers : reading[w] # Nothing => topic[reading[w]] # <<>>

RetriesLeft == \A id \in Ids : retryCount[id] > 0 => retryCount[id] < MaxRetries

(* What a retry has waited and has still to wait is its backoff, but for   *)
(* less than a second: wherever it is, restarts leave retry-after alone.   *)
WaitInv ==
    \A id \in Ids : retryCount[id] > 0 =>
        waited[id] + wait[id] + Second > Backoff(retryCount[id])

(* The last delay is shorter than the next backoff.                        *)
DelayInv == \A id \in Ids : delay[id] < Backoff(retryCount[id] + 1)

IInv == TypeOK /\ RetriesOnly /\ ReadingFirst /\ RetriesLeft /\ WaitInv /\ DelayInv

LEMMA HorizonIs ==
    /\ Horizon \in Nat
    /\ \A n \in Nat \ {0} : n < MaxRetries => Backoff(n) \in Nat /\ Backoff(n) <= Horizon
<1>1. CASE MaxRetries = 0
  BY <1>1, RetryAssumption DEF Horizon
<1>2. CASE MaxRetries # 0
  <2>1. MaxRetries \in Nat \ {0} /\ Horizon = Backoff(MaxRetries)
    BY <1>2, RetryAssumption DEF Horizon
  <2>2. Backoff(MaxRetries) \in Nat
    BY <2>1, BackoffIs
  <2>3. \A n \in Nat \ {0} : n < MaxRetries => Backoff(n) \in Nat /\ Backoff(n) <= Backoff(MaxRetries)
    BY <2>1, BackoffIs, BackoffsGrow
  <2> QED
    BY <2>1, <2>2, <2>3
<1> QED
  BY <1>1, <1>2

LEMMA SecondCut ==
    ASSUME NEW n \in Nat
    PROVE  n % Second \in Nat /\ n % Second < Second
BY SecondAssumption

(* RFC3339 cuts off less than a second.                                    *)
LEMMA RetryAfterIs ==
    ASSUME NEW d \in Nat, phase \in 0 .. Second - 1
    PROVE  /\ UntilRetryAfter(d) \in Nat /\ UntilRetryAfter(d) <= d
           /\ UntilRetryAfter(d) + Second > d
<1> DEFINE r == (phase + d) % Second
<1>1. phase + d \in Nat
  BY SecondAssumption
<1>2. r \in Nat /\ r < Second
  BY <1>1, SecondCut
<1>3. UntilRetryAfter(d) = IF d - r > 0 THEN d - r ELSE 0
  BY DEF UntilRetryAfter
<1> HIDE DEF r
<1> QED
  BY <1>2, <1>3, SecondAssumption

(* What is left of a partition after a commit.                             *)
LEMMA CommitIs ==
    ASSUME TypeOK, NEW id \in Ids
    PROVE  /\ Commit(id) \in [Partitions -> Seq(Ids)]
           /\ \A p \in Partitions : \A i \in DOMAIN Commit(id)[p] :
                 \E j \in DOMAIN topic[p] : Commit(id)[p][i] = topic[p][j]
<1> SUFFICES ASSUME NEW p \in Partitions
             PROVE  /\ Commit(id)[p] \in Seq(Ids)
                    /\ \A i \in DOMAIN Commit(id)[p] :
                          \E j \in DOMAIN topic[p] : Commit(id)[p][i] = topic[p][j]
  BY DEF Commit
<1> DEFINE s == topic[p]
<1>1. s \in Seq(Ids)
  BY DEF TypeOK
<1>2. Commit(id)[p] = s \/ (s # <<>> /\ Commit(id)[p] = Tail(s))
  BY DEF Commit, First
<1> HIDE DEF s
<1>3. CASE Commit(id)[p] = s
  BY <1>1, <1>3 DEF s
<1>4. CASE s # <<>> /\ Commit(id)[p] = Tail(s)
  <2>1. /\ Tail(s) \in Seq(Ids) /\ Len(s) \in Nat /\ DOMAIN s = 1 .. Len(s)
        /\ \A i \in DOMAIN Tail(s) : i + 1 \in DOMAIN s /\ Tail(s)[i] = s[i + 1]
    BY <1>1, <1>4
  <2> QED
    BY <1>4, <2>1 DEF s
<1> QED
  BY <1>2, <1>3, <1>4

(* Whoever goes on reading holds what was not committed.                   *)
LEMMA ReleaseIs ==
    ASSUME TypeOK, ReadingFirst, NEW id \in Ids, Release(id)
    PROVE  /\ reading' \in [Workers -> Partitions \cup {Nothing}]
           /\ \A w \in Workers : reading'[w] # Nothing => Commit(id)[reading'[w]] # <<>>
BY DEF TypeOK, ReadingFirst, Release, Commit

LEMMA RetryInit == Init => IInv
<1> SUFFICES ASSUME Init
             PROVE  IInv
  OBVIOUS
<1>1. 1 \in Nat \ {0} /\ 0 + 1 = 1
  OBVIOUS
<1>2. Backoff(1) \in Nat /\ Backoff(1) >= BaseRetryDelay
  BY <1>1, BackoffIs
<1>3. DelayInv
  BY <1>1, <1>2, RetryAssumption DEF Init, DelayInv
<1>4. TypeOK
  BY HorizonIs, RetryAssumption, FaultsAssumption DEF Init, TypeOK
<1> QED
  BY <1>3, <1>4 DEF Init, IInv, RetriesOnly, ReadingFirst, RetriesLeft, WaitInv

LEMMA TickStep ==
    ASSUME IInv, Tick
    PROVE  IInv'
<1> USE DEF IInv
<1>1. UNCHANGED <<place, retryCount, delay, topic, owner, reading, faults>>
  BY DEF Tick, queueVars
<1>2. Horizon \in Nat
  BY HorizonIs
<1>3. \A id \in Ids :
         /\ wait[id] \in 0 .. Horizon /\ waited[id] \in 0 .. Horizon
         /\ wait'[id] = IF wait[id] > 0 THEN wait[id] - 1 ELSE 0
         /\ waited'[id] = IF waited[id] < Horizon THEN waited[id] + 1 ELSE Horizon
  BY DEF Tick, TypeOK
<1>4. wait' \in [Ids -> 0 .. Horizon] /\ waited' \in [Ids -> 0 .. Horizon]
  BY <1>2 DEF Tick, TypeOK
<1>5. phase' \in 0 .. Second - 1
  <2>1. phase + 1 \in Nat /\ phase' = (phase + 1) % Second
    BY SecondAssumption DEF Tick, TypeOK
  <2>2. (phase + 1) % Second \in Nat /\ (phase + 1) % Second < Second
    BY <2>1, SecondCut
  <2> QED
    BY <2>1, <2>2, SecondAssumption
<1>6. WaitInv'
  <2> SUFFICES ASSUME NEW id \in Ids, retryCount[id] > 0
               PROVE  waited'[id] + wait'[id] + Second > Backoff(retryCount[id])
    BY <1>1 DEF WaitInv
  <2>1. retryCount[id] \in Nat \ {0} /\ retryCount[id] < MaxRetries
    BY RetryAssumption DEF TypeOK, RetriesLeft
  <2>2. Backoff(retryCount[id]) \in Nat /\ Backoff(retryCount[id]) <= Horizon
    BY <2>1, HorizonIs
  <2>3. waited[id] + wait[id] + Second > Backoff(retryCount[id])
    BY DEF WaitInv
  <2> QED
    BY <1>2, <1>3, <2>2, <2>3, SecondAssumption
<1> QED
  BY <1>1, <1>4, <1>5, <1>6 DEF TypeOK, RetriesOnly, ReadingFirst, RetriesLeft, DelayInv

LEMMA ScheduleStep ==
    ASSUME IInv, NEW id \in Ids, ScheduleRetry(id)
    PROVE  IInv' /\ delay'[id] > delay[id] /\ \A o \in Ids \ {id} : delay'[o] = delay[o]
<1> USE DEF IInv
<1> DEFINE n == retryCount[id]
<1>1. n \in Nat /\ n + 1 < MaxRetries /\ MaxRetries \in Nat
  BY RetryAssumption DEF ScheduleRetry, TypeOK
<1>2. PICK jitter \in Jitter :
         /\ delay' = [delay EXCEPT ![id] = Backoff(n + 1) + jitter]
         /\ wait' = [wait EXCEPT ![id] = UntilRetryAfter(Backoff(n + 1) + jitter)]
  BY DEF ScheduleRetry
<1>3. /\ place' = [place EXCEPT ![id] = "topic"]
      /\ retryCount' = [retryCount EXCEPT ![id] = n + 1]
      /\ waited' = [waited EXCEPT ![id] = 0]
      /\ UNCHANGED <<owner, phase, faults>>
  BY DEF ScheduleRetry
<1>q. PICK q \in Partitions : topic' = [Commit(id) EXCEPT ![q] = Append(@, id)]
  BY DEF ScheduleRetry
<1>c. /\ Commit(id) \in [Partitions -> Seq(Ids)]
      /\ \A p \in Partitions : \A i \in DOMAIN Commit(id)[p] :
            \E j \in DOMAIN topic[p] : Commit(id)[p][i] = topic[p][j]
  BY CommitIs
<1>r. /\ reading' \in [Workers -> Partitions \cup {Nothing}]
      /\ \A w \in Workers : reading'[w] # Nothing => Commit(id)[reading'[w]] # <<>>
  BY ReleaseIs DEF ScheduleRetry
<1> HIDE DEF n
<1> DEFINE d == Backoff(n + 1) + jitter
<1>4. /\ d \in Nat /\ d < Backoff(n + 2) /\ Backoff(n + 2) <= Horizon /\ Horizon \in Nat
  BY <1>1, DelayIs
<1>5. /\ Backoff(n + 1) \in Nat /\ d >= Backoff(n + 1) /\ Backoff(n + 2) \in Nat
  <2>1. n + 1 \in Nat \ {0} /\ n + 2 \in Nat \ {0}
    BY <1>1
  <2>2. Backoff(n + 1) \in Nat /\ Backoff(n + 2) \in Nat
    BY <2>1, BackoffIs
  <2>3. jitter \in Nat
    BY RetryAssumption DEF Jitter
  <2> QED
    BY <2>2, <2>3
<1> DEFINE r == UntilRetryAfter(d)
<1>6. /\ r \in Nat /\ r <= d /\ r + Second > d
  BY <1>4, RetryAfterIs DEF TypeOK
<1>7. /\ delay' = [delay EXCEPT ![id] = d] /\ wait' = [wait EXCEPT ![id] = r]
  BY <1>2
<1> HIDE DEF d, r
<1>8. /\ delay'[id] = d /\ wait'[id] = r /\ waited'[id] = 0 /\ retryCount'[id] = n + 1
      /\ \A o \in Ids \ {id} : /\ delay'[o] = delay[o] /\ wait'[o] = wait[o]
                               /\ waited'[o] = waited[o] /\ retryCount'[o] = retryCount[o]
                               /\ place'[o] = place[o]
  BY <1>3, <1>7 DEF TypeOK
<1>9. TypeOK'
  <2>1. d \in 0 .. Horizon /\ r \in 0 .. Horizon /\ 0 \in 0 .. Horizon /\ n + 1 \in 0 .. MaxRetries
    BY <1>1, <1>4, <1>5, <1>6
  <2>2. topic' \in [Partitions -> Seq(Ids)]
    BY <1>q, <1>c
  <2>3. /\ delay' \in [Ids -> 0 .. Horizon] /\ wait' \in [Ids -> 0 .. Horizon]
        /\ waited' \in [Ids -> 0 .. Horizon] /\ retryCount' \in [Ids -> 0 .. MaxRetries]
        /\ place' \in [Ids -> {"attempt", "topic", "delay", "over"}]
    BY <1>3, <1>7, <2>1 DEF TypeOK
  <2> QED
    BY <1>3, <1>r, <2>2, <2>3 DEF TypeOK
<1>10. RetriesOnly'
  <2>1. \A o \in Ids : retryCount[o] > 0 => retryCount'[o] > 0
    BY <1>1, <1>8
  <2>2. retryCount'[id] > 0
    BY <1>1, <1>8
  <2>3. \A o \in Ids : place'[o] \in {"topic", "delay"} => retryCount'[o] > 0
    BY <1>8, <2>1, <2>2 DEF RetriesOnly
  <2>4. \A p \in Partitions : \A j \in DOMAIN topic[p] :
           topic[p][j] \in Ids /\ retryCount'[topic[p][j]] > 0
    BY <2>1 DEF TypeOK, RetriesOnly
  <2>5. ASSUME NEW p \in Partitions, NEW i \in DOMAIN topic'[p]
        PROVE  retryCount'[topic'[p][i]] > 0
    <3> DEFINE s == Commit(id)[p]
    <3>1. s \in Seq(Ids) /\ \A k \in DOMAIN s : retryCount'[s[k]] > 0
      BY <1>c, <2>4
    <3>2. topic'[p] = s \/ topic'[p] = Append(s, id)
      BY <1>q, <1>c
    <3> HIDE DEF s
    <3>3. CASE topic'[p] = s
      BY <3>1, <3>3
    <3>4. CASE topic'[p] = Append(s, id)
      <4>1. (i \in DOMAIN s /\ topic'[p][i] = s[i]) \/ topic'[p][i] = id
        BY <3>1, <3>4
      <4> QED
        BY <2>2, <3>1, <4>1
    <3> QED
      BY <3>2, <3>3, <3>4
  <2> QED
    BY <2>3, <2>5 DEF RetriesOnly
<1>s. ReadingFirst'
  <2> SUFFICES ASSUME NEW w \in Workers, reading'[w] # Nothing
               PROVE  topic'[reading'[w]] # <<>>
    BY DEF ReadingFirst
  <2>1. reading'[w] \in Partitions /\ Commit(id)[reading'[w]] # <<>>
    BY <1>r
  <2>2. \A t \in Seq(Ids) : Append(t, id) # <<>>
    OBVIOUS
  <2> QED
    BY <1>q, <1>c, <2>1, <2>2
<1>11. RetriesLeft'
  BY <1>1, <1>8 DEF RetriesLeft
<1>12. WaitInv'
  <2>1. waited'[id] + wait'[id] + Second > Backoff(retryCount'[id])
    BY <1>4, <1>5, <1>6, <1>8, SecondAssumption
  <2> QED
    BY <1>8, <2>1 DEF WaitInv
<1>13. DelayInv'
  <2>1. retryCount'[id] + 1 = n + 2
    BY <1>1, <1>8
  <2> QED
    BY <1>4, <1>8, <2>1 DEF DelayInv
<1>14. delay'[id] > delay[id]
  <2>1. delay[id] \in Nat /\ delay[id] < Backoff(n + 1)
    BY <1>4 DEF TypeOK, DelayInv, n
  <2> QED
    BY <1>4, <1>5, <1>8, <2>1
<1> QED
  BY <1>8, <1>9, <1>10, <1>11, <1>12, <1>13, <1>14, <1>s

(* Steps that move messages and leave their counts and times alone.        *)
LEMMA MovingStep ==
    ASSUME IInv, UNCHANGED <<retryCount, delay, wait, waited, phase>>,
           place' \in [Ids -> {"attempt", "topic", "delay", "over"}],
           topic' \in [Partitions -> Seq(Ids)], owner' \in [Partitions -> Workers],
           reading' \in [Workers -> Partitions \cup {Nothing}], faults' \in 0 .. MaxFaults,
           RetriesOnly', ReadingFirst'
    PROVE  IInv'
BY DEF IInv, TypeOK, RetriesLeft, WaitInv, DelayInv

LEMMA OverStep ==
    ASSUME IInv, NEW id \in Ids, Delivered(id) \/ DeadLetter(id)
    PROVE  IInv'
<1> USE DEF IInv
<1>1. /\ place' = [place EXCEPT ![id] = "over"] /\ topic' = Commit(id) /\ Release(id)
      /\ UNCHANGED <<retryCount, delay, wait, waited, owner, phase, faults>>
  BY DEF Delivered, DeadLetter
<1>2. /\ topic' \in [Partitions -> Seq(Ids)]
      /\ \A p \in Partitions : \A i \in DOMAIN topic'[p] :
            \E j \in DOMAIN topic[p] : topic'[p][i] = topic[p][j]
  BY <1>1, CommitIs
<1>3. /\ reading' \in [Workers -> Partitions \cup {Nothing}]
      /\ \A w \in Workers : reading'[w] # Nothing => topic'[reading'[w]] # <<>>
  BY <1>1, ReleaseIs
<1>4. place' \in [Ids -> {"attempt", "topic", "delay", "over"}]
  BY <1>1 DEF TypeOK
<1>5. RetriesOnly'
  <2>1. \A o \in Ids : place'[o] \in {"topic", "delay"} => retryCount[o] > 0
    BY <1>1 DEF TypeOK, RetriesOnly
  <2>2. \A p \in Partitions : \A i \in DOMAIN topic'[p] : retryCount[topic'[p][i]] > 0
    BY <1>2 DEF RetriesOnly
  <2> QED
    BY <1>1, <2>1, <2>2 DEF RetriesOnly
<1>6. ReadingFirst'
  BY <1>3 DEF ReadingFirst
<1>7. owner' \in [Partitions -> Workers] /\ faults' \in 0 .. MaxFaults
  BY <1>1 DEF TypeOK
<1> QED
  BY <1>1, <1>2, <1>3, <1>4, <1>5, <1>6, <1>7, MovingStep

(* The first message of a partition that is not empty has failed before.   *)
LEMMA HeadIs ==
    ASSUME TypeOK, RetriesOnly, NEW p \in Partitions, topic[p] # <<>>
    PROVE  Head(topic[p]) \in Ids /\ retryCount[Head(topic[p])] > 0
<1>1. topic[p] \in Seq(Ids) /\ 1 \in DOMAIN topic[p] /\ Head(topic[p]) = topic[p][1]
  BY DEF TypeOK
<1> QED
  BY <1>1 DEF RetriesOnly

LEMMA FetchStep ==
    ASSUME IInv, NEW w \in Workers, NEW p \in Partitions, Fetch(w, p)
    PROVE  IInv'
<1> USE DEF IInv
<1>1. Head(topic[p]) \in Ids /\ retryCount[Head(topic[p])] > 0
  BY HeadIs DEF Fetch
<1>2. /\ reading' \in [Workers -> Partitions \cup {Nothing}]
      /\ place' \in [Ids -> {"attempt", "topic", "delay", "over"}]
  BY DEF Fetch, TypeOK
<1>3. RetriesOnly'
  BY <1>1 DEF Fetch, TypeOK, RetriesOnly
<1>4. ReadingFirst'
  BY DEF Fetch, TypeOK, ReadingFirst
<1> QED
  BY <1>2, <1>3, <1>4, MovingStep DEF Fetch, TypeOK

LEMMA RestartStep ==
    ASSUME IInv, NEW w \in Workers, Restart(w)
    PROVE  IInv'
<1> USE DEF IInv
<1>1. reading[w] \in Partitions /\ topic[reading[w]] # <<>>
  BY DEF Restart, TypeOK, ReadingFirst
<1>2. Head(topic[reading[w]]) \in Ids /\ retryCount[Head(topic[reading[w]])] > 0
  BY <1>1, HeadIs
<1>3. /\ reading' \in [Workers -> Partitions \cup {Nothing}]
      /\ place' \in [Ids -> {"attempt", "topic", "delay", "over"}]
  BY DEF Restart, TypeOK
<1>4. RetriesOnly'
  BY <1>2 DEF Restart, TypeOK, RetriesOnly
<1>5. ReadingFirst'
  BY DEF Restart, TypeOK, ReadingFirst
<1>6. owner' \in [Partitions -> Workers] /\ faults' \in 0 .. MaxFaults
  BY FaultsAssumption DEF Restart, TypeOK
<1> QED
  BY <1>3, <1>4, <1>5, <1>6, MovingStep DEF Restart, TypeOK

LEMMA RetryStep ==
    ASSUME IInv, [Next]_vars
    PROVE  IInv'
<1>1. CASE UNCHANGED vars
  <2>1. UNCHANGED <<place, retryCount, delay, wait, waited, topic, owner, reading, phase, faults>>
    BY <1>1 DEF vars, messageVars, queueVars
  <2> QED
    BY <2>1 DEF IInv, TypeOK, RetriesOnly, ReadingFirst, RetriesLeft, WaitInv, DelayInv
<1>2. ASSUME NEW id \in Ids, RetryAfter(id)
      PROVE  IInv'
  <2>1. UNCHANGED <<topic, owner, reading, retryCount, delay, wait, waited, phase, faults>>
    BY <1>2 DEF RetryAfter, queueVars
  <2>2. place' = [place EXCEPT ![id] = "attempt"]
    BY <1>2 DEF RetryAfter
  <2> QED
    BY <2>1, <2>2, MovingStep DEF IInv, TypeOK, RetriesOnly, ReadingFirst
<1> QED
  BY <1>1, <1>2, TickStep, ScheduleStep, OverStep, FetchStep, RestartStep DEF Next, Handle

LEMMA InvHolds == Spec => []IInv
BY RetryInit, RetryStep, PTL DEF Spec

(***************************************************************************)
(* The theorems                                                            *)
(***************************************************************************)

(* Counts, delays and times keep their types: no delay is as long as the   *)
(* horizon at which waiting is no longer counted.                          *)
THEOREM TypeCorrect == Spec => []TypeOK
BY InvHolds, PTL DEF IInv

(* A retry is attempted no more than a second before its backoff is over,  *)
(* whoever held it and however often its wait was interrupted              *)
(* (consumer.go, ConsumeWithDelay).                                        *)
THEOREM BackoffIsAlmostKept == Spec => BackoffAlmostKept
<1>1. IInv /\ [Next]_vars =>
         [\A id \in Ids : place[id] = "delay" /\ place'[id] = "attempt"
             => waited[id] + Second > Backoff(retryCount[id])]_vars
  <2> SUFFICES ASSUME IInv, Next, NEW id \in Ids, place[id] = "delay", place'[id] = "attempt"
               PROVE  waited[id] + Second > Backoff(retryCount[id])
    OBVIOUS
  <2>1. wait[id] = 0
    <3>1. RetryAfter(id)
      BY HeadIs DEF Next, Handle, Tick, Delivered, ScheduleRetry, DeadLetter, Fetch, RetryAfter, Restart,
             IInv, TypeOK, ReadingFirst
    <3> QED
      BY <3>1 DEF RetryAfter
  <2>2. waited[id] + wait[id] + Second > Backoff(retryCount[id])
    BY DEF IInv, RetriesOnly, WaitInv
  <2>3. waited[id] \in Int
    BY HorizonIs DEF IInv, TypeOK
  <2> QED
    BY <2>1, <2>2, <2>3, SecondAssumption
<1> QED
  BY <1>1, InvHolds, PTL DEF Spec, BackoffAlmostKept

(* Each retry is put off for longer than the one before, whatever the      *)
(* jitter: a backoff exceeds the one before by at least the base delay,    *)
(* which no jitter reaches (worker.go, retryDelay).                        *)
THEOREM DelaysGrowAlways == Spec => DelaysGrow
<1>1. IInv /\ [Next]_vars =>
         [\A id \in Ids : retryCount'[id] # retryCount[id] => delay'[id] > delay[id]]_vars
  <2> SUFFICES ASSUME IInv, Next, NEW id \in Ids, retryCount'[id] # retryCount[id]
               PROVE  delay'[id] > delay[id]
    OBVIOUS
  <2>1. ScheduleRetry(id)
    BY DEF Next, Handle, Tick, Delivered, DeadLetter, Fetch, RetryAfter, Restart, ScheduleRetry,
           IInv, TypeOK
  <2> QED
    BY <2>1, ScheduleStep
<1> QED
  BY <1>1, InvHolds, PTL DEF Spec, DelaysGrow
=============================================================================
