-------------------------- MODULE RateLimiterProofs --------------------------
(***************************************************************************)
(* The bounds of RateLimiter for every rate, any number of priorities and  *)
(* replicas, and a measurement of any length.                              *)
(*                                                                         *)
(* Neither bound is inductive: a message that is sent had its token taken  *)
(* before, perhaps before the measurement began.  The invariant counts the *)
(* tokens where they are: spent, in a consumer's hands, or in the bucket.  *)
(***************************************************************************)
EXTENDS RateLimiter, FiniteSetTheorems, TLAPS

(* Tokens enter a replica's bucket only with time.                         *)
AttemptTokens ==
    elapsed # Unmeasured => \A w \in Workers :
        sent[w] + Cardinality(holding[w]) + tokens[w]
            <= rateLimitPerSec + Cardinality(Priorities) + elapsed

RetryTokens ==
    elapsed # Unmeasured => \A w \in Workers :
        2 * resent[w] + retryHeld[w] + retryTokens[w] <= rateLimitPerSec + 2 + elapsed

BucketsBounded ==
    \A w \in Workers : tokens[w] <= rateLimitPerSec /\ retryTokens[w] <= rateLimitPerSec

NothingCountedYet ==
    elapsed = Unmeasured => \A w \in Workers : sent[w] = 0 /\ resent[w] = 0

IInv ==
    /\ TypeOK
    /\ BucketsBounded
    /\ NothingCountedYet
    /\ AttemptTokens
    /\ RetryTokens

(* Of two that wait one came before the other, and who passed somebody is  *)
(* behind him now, or not in the line.                                     *)
LineInv ==
    \A w \in Workers :
        /\ waiting[w] \cap holding[w] = {}
        /\ \A p \in Priorities :
              /\ ahead[w][p] \subseteq waiting[w]
              /\ p \notin waiting[w] => passed[w][p] = {}
        /\ \A p, q \in waiting[w] : p # q => p \in ahead[w][q] \/ q \in ahead[w][p]
        /\ \A p \in waiting[w] : \A q \in passed[w][p] :
              q # p /\ q \notin holding[w] /\ q \notin ahead[w][p]

(* What the consumers of a replica hold is a finite set of priorities.     *)
LEMMA HoldingFinite ==
    ASSUME TypeOK, NEW w \in Workers
    PROVE  /\ IsFiniteSet(holding[w])
           /\ Cardinality(holding[w]) \in Nat
           /\ Cardinality(Priorities) \in Nat
           /\ Cardinality(holding[w]) <= Cardinality(Priorities)
<1>1. holding[w] \subseteq Priorities
    BY DEF TypeOK
<1> QED
    BY <1>1, PrioritiesAssumption, FS_Subset, FS_CardinalityType

LEMMA Numbers ==
    ASSUME TypeOK
    PROVE  /\ rateLimitPerSec \in Nat /\ (elapsed \in Nat \/ elapsed = -1)
           /\ \A w \in Workers :
                 /\ tokens[w] \in Nat /\ retryTokens[w] \in Nat /\ retryHeld[w] \in 0 .. 2
                 /\ sent[w] \in Nat /\ resent[w] \in Nat
BY RateAssumption DEF TypeOK, TokensPerRetry, Unmeasured

LEMMA InitIInv == Init => IInv
<1> SUFFICES ASSUME Init PROVE IInv
    OBVIOUS
<1>1. rateLimitPerSec \in Nat /\ 0 \in 0 .. TokensPerRetry
    BY RateAssumption DEF Init, TokensPerRetry
<1>2. TypeOK
    BY <1>1 DEF Init, TypeOK, Burst, Nobody
<1> QED
    BY <1>1, <1>2 DEF Init, IInv, BucketsBounded, NothingCountedYet,
        AttemptTokens, RetryTokens, Burst, Unmeasured

LEMMA TickIInv == IInv /\ Tick => IInv'
<1> SUFFICES ASSUME IInv, Tick PROVE IInv'
    OBVIOUS
<1> USE RateAssumption DEF IInv, Tick, Gain, Burst, Unmeasured, lineVars
<1>1. TypeOK'
    BY DEF TypeOK
<1>2. BucketsBounded'
    BY DEF TypeOK, BucketsBounded
<1>3. NothingCountedYet'
    BY DEF TypeOK, NothingCountedYet
<1>4. AttemptTokens'
    <2> SUFFICES ASSUME elapsed' # Unmeasured, NEW w \in Workers
                 PROVE  sent[w] + Cardinality(holding[w]) + tokens'[w]
                            <= rateLimitPerSec + Cardinality(Priorities) + elapsed'
        BY DEF AttemptTokens
    <2>1. elapsed # Unmeasured /\ elapsed' = elapsed + 1
        OBVIOUS
    <2>2. tokens'[w] <= tokens[w] + 1 /\ tokens'[w] \in Nat
        BY DEF TypeOK
    <2>3. sent[w] + Cardinality(holding[w]) + tokens[w]
              <= rateLimitPerSec + Cardinality(Priorities) + elapsed
        BY <2>1 DEF AttemptTokens
    <2> QED
        BY <2>1, <2>2, <2>3, HoldingFinite DEF TypeOK
<1>5. RetryTokens'
    <2> SUFFICES ASSUME elapsed' # Unmeasured, NEW w \in Workers
                 PROVE  2 * resent[w] + retryHeld[w] + retryTokens'[w]
                            <= rateLimitPerSec + 2 + elapsed'
        BY DEF RetryTokens
    <2>1. elapsed # Unmeasured /\ elapsed' = elapsed + 1
        OBVIOUS
    <2>2. retryTokens'[w] <= retryTokens[w] + 1 /\ retryTokens'[w] \in Nat
        BY DEF TypeOK
    <2>3. 2 * resent[w] + retryHeld[w] + retryTokens[w] <= rateLimitPerSec + 2 + elapsed
        BY <2>1 DEF RetryTokens
    <2> QED
        BY <2>1, <2>2, <2>3, Numbers
<1> QED
    BY <1>1, <1>2, <1>3, <1>4, <1>5

(* When the measurement begins, a full bucket and a token in the hands of  *)
(* every consumer is the most there can be.                                *)
LEMMA StartMeasuringIInv == IInv /\ StartMeasuring => IInv'
<1> SUFFICES ASSUME IInv, StartMeasuring PROVE IInv'
    OBVIOUS
<1> USE RateAssumption DEF IInv, StartMeasuring, Unmeasured, lineVars, retryVars
<1>1. TypeOK'
    BY DEF TypeOK
<1>2. BucketsBounded' /\ NothingCountedYet'
    BY DEF BucketsBounded, NothingCountedYet
<1>3. AttemptTokens'
    <2> SUFFICES ASSUME NEW w \in Workers
                 PROVE  sent[w] + Cardinality(holding[w]) + tokens[w]
                            <= rateLimitPerSec + Cardinality(Priorities) + 0
        BY DEF AttemptTokens
    <2> QED
        BY HoldingFinite DEF TypeOK, BucketsBounded, NothingCountedYet
<1>4. RetryTokens'
    <2> SUFFICES ASSUME NEW w \in Workers
                 PROVE  2 * resent[w] + retryHeld[w] + retryTokens[w] <= rateLimitPerSec + 2 + 0
        BY DEF RetryTokens
    <2>1. resent[w] = 0
        BY DEF NothingCountedYet
    <2>2. retryTokens[w] <= rateLimitPerSec
        BY DEF BucketsBounded
    <2> QED
        BY <2>1, <2>2, Numbers
<1> QED
    BY <1>1, <1>2, <1>3, <1>4

(* Who comes or goes without a token changes no count.                     *)
LEMMA LineIInv ==
    ASSUME IInv, NEW w \in Workers, NEW p \in Priorities, Wait(w, p) \/ WaitFails(w, p)
    PROVE  IInv'
<1> USE DEF IInv
<1>1. UNCHANGED <<rateLimitPerSec, tokens, holding, retryVars, stopping, measureVars>>
    BY DEF Wait, WaitFails
<1>2. /\ waiting' \in [Workers -> SUBSET Priorities]
      /\ ahead' \in [Workers -> [Priorities -> SUBSET Priorities]]
      /\ passed' \in [Workers -> [Priorities -> SUBSET Priorities]]
    <2>1. CASE Wait(w, p)
        BY <2>1 DEF Wait, TypeOK
    <2>2. CASE WaitFails(w, p)
        BY <2>2 DEF WaitFails, LeaveLine, TypeOK
    <2> QED
        BY <2>1, <2>2
<1>3. TypeOK'
    BY <1>1, <1>2 DEF TypeOK, retryVars, measureVars
<1> QED
    BY <1>1, <1>3 DEF BucketsBounded, NothingCountedYet, AttemptTokens, RetryTokens,
        retryVars, measureVars

(* A token moves from the bucket to the consumer.                          *)
LEMMA WaitReturnsIInv ==
    ASSUME IInv, NEW w \in Workers, NEW p \in Priorities, LineInv, WaitReturns(w, p)
    PROVE  IInv'
<1> USE RateAssumption DEF IInv, WaitReturns, LeaveLine, retryVars, measureVars, Unmeasured
<1>1. TypeOK'
    BY DEF TypeOK
<1>2. BucketsBounded' /\ NothingCountedYet' /\ RetryTokens'
    BY DEF TypeOK, BucketsBounded, NothingCountedYet, RetryTokens
<1>3. Cardinality(holding[w] \cup {p}) = Cardinality(holding[w]) + 1
    BY HoldingFinite, FS_AddElement DEF LineInv
<1>4. AttemptTokens'
    <2> SUFFICES ASSUME elapsed # Unmeasured, NEW v \in Workers
                 PROVE  sent[v] + Cardinality(holding'[v]) + tokens'[v]
                            <= rateLimitPerSec + Cardinality(Priorities) + elapsed
        BY DEF AttemptTokens
    <2>1. sent[v] + Cardinality(holding[v]) + tokens[v]
              <= rateLimitPerSec + Cardinality(Priorities) + elapsed
        BY DEF AttemptTokens
    <2>2. CASE v = w
        BY <1>3, <2>1, <2>2, HoldingFinite DEF TypeOK
    <2>3. CASE v # w
        BY <2>1, <2>3 DEF TypeOK
    <2> QED
        BY <2>2, <2>3
<1> QED
    BY <1>1, <1>2, <1>4

(* A token in the hands of a consumer becomes a message sent.              *)
LEMMA SendIInv ==
    ASSUME IInv, NEW w \in Workers, NEW p \in Priorities, Send(w, p)
    PROVE  IInv'
<1> USE RateAssumption DEF IInv, Send, Count, retryVars, Unmeasured
<1>1. TypeOK'
    BY DEF TypeOK
<1>2. BucketsBounded' /\ NothingCountedYet' /\ RetryTokens'
    BY DEF TypeOK, BucketsBounded, NothingCountedYet, RetryTokens
<1>3. Cardinality(holding[w] \ {p}) = Cardinality(holding[w]) - 1
    BY HoldingFinite, FS_RemoveElement
<1>4. AttemptTokens'
    <2> SUFFICES ASSUME elapsed # Unmeasured, NEW v \in Workers
                 PROVE  sent'[v] + Cardinality(holding'[v]) + tokens[v]
                            <= rateLimitPerSec + Cardinality(Priorities) + elapsed
        BY DEF AttemptTokens
    <2>1. sent[v] + Cardinality(holding[v]) + tokens[v]
              <= rateLimitPerSec + Cardinality(Priorities) + elapsed
        BY DEF AttemptTokens
    <2>2. CASE v = w
        BY <1>3, <2>1, <2>2, HoldingFinite DEF TypeOK
    <2>3. CASE v # w
        BY <2>1, <2>3 DEF TypeOK
    <2> QED
        BY <2>2, <2>3
<1> QED
    BY <1>1, <1>2, <1>4

LEMMA RetryWaitIInv ==
    ASSUME IInv, NEW w \in Workers, RetryWait(w)
    PROVE  IInv'
<1> USE DEF IInv, RetryWait
<1>1. TypeOK'
    <2>1. retryHeld'[w] \in 0 .. TokensPerRetry /\ retryTokens'[w] \in Nat
        BY Numbers DEF TypeOK, TokensPerRetry
    <2> QED
        BY <2>1 DEF TypeOK, lineVars, measureVars
<1>2. BucketsBounded' /\ NothingCountedYet' /\ AttemptTokens'
    BY Numbers DEF TypeOK, BucketsBounded, NothingCountedYet, AttemptTokens, measureVars
<1>3. RetryTokens'
    <2> SUFFICES ASSUME elapsed # Unmeasured, NEW v \in Workers
                 PROVE  2 * resent[v] + retryHeld'[v] + retryTokens'[v]
                            <= rateLimitPerSec + 2 + elapsed
        BY DEF RetryTokens, measureVars
    <2>1. 2 * resent[v] + retryHeld[v] + retryTokens[v] <= rateLimitPerSec + 2 + elapsed
        BY DEF RetryTokens
    <2>2. retryHeld'[v] + retryTokens'[v] = retryHeld[v] + retryTokens[v]
        <3>1. CASE v = w
            BY <3>1, Numbers DEF TypeOK
        <3>2. CASE v # w
            BY <3>2 DEF TypeOK
        <3> QED
            BY <3>1, <3>2
    <2>3. TypeOK' /\ elapsed \in Int
        BY <1>1, Numbers
    <2>4. retryHeld'[v] \in Int /\ retryTokens'[v] \in Int
        BY <2>3 DEF TypeOK, TokensPerRetry
    <2> QED
        BY <2>1, <2>2, <2>3, <2>4, Numbers
<1> QED
    BY <1>1, <1>2, <1>3

LEMMA RetrySendIInv ==
    ASSUME IInv, NEW w \in Workers, RetrySend(w)
    PROVE  IInv'
<1> USE RateAssumption DEF IInv, RetrySend, Count, lineVars, Unmeasured, TokensPerRetry
<1>1. TypeOK'
    BY DEF TypeOK
<1>2. BucketsBounded' /\ NothingCountedYet' /\ AttemptTokens'
    BY DEF TypeOK, BucketsBounded, NothingCountedYet, AttemptTokens
<1>3. RetryTokens'
    BY DEF TypeOK, RetryTokens
<1> QED
    BY <1>1, <1>2, <1>3

LEMMA RetryWaitFailsIInv ==
    ASSUME IInv, NEW w \in Workers, RetryWaitFails(w)
    PROVE  IInv'
<1> USE DEF IInv, RetryWaitFails
<1>1. TypeOK'
    BY DEF TypeOK, lineVars, measureVars, TokensPerRetry
<1>2. BucketsBounded' /\ NothingCountedYet' /\ AttemptTokens'
    BY DEF BucketsBounded, NothingCountedYet, AttemptTokens, measureVars
<1>3. RetryTokens'
    <2> SUFFICES ASSUME elapsed # Unmeasured, NEW v \in Workers
                 PROVE  2 * resent[v] + retryHeld'[v] + retryTokens[v]
                            <= rateLimitPerSec + 2 + elapsed
        BY DEF RetryTokens, measureVars
    <2>1. 2 * resent[v] + retryHeld[v] + retryTokens[v] <= rateLimitPerSec + 2 + elapsed
        BY DEF RetryTokens
    <2>2. retryHeld'[v] = 0 \/ retryHeld'[v] = retryHeld[v]
        BY DEF TypeOK
    <2> QED
        BY <2>1, <2>2, Numbers DEF Unmeasured
<1> QED
    BY <1>1, <1>2, <1>3

LEMMA NextIInv == IInv /\ LineInv /\ [Next]_vars => IInv'
<1> SUFFICES ASSUME IInv, LineInv, [Next]_vars PROVE IInv'
    OBVIOUS
<1>1. ASSUME NEW w \in Workers, Sigterm(w)
      PROVE  IInv'
    BY <1>1 DEF IInv, Sigterm, lineVars, retryVars, measureVars, TypeOK, BucketsBounded,
        NothingCountedYet, AttemptTokens, RetryTokens
<1>2. CASE UNCHANGED vars
    BY <1>2 DEF IInv, vars, lineVars, retryVars, measureVars, TypeOK, BucketsBounded,
        NothingCountedYet, AttemptTokens, RetryTokens
<1> QED
    BY <1>1, <1>2, TickIInv, StartMeasuringIInv, LineIInv, WaitReturnsIInv, SendIInv, RetryWaitIInv,
        RetryWaitFailsIInv, RetrySendIInv DEF Next

(***************************************************************************)
(* The line of those who wait                                              *)
(***************************************************************************)
LEMMA LineKept ==
    ASSUME TypeOK, LineInv, [Next]_vars
    PROVE  LineInv'
<1>1. ASSUME UNCHANGED <<waiting, holding, ahead, passed>>
      PROVE  LineInv'
    BY <1>1 DEF LineInv
<1>2. ASSUME NEW w \in Workers, NEW p \in Priorities, Wait(w, p)
      PROVE  LineInv'
    BY <1>2 DEF Wait, LineInv, TypeOK
<1>3. ASSUME NEW w \in Workers, NEW p \in Priorities, WaitFails(w, p)
      PROVE  LineInv'
    BY <1>3 DEF WaitFails, LeaveLine, LineInv, TypeOK
<1>4. ASSUME NEW w \in Workers, NEW p \in Priorities, WaitReturns(w, p)
      PROVE  LineInv'
    BY <1>4 DEF WaitReturns, LeaveLine, LineInv, TypeOK
<1>5. ASSUME NEW w \in Workers, NEW p \in Priorities, Send(w, p)
      PROVE  LineInv'
    BY <1>5 DEF Send, LineInv, TypeOK
<1>6. CASE UNCHANGED vars
    BY <1>1, <1>6 DEF vars, lineVars
<1>7. ASSUME \/ Tick \/ StartMeasuring
             \/ \E w \in Workers : RetryWait(w) \/ RetryWaitFails(w) \/ RetrySend(w) \/ Sigterm(w)
      PROVE  LineInv'
    BY <1>1, <1>7 DEF Tick, StartMeasuring, RetryWait, RetryWaitFails, RetrySend, Sigterm, lineVars
<1> QED
    BY <1>2, <1>3, <1>4, <1>5, <1>6, <1>7 DEF Next

LEMMA IInvHolds == Spec => [](IInv /\ LineInv)
<1>1. Init => LineInv
    BY DEF Init, LineInv, Nobody
<1>2. IInv => TypeOK
    BY DEF IInv
<1> QED
    BY <1>1, <1>2, InitIInv, NextIInv, LineKept, PTL DEF Spec

(* The buckets are never overdrawn and never overfull, and a retry has at  *)
(* most the tokens it needs.                                               *)
THEOREM BucketsSound == Spec => [](TypeOK /\ BucketsBounded)
<1>1. IInv => TypeOK /\ BucketsBounded
    BY DEF IInv
<1> QED
    BY <1>1, IInvHolds, PTL

(* In any stretch of time, however long, the first attempts of a replica   *)
(* for a channel stay below what one limiter allows, whatever the number   *)
(* of priorities that share it (worker.go, Start and processNotification). *)
THEOREM AttemptsStayBounded == Spec => []AttemptsBounded
<1>1. IInv => AttemptsBounded
    <2> SUFFICES ASSUME IInv, elapsed # Unmeasured, NEW w \in Workers
                 PROVE  sent[w] <= rateLimitPerSec + elapsed + Cardinality(Priorities)
        BY DEF AttemptsBounded
    <2> QED
        BY HoldingFinite, RateAssumption DEF IInv, TypeOK, AttemptTokens, Unmeasured
<1> QED
    BY <1>1, IInvHolds, PTL

(* Its retries stay below half of that (worker.go, consumeRetry waits and  *)
(* processNotification waits again).                                       *)
THEOREM RetriesStayBounded == Spec => []RetriesBounded
<1>1. IInv => RetriesBounded
    BY Numbers DEF IInv, RetryTokens, RetriesBounded, Unmeasured
<1> QED
    BY <1>1, IInvHolds, PTL

(* No consumer that waits for a token is passed twice by another: who has  *)
(* passed it stands behind it in the line, and gets a token only after it  *)
(* (worker.go, Start: one limiter for all priorities of a channel).        *)
THEOREM NobodyIsOvertaken == Spec => NoOvertaking
<1>1. LineInv /\ [Next]_vars =>
        [\A w \in Workers : \A p \in waiting[w], q \in holding[w] \ holding'[w] :
            q \notin passed[w][p]]_vars
    BY DEF LineInv
<1> QED
    BY <1>1, IInvHolds, PTL DEF Spec, NoOvertaking
=============================================================================
