----------------------------- MODULE RateLimiter -----------------------------
(***************************************************************************)
(* How fast one channel's messages reach the provider.  In every worker    *)
(* replica the consumers of the channel's priorities share one token       *)
(* bucket; the retry consumer has another for the channel and takes two    *)
(* tokens for a message, one in consumeRetry and one in                    *)
(* processNotification.  Channels have separate buckets: one is enough.    *)
(*                                                                         *)
(* rate.NewLimiter(r, r) makes a bucket of r tokens that gains r a second. *)
(* Time is counted in the periods in which it gains one.  Messages are     *)
(* always waiting, which is the worst case.                                *)
(***************************************************************************)
EXTENDS Integers, FiniteSets

CONSTANTS Rates,            \* the values of RATE_LIMIT_PER_SEC
          Workers,          \* replicas
          Priorities,       \* the priorities, each with a consumer in each replica
          MaxTime           \* bounds the time that is measured

(* Atoi reads a negative rate too: its bucket is as useless as that of 0.  *)
ASSUME RateAssumption == Rates \subseteq Nat
ASSUME TimeAssumption == MaxTime \in Nat
ASSUME PrioritiesAssumption == IsFiniteSet(Priorities)

VARIABLES rateLimitPerSec,  \* what the configuration says, the same for all replicas
          tokens,       \* tokens[w]: what is in the bucket of the channel
          waiting,      \* waiting[w]: the consumers in a call of Wait
          ahead,        \* ahead[w][p]: those of them that called it before p
          holding,      \* holding[w]: the consumers with a token for their message
          passed,       \* passed[w][p]: those that sent one while p waits
          retryTokens,  \* retryTokens[w]: what is in the retry consumer's bucket
          retryHeld,    \* retryHeld[w]: the tokens it has for its message
          stopping,     \* stopping[w]: SIGTERM cancelled the context of w
          elapsed,      \* the time measured so far, or Unmeasured
          sent,         \* sent[w], resent[w]: first attempts and retries that
          resent        \* replica w sent since the measurement began

lineVars == <<waiting, ahead, passed>>
retryVars == <<retryTokens, retryHeld>>
measureVars == <<elapsed, sent, resent>>
vars == <<rateLimitPerSec, tokens, holding, lineVars, retryVars, stopping, measureVars>>

Unmeasured == -1

(* A slip to detect: a bucket is as large as all priorities together.      *)
BurstOfAll == rateLimitPerSec * Cardinality(Priorities)

Burst == rateLimitPerSec

(* A slip to detect: the retry consumer does not wait itself.              *)
RetryTokensOnce == 1

TokensPerRetry == 2

TypeOK ==
    /\ rateLimitPerSec \in Rates
    /\ tokens \in [Workers -> Nat] /\ retryTokens \in [Workers -> Nat]
    /\ waiting \in [Workers -> SUBSET Priorities] /\ holding \in [Workers -> SUBSET Priorities]
    /\ ahead \in [Workers -> [Priorities -> SUBSET Priorities]]
    /\ passed \in [Workers -> [Priorities -> SUBSET Priorities]]
    /\ retryHeld \in [Workers -> 0 .. TokensPerRetry]
    /\ stopping \in [Workers -> BOOLEAN]
    /\ elapsed \in Nat \cup {Unmeasured}
    /\ sent \in [Workers -> Nat] /\ resent \in [Workers -> Nat]

Nobody == [p \in Priorities |-> {}]

Init ==
    /\ rateLimitPerSec \in Rates
    /\ tokens = [w \in Workers |-> Burst]
    /\ retryTokens = [w \in Workers |-> Burst]
    /\ waiting = [w \in Workers |-> {}] /\ holding = [w \in Workers |-> {}]
    /\ ahead = [w \in Workers |-> Nobody] /\ passed = [w \in Workers |-> Nobody]
    /\ retryHeld = [w \in Workers |-> 0]
    /\ stopping = [w \in Workers |-> FALSE]
    /\ elapsed = Unmeasured
    /\ sent = [w \in Workers |-> 0] /\ resent = [w \in Workers |-> 0]

(* A bucket gains a token it has room for.                                 *)
Gain(n) == IF n < Burst THEN n + 1 ELSE n

Tick ==
    /\ elapsed < MaxTime
    /\ tokens' = [w \in Workers |-> Gain(tokens[w])]
    /\ retryTokens' = [w \in Workers |-> Gain(retryTokens[w])]
    /\ elapsed' = IF elapsed = Unmeasured THEN Unmeasured ELSE elapsed + 1
    /\ UNCHANGED <<rateLimitPerSec, lineVars, holding, retryHeld, stopping, sent, resent>>

(* Any moment may be the first of the time that is looked at.              *)
StartMeasuring ==
    /\ elapsed = Unmeasured
    /\ elapsed' = 0
    /\ UNCHANGED <<rateLimitPerSec, tokens, holding, lineVars, retryVars, stopping, sent, resent>>

Count(counter, w) ==
    IF elapsed = Unmeasured THEN counter ELSE [counter EXCEPT ![w] = @ + 1]

(* The context of every call of Wait is the one that main cancels.         *)
Sigterm(w) ==
    /\ ~stopping[w]
    /\ stopping' = [stopping EXCEPT ![w] = TRUE]
    /\ UNCHANGED <<rateLimitPerSec, tokens, holding, lineVars, retryVars, measureVars>>

(***************************************************************************)
(* processNotification for the consumer of priority p.  Wait reserves the  *)
(* next token, so tokens fall to consumers in the order in which they came *)
(* (WaitReturns); the goroutine wakes and sends any time after that.       *)
(***************************************************************************)

(* A Wait that begins when the context is cancelled fails at once, which   *)
(* changes nothing here.                                                   *)
Wait(w, p) ==
    /\ ~stopping[w]
    /\ p \notin waiting[w] \cup holding[w]
    /\ waiting' = [waiting EXCEPT ![w] = @ \cup {p}]
    /\ ahead' = [ahead EXCEPT ![w][p] = waiting[w]]
    /\ UNCHANGED <<rateLimitPerSec, tokens, holding, passed, retryVars, stopping, measureVars>>

LeaveLine(w, p) ==
    /\ waiting' = [waiting EXCEPT ![w] = @ \ {p}]
    /\ ahead' = [ahead EXCEPT ![w] = [q \in Priorities |-> IF q = p THEN {} ELSE @[q] \ {p}]]
    /\ passed' = [passed EXCEPT ![w][p] = {}]

(* A slip to detect: the limiter is polled, and who asks first is served.  *)
Allow(w, p) ==
    /\ p \in waiting[w]
    /\ tokens[w] > 0
    /\ tokens' = [tokens EXCEPT ![w] = @ - 1]
    /\ holding' = [holding EXCEPT ![w] = @ \cup {p}]
    /\ LeaveLine(w, p)
    /\ UNCHANGED <<rateLimitPerSec, retryVars, stopping, measureVars>>

WaitReturns(w, p) ==
    /\ p \in waiting[w] /\ ahead[w][p] = {}
    /\ tokens[w] > 0
    /\ tokens' = [tokens EXCEPT ![w] = @ - 1]
    /\ holding' = [holding EXCEPT ![w] = @ \cup {p}]
    /\ LeaveLine(w, p)
    /\ UNCHANGED <<rateLimitPerSec, retryVars, stopping, measureVars>>

(* A bucket that holds no token fails every Wait, whatever the context.    *)
WaitCanFail(w) == 1 > Burst \/ stopping[w]

(* The handler returns the error and the consumer commits the message,     *)
(* which was not sent.                                                     *)
WaitFails(w, p) ==
    /\ WaitCanFail(w)
    /\ p \in waiting[w]
    /\ LeaveLine(w, p)
    /\ UNCHANGED <<rateLimitPerSec, tokens, holding, retryVars, stopping, measureVars>>

Send(w, p) ==
    /\ p \in holding[w]
    /\ holding' = [holding EXCEPT ![w] = @ \ {p}]
    /\ sent' = Count(sent, w)
    /\ passed' = [passed EXCEPT ![w] =
                     [q \in Priorities |-> IF q \in waiting[w] THEN @[q] \cup {p} ELSE @[q]]]
    /\ UNCHANGED <<rateLimitPerSec, tokens, waiting, ahead, retryVars, stopping, elapsed, resent>>

(* consumeRetry, and processNotification with the same limiter.  A Wait    *)
(* that has begun may end well though the context is cancelled.            *)
RetryWait(w) ==
    /\ retryHeld[w] < TokensPerRetry
    /\ retryTokens[w] > 0
    /\ retryTokens' = [retryTokens EXCEPT ![w] = @ - 1]
    /\ retryHeld' = [retryHeld EXCEPT ![w] = @ + 1]
    /\ UNCHANGED <<rateLimitPerSec, tokens, holding, lineVars, stopping, measureVars>>

(* The first Wait or the second fails; the token of the first is lost.     *)
RetryWaitFails(w) ==
    /\ WaitCanFail(w)
    /\ retryHeld[w] < TokensPerRetry
    /\ retryHeld' = [retryHeld EXCEPT ![w] = 0]
    /\ UNCHANGED <<rateLimitPerSec, tokens, holding, lineVars, retryTokens, stopping, measureVars>>

RetrySend(w) ==
    /\ retryHeld[w] = TokensPerRetry
    /\ retryHeld' = [retryHeld EXCEPT ![w] = 0]
    /\ resent' = Count(resent, w)
    /\ UNCHANGED <<rateLimitPerSec, tokens, holding, lineVars, retryTokens, stopping, elapsed, sent>>

Next ==
    \/ Tick \/ StartMeasuring
    \/ \E w \in Workers :
          \/ \E p \in Priorities :
                Wait(w, p) \/ WaitReturns(w, p) \/ WaitFails(w, p) \/ Send(w, p)
          \/ RetryWait(w) \/ RetryWaitFails(w) \/ RetrySend(w)
          \/ Sigterm(w)

Spec == Init /\ [][Next]_vars

(***************************************************************************)
(* Properties                                                              *)
(***************************************************************************)

(* In any stretch of time a replica makes no more first attempts than its  *)
(* bucket held, it gained and its consumers had taken tokens for before:   *)
(* the priorities do not multiply the channel's rate.                      *)
AttemptsBounded ==
    elapsed # Unmeasured => \A w \in Workers :
        sent[w] <= rateLimitPerSec + elapsed + Cardinality(Priorities)

(* Retries come on top of that, at half the rate.                          *)
RetriesBounded ==
    elapsed # Unmeasured => \A w \in Workers : 2 * resent[w] <= rateLimitPerSec + elapsed + 2

(* While a message waits for a token no other consumer of the channel      *)
(* sends two: they share one bucket, which serves them in the order in     *)
(* which they came (worker.go, Start and processNotification).  A topic    *)
(* that is full crowds out no other; nor does a high priority overtake a   *)
(* low one.                                                                *)
NoOvertaking ==
    [][\A w \in Workers : \A p \in waiting[w], q \in holding[w] \ holding'[w] :
          q \notin passed[w][p]]_vars
=============================================================================
