----------------------------- MODULE ApiProcess -----------------------------
(***************************************************************************)
(* One cmd/api process from its start to its end: main with its deferred   *)
(* calls, the connection pool, the Kafka producer, the goroutine of the    *)
(* listener (of which only the pool connection it holds matters here), and *)
(* the requests that are being served when the process is told to stop.    *)
(*                                                                         *)
(* A request is the list of the calls its handler has still to make, "db"  *)
(* or "kafka"; what they do is the subject of NotificationService.         *)
(***************************************************************************)
EXTENDS Naturals, Sequences, FiniteSets

CONSTANTS Requests,     \* the requests of a behaviour
          Handlers,     \* the lists of calls the handlers make
          MaxConns,     \* pool_max_conns
          MaxFaults     \* bounds failures of the process's own calls

ASSUME HandlersAssumption == Handlers \subseteq Seq({"db", "kafka"})
ASSUME MaxConnsAssumption == MaxConns \in Nat \ {0} /\ MaxFaults \in Nat

VARIABLES main,         \* where main is
          calls,        \* calls[r]: what r's handler has still to call
          request,      \* request[r]: the state of r
          querying,     \* the requests that hold a connection of the pool
          listener,     \* the listener's goroutine
          producerOpen, poolOpen,
          timedOut,     \* Shutdown gave up waiting after 30 s
          refused,      \* requests a call of which found its resource closed
          faults

requestVars == <<calls, request, querying, refused>>
mainVars == <<main, producerOpen, poolOpen, timedOut>>
vars == <<requestVars, mainVars, listener, faults>>

TypeOK ==
    /\ main \in {"starting", "serving", "draining", "stopped", "closing", "exited"}
    /\ calls \in [Requests -> Seq({"db", "kafka"})]
    /\ request \in [Requests -> {"none", "active", "ok", "error"}]
    /\ querying \in SUBSET Requests /\ refused \in SUBSET Requests
    /\ listener \in {"none", "acquire", "listening", "ended"}
    /\ producerOpen \in BOOLEAN /\ poolOpen \in BOOLEAN /\ timedOut \in BOOLEAN
    /\ faults \in 0..MaxFaults

Init ==
    /\ main = "starting"
    /\ calls = [r \in Requests |-> << >>]
    /\ request = [r \in Requests |-> "none"]
    /\ querying = {} /\ refused = {}
    /\ listener = "none"
    /\ producerOpen = FALSE /\ poolOpen = FALSE /\ timedOut = FALSE
    /\ faults = 0

Fault == faults < MaxFaults /\ faults' = faults + 1

Active == {r \in Requests : request[r] = "active"}

(* A slip to detect: the listener ends without releasing its connection.   *)
InUseNeverReleased ==
    Cardinality(querying) + IF listener \in {"listening", "ended"} THEN 1 ELSE 0

InUse == Cardinality(querying) + IF listener = "listening" THEN 1 ELSE 0

Running == main # "exited"

(***************************************************************************)
(* main                                                                    *)
(***************************************************************************)
Start ==
    /\ main = "starting"
    /\ main' = "serving"
    /\ listener' = "acquire"
    /\ producerOpen' = TRUE /\ poolOpen' = TRUE
    /\ UNCHANGED <<requestVars, timedOut, faults>>

(* os.Exit(1): no tracer, no migration or no pool; no socket to listen on. *)
StartFails ==
    /\ main = "starting"
    /\ main' = "exited"
    /\ Fault
    /\ UNCHANGED <<requestVars, producerOpen, poolOpen, timedOut, listener>>

ServeFails ==
    /\ main = "serving"
    /\ main' = "exited"
    /\ Fault
    /\ UNCHANGED <<requestVars, producerOpen, poolOpen, timedOut, listener>>

(* A slip to detect: main does not wait for the server.                    *)
SigtermWithoutDrain ==
    /\ main = "serving"
    /\ main' = "stopped"
    /\ UNCHANGED <<requestVars, producerOpen, poolOpen, timedOut, listener, faults>>

Sigterm ==
    /\ main = "serving"
    /\ main' = "draining"
    /\ UNCHANGED <<requestVars, producerOpen, poolOpen, timedOut, listener, faults>>

(* Shutdown returns when no request is active, or after 30 s.              *)
ShutdownReturns ==
    /\ main = "draining"
    /\ main' = "stopped"
    /\ timedOut' = (Active # {})
    /\ UNCHANGED <<requestVars, producerOpen, poolOpen, listener, faults>>

(* The deferred calls, last first: producer.Close, then pool.Close, which  *)
(* rejects new acquisitions at once and waits for the connections in use.  *)
CloseProducer ==
    /\ main = "stopped" /\ producerOpen
    /\ producerOpen' = FALSE
    /\ UNCHANGED <<requestVars, main, poolOpen, timedOut, listener, faults>>

ClosePool ==
    /\ main = "stopped" /\ ~producerOpen
    /\ main' = "closing"
    /\ poolOpen' = FALSE
    /\ UNCHANGED <<requestVars, producerOpen, timedOut, listener, faults>>

(* pool.Close has returned: the first defer, cancel(), runs as the last,   *)
(* and main returns.                                                       *)
Return ==
    /\ main = "closing"
    /\ InUse = 0
    /\ main' = "exited"
    /\ UNCHANGED <<requestVars, producerOpen, poolOpen, timedOut, listener, faults>>

(***************************************************************************)
(* ListenPostgres, which keeps its connection until its context ends or    *)
(* an error.                                                               *)
(***************************************************************************)
ListenerAcquire ==
    /\ Running /\ listener = "acquire"
    /\ \/ poolOpen /\ InUse < MaxConns /\ listener' = "listening"
       \/ ~poolOpen /\ listener' = "ended"
    /\ UNCHANGED <<requestVars, mainVars, faults>>

ListenerFails ==
    /\ Running /\ listener \in {"acquire", "listening"}
    /\ listener' = "ended"
    /\ Fault
    /\ UNCHANGED <<requestVars, mainVars>>

(***************************************************************************)
(* Requests                                                                *)
(***************************************************************************)
Accept(r, handler) ==
    /\ main = "serving"
    /\ request[r] = "none"
    /\ request' = [request EXCEPT ![r] = "active"]
    /\ calls' = [calls EXCEPT ![r] = handler]
    /\ UNCHANGED <<querying, refused, mainVars, listener, faults>>

NextCall(r, call) ==
    /\ Running /\ request[r] = "active"
    /\ calls[r] # << >> /\ Head(calls[r]) = call

(* The resource is closed: the handler makes no further call.  (Create's   *)
(* rollback is one more query, whose error it ignores.)                    *)
Refuse(r) ==
    /\ calls' = [calls EXCEPT ![r] = << >>]
    /\ refused' = refused \cup {r}
    /\ UNCHANGED <<request, querying, mainVars, listener, faults>>

StartQuery(r) ==
    /\ NextCall(r, "db") /\ r \notin querying
    /\ \/ /\ poolOpen /\ InUse < MaxConns
          /\ querying' = querying \cup {r}
          /\ UNCHANGED <<calls, request, refused, mainVars, listener, faults>>
       \/ ~poolOpen /\ Refuse(r)

EndQuery(r) ==
    /\ Running /\ r \in querying
    /\ querying' = querying \ {r}
    /\ calls' = [calls EXCEPT ![r] = Tail(@)]
    /\ UNCHANGED <<request, refused, mainVars, listener, faults>>

Publish(r) ==
    /\ NextCall(r, "kafka")
    /\ \/ /\ producerOpen
          /\ calls' = [calls EXCEPT ![r] = Tail(@)]
          /\ UNCHANGED <<request, querying, refused, mainVars, listener, faults>>
       \/ ~producerOpen /\ Refuse(r)

Answer(r) ==
    /\ Running /\ request[r] = "active" /\ calls[r] = << >>
    /\ request' = [request EXCEPT ![r] = IF r \in refused THEN "error" ELSE "ok"]
    /\ UNCHANGED <<calls, querying, refused, mainVars, listener, faults>>

RequestStep(r) == StartQuery(r) \/ EndQuery(r) \/ Publish(r) \/ Answer(r)

MainStep == Start \/ ShutdownReturns \/ CloseProducer \/ ClosePool \/ Return

Next ==
    \/ MainStep \/ StartFails \/ ServeFails \/ Sigterm
    \/ ListenerAcquire \/ ListenerFails
    \/ \E r \in Requests :
          RequestStep(r) \/ \E handler \in Handlers : Accept(r, handler)

Spec == Init /\ [][Next]_vars

(* main and the listener go on, and a query that was started ends.  A      *)
(* handler may take for ever: the Kafka writer retries while no broker     *)
(* answers.                                                                *)
FairSpec ==
    /\ Spec
    /\ WF_vars(MainStep) /\ WF_vars(ListenerAcquire)
    /\ \A r \in Requests : WF_vars(EndQuery(r))

(***************************************************************************)
(* Properties                                                              *)
(***************************************************************************)

(* A request accepted before the signal finds the producer and the pool    *)
(* open until it is answered, unless Shutdown's 30 s ran out: the order of *)
(* the deferred calls puts both after the drain.                           *)
NotCutOff == refused # {} => timedOut

(* pool.Close waits for nothing but the connection of the listener, whose  *)
(* context is cancelled only after it.                                     *)
HeldByListener == main = "closing" /\ listener = "listening" /\ querying = {}

(* Told to stop, the process ends, whatever its requests do, with one      *)
(* exception: it hangs when the listener has its connection and keeps it.  *)
(* A listener that has failed, before or after the signal, or that had no  *)
(* connection yet, does not stop it.                                       *)
ShutdownEnds == main = "draining" ~> (main = "exited" \/ []HeldByListener)
=============================================================================
