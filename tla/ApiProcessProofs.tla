-------------------------- MODULE ApiProcessProofs --------------------------
(***************************************************************************)
(* The order of an API process's shutdown, for any requests, handlers,     *)
(* pool size and failures.                                                 *)
(***************************************************************************)
EXTENDS ApiProcess, TLAPS

(* Until Shutdown returns everything is open and nothing was refused; when *)
(* it returned in time, no request is left that could be.                  *)
ShutdownInv ==
    /\ main = "starting" => Active = {}
    /\ main \in {"serving", "draining"} => producerOpen /\ poolOpen
    /\ main \in {"starting", "serving", "draining"} => ~timedOut
    /\ main \in {"stopped", "closing"} /\ ~timedOut => Active = {}

(* A connection is held during the call it is held for.                    *)
HeldInv ==
    \A r \in querying :
        request[r] = "active" /\ calls[r] # << >> /\ Head(calls[r]) = "db"

Typed == TypeOK /\ HeldInv

IInv == Typed /\ ShutdownInv /\ NotCutOff

LEMMA ShutdownInit == Init => IInv
<1> SUFFICES ASSUME Init PROVE IInv
  OBVIOUS
<1>1. Typed
  <2>1. << >> \in Seq({"db", "kafka"}) /\ 0 \in 0..MaxFaults
    BY MaxConnsAssumption
  <2> QED
    BY <2>1 DEF Init, Typed, TypeOK, HeldInv
<1>2. ShutdownInv /\ NotCutOff
  BY DEF Init, ShutdownInv, NotCutOff, Active
<1> QED
  BY <1>1, <1>2 DEF IInv

LEMMA FaultType ==
    ASSUME faults \in 0..MaxFaults, Fault \/ UNCHANGED faults
    PROVE  faults' \in 0..MaxFaults
BY MaxConnsAssumption DEF Fault

LEMMA CallsLeft ==
    ASSUME NEW s \in Seq({"db", "kafka"}), s # << >>
    PROVE  Tail(s) \in Seq({"db", "kafka"})
OBVIOUS

LEMMA TypeStep == Typed /\ [Next]_vars => Typed'
<1> SUFFICES ASSUME Typed, [Next]_vars PROVE Typed'
  OBVIOUS
<1> USE DEF Typed, TypeOK, HeldInv, requestVars, mainVars
<1>1. CASE MainStep \/ StartFails \/ ServeFails \/ Sigterm
  BY <1>1, FaultType
     DEF MainStep, Start, ShutdownReturns, CloseProducer, ClosePool, Return,
         StartFails, ServeFails, Sigterm
<1>2. CASE ListenerAcquire \/ ListenerFails
  BY <1>2, FaultType DEF ListenerAcquire, ListenerFails
<1>3. ASSUME NEW r \in Requests, NEW handler \in Handlers, Accept(r, handler)
      PROVE  Typed'
  BY <1>3, HandlersAssumption DEF Accept
<1>4. ASSUME NEW r \in Requests, RequestStep(r)
      PROVE  Typed'
  <2>1. ASSUME Refuse(r), r \notin querying
        PROVE  Typed'
    BY <2>1 DEF Refuse
  <2>2. CASE StartQuery(r)
    <3>1. CASE Refuse(r)
      BY <2>1, <2>2, <3>1 DEF StartQuery
    <3>2. CASE ~Refuse(r)
      BY <2>2, <3>2 DEF StartQuery, NextCall
    <3> QED
      BY <3>1, <3>2
  <2>3. CASE EndQuery(r)
    <3>1. r \in querying /\ calls[r] # << >> /\ calls[r] \in Seq({"db", "kafka"})
      BY <2>3 DEF EndQuery
    <3>2. Tail(calls[r]) \in Seq({"db", "kafka"})
      BY <3>1, CallsLeft
    <3> QED
      BY <2>3, <3>1, <3>2 DEF EndQuery
  <2>4. CASE Publish(r)
    <3>1. r \notin querying /\ calls[r] # << >>
      BY <2>4 DEF Publish, NextCall
    <3>2. CASE Refuse(r)
      BY <2>1, <3>1, <3>2
    <3>3. CASE ~Refuse(r)
      <4>1. Tail(calls[r]) \in Seq({"db", "kafka"})
        BY <3>1, CallsLeft
      <4> QED
        BY <2>4, <3>1, <3>3, <4>1 DEF Publish
    <3> QED
      BY <3>2, <3>3
  <2>5. CASE Answer(r)
    BY <2>5 DEF Answer
  <2> QED
    BY <1>4, <2>2, <2>3, <2>4, <2>5 DEF RequestStep
<1>5. CASE UNCHANGED vars
  BY <1>5 DEF vars
<1> QED
  BY <1>1, <1>2, <1>3, <1>4, <1>5 DEF Next

(* A request finds something closed only after Shutdown has returned; if   *)
(* it returned in time, no request is active any more.                     *)
LEMMA ShutdownStep == IInv /\ [Next]_vars => ShutdownInv' /\ NotCutOff'
<1> SUFFICES ASSUME IInv, [Next]_vars PROVE ShutdownInv' /\ NotCutOff'
  OBVIOUS
<1> USE DEF IInv, Typed, TypeOK, ShutdownInv, NotCutOff, Active, requestVars, mainVars
<1>1. CASE MainStep \/ StartFails \/ ServeFails \/ Sigterm
  BY <1>1 DEF MainStep, Start, ShutdownReturns, CloseProducer, ClosePool, Return,
              StartFails, ServeFails, Sigterm
<1>2. CASE ListenerAcquire \/ ListenerFails
  BY <1>2 DEF ListenerAcquire, ListenerFails
<1>3. ASSUME NEW r \in Requests, NEW handler \in Handlers, Accept(r, handler)
      PROVE  ShutdownInv' /\ NotCutOff'
  BY <1>3 DEF Accept
<1>4. ASSUME NEW r \in Requests, RequestStep(r)
      PROVE  ShutdownInv' /\ NotCutOff'
  <2>1. ASSUME Refuse(r), NEW call, NextCall(r, call), ~producerOpen \/ ~poolOpen
        PROVE  ShutdownInv' /\ NotCutOff'
    <3>1. r \in Active /\ main # "exited"
      BY <2>1 DEF NextCall, Running
    <3>2. timedOut
      BY <2>1, <3>1
    <3> QED
      BY <2>1, <3>2 DEF Refuse
  <2>2. CASE StartQuery(r)
    BY <2>1, <2>2 DEF StartQuery
  <2>3. CASE EndQuery(r)
    BY <2>3 DEF EndQuery
  <2>4. CASE Publish(r)
    BY <2>1, <2>4 DEF Publish
  <2>5. CASE Answer(r)
    BY <2>5 DEF Answer
  <2> QED
    BY <1>4, <2>2, <2>3, <2>4, <2>5 DEF RequestStep
<1>5. CASE UNCHANGED vars
  BY <1>5 DEF vars
<1> QED
  BY <1>1, <1>2, <1>3, <1>4, <1>5 DEF Next

LEMMA Invariant == Spec => []IInv
<1>1. IInv /\ [Next]_vars => IInv'
  BY TypeStep, ShutdownStep DEF IInv
<1> QED
  BY ShutdownInit, <1>1, PTL DEF Spec

(* main drains the server before its deferred calls close the producer and *)
(* the pool: unless Shutdown timed out, no request is refused either.      *)
THEOREM RequestsAreServedOut == Spec => []NotCutOff
<1>1. IInv => NotCutOff
  BY DEF IInv
<1> QED
  BY Invariant, <1>1, PTL
=============================================================================
