------------------------------- MODULE Faults -------------------------------
(***************************************************************************)
(* What can go wrong around the program: a call to PostgreSQL, Kafka or    *)
(* the webhook that returns an error, a process that dies, and a worker    *)
(* that has been told to stop.  Every module that makes calls extends this *)
(* one.                                                                    *)
(*                                                                         *)
(* MaxFaults bounds the failures of one behaviour; nothing else in the     *)
(* specification bounds their kind, place or order.                        *)
(***************************************************************************)
EXTENDS Naturals

CONSTANTS MaxFaults,    \* how many failures a behaviour may contain
          Workers       \* the replicas of cmd/worker

ASSUME MaxFaultsAssumption == MaxFaults \in Nat

VARIABLES faults,       \* failures so far
          stopping      \* stopping[w]: SIGTERM reached w, its context is cancelled

faultVars == <<faults, stopping>>

FaultsTypeOK ==
    /\ faults \in Nat
    /\ stopping \in [Workers -> BOOLEAN]

FaultsInit ==
    /\ faults = 0
    /\ stopping = [w \in Workers |-> FALSE]

NoFault == UNCHANGED faultVars

Fault ==
    /\ faults < MaxFaults
    /\ faults' = faults + 1
    /\ UNCHANGED stopping

(***************************************************************************)
(* Calls a worker makes are all given the context that main cancels.  Once *)
(* it is cancelled they return its error; before that they may fail on     *)
(* their own.                                                              *)
(***************************************************************************)
CallSucceeds(w) == ~stopping[w] /\ NoFault

CallFails(w) ==
    \/ stopping[w] /\ NoFault
    \/ Fault

(* SIGINT or SIGTERM: main calls cancel().                                 *)
Sigterm(w) ==
    /\ ~stopping[w]
    /\ faults < MaxFaults
    /\ faults' = faults + 1
    /\ stopping' = [stopping EXCEPT ![w] = TRUE]

(***************************************************************************)
(* The process is gone and another takes its place: main returned after    *)
(* cancel() (it waits for no goroutine), or the process died.              *)
(***************************************************************************)
ProcessRestarts(w) ==
    \/ /\ stopping[w]
       /\ stopping' = [stopping EXCEPT ![w] = FALSE]
       /\ UNCHANGED faults
    \/ /\ ~stopping[w]
       /\ Fault
=============================================================================
