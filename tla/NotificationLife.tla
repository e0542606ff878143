-------------------------- MODULE NotificationLife --------------------------
(***************************************************************************)
(* What the service promises about one notification, with no word about    *)
(* how: a client asks for it, it is stored, handed over to be sent, and    *)
(* settled once something has become of it.                                *)
(*                                                                         *)
(*   nowhere --> stored --> underway <--> settled                          *)
(*                 |                                                       *)
(*                 +--> withdrawn                                          *)
(*                                                                         *)
(* PipelineLife shows that the pipeline implements this for every          *)
(* notification.                                                           *)
(***************************************************************************)

VARIABLES place,        \* where the notification is
          due,          \* its time to be sent has come
          answer,       \* what the client that asked for it was told
          outcome       \* what has become of it so far

vars == <<place, due, answer, outcome>>

Init ==
    /\ place = "nowhere"
    /\ due = TRUE
    /\ answer = "none"
    /\ outcome = {}

(* Where it may go.  A client that was answered has no claim on a new one; *)
(* nothing is handed over before its time, and nothing is settled to which *)
(* nothing happened.  What is withdrawn stays so; what is settled may be   *)
(* taken up once more.                                                     *)
Store    == place = "nowhere"  /\ place' = "stored"    /\ answer = "none"
HandOver == place = "stored"   /\ place' = "underway"  /\ due
Withdraw == place = "stored"   /\ place' = "withdrawn"
Settle   == place = "underway" /\ place' = "settled"   /\ outcome' # {}
TakeUp   == place = "settled"  /\ place' = "underway"

Move == Store \/ HandOver \/ Withdraw \/ Settle \/ TakeUp \/ UNCHANGED place

(* The client is answered once; "accepted" only if the notification        *)
(* exists, "conflict" only if it does not.                                 *)
Answer ==
    /\ answer = "none"
    /\ answer' = "accepted" => place' # "nowhere"
    /\ answer' = "conflict" => place' = "nowhere"

(* Something becomes of it only after it was handed over, and nothing of   *)
(* it is taken back.                                                       *)
Happen ==
    /\ outcome \subseteq outcome'
    /\ outcome' # outcome => place \in {"underway", "settled"}

(* Its time is set when it is stored; after that it can only come.         *)
Clock == due' = due \/ due' = TRUE \/ Store

Next == Move /\ (Answer \/ UNCHANGED answer) /\ Happen /\ Clock

Spec == Init /\ [][Next]_vars
=============================================================================
