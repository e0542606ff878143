------------------------------- MODULE RestApi -------------------------------
(***************************************************************************)
(* The REST API as its clients meet it: one posts a request and gets an    *)
(* answer, another walks through the list.  The two kinds of request share *)
(* no state but the table, which ListPaging fills as any posts might, so   *)
(* that a behaviour has one or the other.                                  *)
(***************************************************************************)
EXTENDS CreateRequest, ListPaging

vars == <<createVars, listVars>>

Init == CreateInit /\ ListInit

Listing == \E id \in Ids : made[id] # NotMade

Next ==
    \/ ~Listing /\ walk.at = "idle" /\ CreateNext /\ UNCHANGED listVars
    \/ post = NoPost /\ ListNext /\ UNCHANGED createVars

Spec == Init /\ [][Next]_vars
=============================================================================
