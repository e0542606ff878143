------------------------------ MODULE MCWSHub ------------------------------
(***************************************************************************)
(* WSHub for TLC: all connections watch the same notification.  Those of   *)
(* other notifications have entries of their own and meet them only in the *)
(* lock.                                                                   *)
(***************************************************************************)
EXTENDS WSHub

CONSTANT n1

MCIdOf == [c \in Conns |-> n1]
=============================================================================
