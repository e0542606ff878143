---------------------------- MODULE MCApiProcess ----------------------------
(***************************************************************************)
(* ApiProcess for TLC: the handlers of GET, DELETE and POST.               *)
(***************************************************************************)
EXTENDS ApiProcess

MCHandlers == {<<"db">>, <<"db", "db">>, <<"db", "db", "kafka">>}
=============================================================================
