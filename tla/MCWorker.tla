------------------------------ MODULE MCWorker ------------------------------
(***************************************************************************)
(* Instances of Worker: tasks that fire one or two events.                 *)
(***************************************************************************)
EXTENDS Worker

OneEvent  == <<"started">>
TwoEvents == <<"started", "succeeded">>
=============================================================================
