--------------------------- MODULE MCCookerServer ---------------------------
(***************************************************************************)
(* Two clients on one build directory, the first of which tries twice, and *)
(* at most two server processes at a time.  A server without a timeout is  *)
(* met with one fault, a server with one without faults.                   *)
(***************************************************************************)
EXTENDS CookerServer

CONSTANTS c1, c2

MCClients == {c1, c2}
MCServers == 1..2
MCProcs   == MCClients \cup MCServers
MCInodes  == 1..5
MCRetries == (c1 :> 2 @@ c2 :> 1)

MCNext == Next /\ (timeout = "some" => faults' = 0)

MCSpec == Init /\ [][MCNext]_vars /\ Fairness
=============================================================================
