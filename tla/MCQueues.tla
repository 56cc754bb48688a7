------------------------------ MODULE MCQueues ------------------------------
(* Queues with a client and a queue server that is also the supervisor.  A  *)
(* client creates and writes jobs, the other one serves, removes and        *)
(* destroys; both may vanish, and the server may be restarted.              *)
EXTENDS Queues

CONSTANTS c1, c2, sup, usr

MCLoginAs == c1 :> {usr} @@ c2 :> {sup}
=============================================================================
