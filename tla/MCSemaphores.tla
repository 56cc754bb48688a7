---------------------------- MODULE MCSemaphores ----------------------------
(* Semaphores on small tables: four names compete for the three slots of    *)
(* the global table, and a connection's table is smaller than the global    *)
(* one, as in the code (10 of 100), so both kinds of "table full" happen.   *)
EXTENDS Semaphores
=============================================================================
