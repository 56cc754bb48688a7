---------------------------- MODULE MCConnTable ----------------------------
(* ConnTable on two slots with two clients, one of which is switched off    *)
(* and on again; the other stays.                                           *)
EXTENDS ConnTable
=============================================================================
