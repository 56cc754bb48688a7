----------------------------- MODULE MCBindery -----------------------------
(* The supervisor, EVERYONE and one more name, which is that of a user or,  *)
(* for nwserv, of a server; sets of more than one segment; more properties  *)
(* than property ids.  A client that writes a value writes one id only.     *)
EXTENDS Bindery

MCObjSecurity == {<<1, 3>>}
MCPropSecurity == {<<1, 2>>}
MCWritten == {[i \in 1..SegSize |-> 3]}
=============================================================================
