---------------------------- MODULE MCNcpSession ----------------------------
(* NcpSession for two requests.  One packet in each socket and two in the   *)
(* pipe are enough for every repetition, overtaking and merging of packets  *)
(* that one outstanding request can cause between two processes.            *)
EXTENDS NcpSession
=============================================================================
