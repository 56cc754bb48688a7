---------------------------- MODULE MCShareFile ----------------------------
(* ShareFile with access modes that differ in what they deny.               *)
EXTENDS ShareFile

(* Write deny-none, read deny-read, read deny-write: the first two go       *)
(* together, the second only once.                                          *)
MCModes == {{"ow"}, {"or", "dr"}, {"or", "dw"}}
=============================================================================
