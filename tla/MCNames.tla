------------------------------- MODULE MCNames -------------------------------
(* Names with one client of the name space calls and of short directory      *)
(* handles and one that uses only the older calls.                           *)
EXTENDS Names, TLC

Symmetric == Permutations(Ino) \cup Permutations(Dir)
=============================================================================
