----------------------------- MODULE MCSearches -----------------------------
(* Searches: two searches, one for all files, in a directory of three files   *)
(* and one of one, with tables of two search handles and one directory handle. *)
EXTENDS Searches, TLC

CONSTANTS s1, s2, a, b

(* Calls of different kinds share nothing: they are looked at apart.  Two      *)
(* searches go on beside each other until the second change, and s1 stays in a. *)
OneKind ==
  /\ search[s1].dir # b
  /\ changes < 2 \/ \E s \in Search : search[s].state = "off"
  /\ \A s, t \in Search : search[s].state # "off" /\ search[t].state # "off"
                            => search[s].kind = search[t].kind
  /\ count = 0 \/ (DOMAIN dh = {} /\ \A s \in Search : search[s].kind = "ns" \/ search[s].state = "off")
  /\ DOMAIN dh = {} \/ \A s \in Search : search[s].kind = "dir" \/ search[s].state = "off"

MCMatch == s1 :> Ino @@ s2 :> {2, 3, 4}
MCFiles == a :> <<1, 2, 3>> @@ b :> <<4>>
=============================================================================
