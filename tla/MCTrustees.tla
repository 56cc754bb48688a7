----------------------------- MODULE MCTrustees -----------------------------
(* Trustees: the supervisor changes trustees of a user while *)
(* the user's process works.                                                  *)
EXTENDS Trustees, TLC

CONSTANTS sup, usr, user

MCIdsOf == sup :> {} @@ usr :> {user}
MCGrant == {{"A", "F"}}
MCMask == {{}}

(* CacheCurrent claims nothing of the states after this.                     *)
Announced == ~astray
=============================================================================
