----------------------------- MODULE ShareService -----------------------------
(***************************************************************************)
(* What share_file (src/src/nwshare.c) promises its callers about opens,    *)
(* as if one server knew the open handles of all connections: a request is  *)
(* decided in one step, against all of them, and it is granted exactly when *)
(* no handle denies it and it denies none.                                  *)
(***************************************************************************)
EXTENDS Integers

CONSTANTS Proc, Inode, Handle, OpenModes

VARIABLES
  handles,  \* handles[p][h]: closed, or inode and access mode
  outcome   \* the answer the pending request of p has got, if any

vars == <<handles, outcome>>

Closed == [open |-> FALSE]
Deny(b) == CASE b = "or" -> "dr" [] b = "dr" -> "or" [] b = "ow" -> "dw" [] b = "dw" -> "ow"

Compatible(i, m) ==
  \A q \in Proc, h \in Handle :
    handles[q][h] # Closed /\ handles[q][h].inode = i =>
      \A b \in m : Deny(b) \notin handles[q][h].mode

Answer(p, a) == outcome' = [outcome EXCEPT ![p] = a]

Init == /\ handles = [p \in Proc |-> [h \in Handle |-> Closed]]
        /\ outcome = [p \in Proc |-> "none"]

Open(p, h, i, m) ==
  /\ handles[p][h] = Closed /\ Compatible(i, m)
  /\ handles' = [handles EXCEPT ![p][h] = [open |-> TRUE, inode |-> i, mode |-> m]]
  /\ Answer(p, "granted")

Close(p, h) ==
  /\ handles[p][h] # Closed
  /\ handles' = [handles EXCEPT ![p][h] = Closed]
  /\ Answer(p, "granted")

(* A test, and an open that is refused.                                     *)
Test(p, i, m) ==
  /\ Answer(p, IF Compatible(i, m) THEN "granted" ELSE "refused")
  /\ UNCHANGED handles

Return(p) == Answer(p, "none") /\ UNCHANGED handles

Die(p) == /\ handles' = [handles EXCEPT ![p] = [h \in Handle |-> Closed]]
          /\ Answer(p, "none")

Next ==
  \E p \in Proc :
    \/ \E h \in Handle, i \in Inode, m \in OpenModes : Open(p, h, i, m)
    \/ \E h \in Handle : Close(p, h)
    \/ \E i \in Inode, m \in OpenModes : Test(p, i, m)
    \/ Return(p)
    \/ Die(p)

Spec == Init /\ [][Next]_vars
=============================================================================
