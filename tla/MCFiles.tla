------------------------------- MODULE MCFiles -------------------------------
(* Files with two processes, one file and two handles in each.  Two logical *)
(* records share a lock file, a third has one of its own.                   *)
EXTENDS Files, TLC

CONSTANTS r1, r2, r3

MCLockFile == r1 :> "a" @@ r2 :> "a" @@ r3 :> "b"
RO == {"or"}
RW == {"or", "ow"}
RWD == {"or", "ow", "dw"}
Plain(a) == [access |-> a, creat |-> FALSE, keep |-> FALSE]
MCOpens == "open" :> ({Plain(a) : a \in {RO, RW, RWD}}
                      \cup {[Plain(RW) EXCEPT !.creat = TRUE], [Plain(RW) EXCEPT !.keep = TRUE]})
           @@ "record" :> {Plain(RW), Plain(RWD)} @@ "io" :> {Plain(RW)} @@ "logical" :> {}
MCMaxLocks == "open" :> 0 @@ "record" :> 2 @@ "io" :> 1 @@ "logical" :> 0
MCSymmetry == Permutations(Proc)
=============================================================================
