------------------------------ MODULE Trustees ------------------------------
(***************************************************************************)
(* Trustees and effective rights (src/src/trustee.c): the links on disk that *)
(* give an object rights to a file, the cache every connection process keeps *)
(* of them, and the serial number of the volume that tells the others that   *)
(* something has changed.                                                    *)
(*                                                                         *)
(* One path is looked at, from the volume's root (node 0) to a file (node    *)
(* Depth); a node is an inode.  Each of the accesses to the disk is a step,  *)
(* because nothing is locked.  Rights are sets; "T" (see this name only) is   *)
(* not inherited.  Unix rights, symbolic links and other devices are left out. *)
(***************************************************************************)
EXTENDS Integers, FiniteSets, FiniteSetsExt

CONSTANTS
  Proc,        \* connection processes
  Supervisor,  \* those logged in as object 1, with the unix rights of root
  Asking,      \* processes that ask for rights
  Id,          \* objects that may be trustees
  IdsOf,       \* IdsOf[p]: the object of p and its groups
  Depth,       \* depth of the file
  Grant,       \* rights that are given
  Mask,        \* inherited rights masks that are set
  MaxCache,    \* MAX_TRUSTEE_CACHE
  MaxWrites    \* bound on the requests that change trustees

Zero == 0      \* the name of the link that holds the inherited rights mask

Right == {"S", "A", "F", "T"}

ASSUME TrusteeConstants ==
  /\ Supervisor \subseteq Proc /\ Asking \subseteq Proc /\ IdsOf \in [Proc -> SUBSET Id] /\ Zero \notin Id
  /\ Grant \subseteq SUBSET Right /\ Mask \subseteq SUBSET Right
  /\ Depth \in Nat \ {0} /\ MaxCache \in Nat \ {0} /\ MaxWrites \in Nat

Node == 0..Depth
Inheritable == Right \ {"T"}

VARIABLES
  disk,      \* disk[n]: the links of node n, a function from ids to rights
  ser,       \* the volume's serial number, 0 while there is no link
  cache,     \* cache[p]: the nodes p has in memory
  known,     \* known[p]: the serial number p has seen
  due,       \* due[p]: a minute has passed since p's last test
  pc,        \* what p does
  job,       \* job[p]: its request; how far it has walked (k) and with which
             \* rights (carry); whether its node is still allocated (hold);
             \* what it has read before it writes (old, num), and the
             \* highest serial number there was when it read one (was)
  top,       \* history: the highest serial number
  astray,    \* history: the serial number went back, or a change was never announced
  recycled,  \* history: the file was removed, and another has its inode
  writes     \* such requests so far

vars == <<disk, ser, cache, known, due, pc, job, top, astray, recycled, writes>>
local == <<pc, job>>
outside == <<top, astray, recycled, writes>>

NoLinks == [i \in {} |-> {}]
NoCache == [n \in {} |-> {}]
NoJob == [op |-> "none", n |-> 0, id |-> Zero, val |-> {}, second |-> FALSE,
          k |-> 0, carry |-> NoLinks, hold |-> FALSE, old |-> {}, num |-> 0, was |-> 0]

MaskOf(links) == IF Zero \in DOMAIN links THEN links[Zero] ELSE Inheritable
Without(f, x) == [y \in DOMAIN f \ {x} |-> f[y]]
With(f, x, v) == [y \in DOMAIN f \cup {x} |-> IF y = x THEN v ELSE f[y]]

Goto(p, l) == pc' = [pc EXCEPT ![p] = l]
Note(p, j) == job' = [job EXCEPT ![p] = j]
Finish(p) == Goto(p, "idle") /\ Note(p, NoJob)
Writing == {"put", "link", "mark", "remark", "read", "drop", "number"}

-----------------------------------------------------------------------------
(* The cache                                                                *)

(* vol_trustees_were_changed: once a minute, and again and again after a    *)
(* change was found, because the time of the test is not noted then.        *)
Stale(p) == due[p] /\ known[p] # ser
Tested(p) ==
  /\ known' = IF Stale(p) THEN [known EXCEPT ![p] = ser] ELSE known
  /\ due' = IF Stale(p) THEN due ELSE [due EXCEPT ![p] = FALSE]

(* create_trustee_node                                                      *)
NewNode(n) == [links |-> disk[n], built |-> FALSE, eff |-> {}]

(* add_trustee_node: a full cache gives up one of its nodes (the longest    *)
(* idle one, which files become sooner; left open here).                    *)
Added(c, n, node) ==
  IF Cardinality(DOMAIN c) < MaxCache \/ n \in DOMAIN c THEN {With(c, n, node)}
  ELSE {With(Without(c, m), n, node) : m \in DOMAIN c}

(* build_trustee_rights: the rights of p's ids at a node, from those at the  *)
(* node above.  What is passed on is masked, a trustee of the node itself    *)
(* replaces it.                                                             *)
Passed(p, n, links, above) ==
  [i \in IdsOf[p] |->
     IF i \in DOMAIN links THEN links[i]
     ELSE IF n = 0 THEN {} ELSE above[i] \cap MaskOf(links)]
Union(f) == UNION {f[i] : i \in DOMAIN f}
Built(p, c, n, rights) == [c EXCEPT ![n].built = TRUE, ![n].eff = Union(rights)]
NoRights(p) == [i \in IdsOf[p] |-> {}]

-----------------------------------------------------------------------------
(* Requests                                                                 *)

(* A request for effective rights, to read a node's trustees, or to change   *)
(* them.  The rights of object 1 are not looked up.                          *)
Begin(p, r) ==
  /\ pc[p] = "idle"
  /\ IF r.op \in {"add", "del", "mask"} THEN writes < MaxWrites /\ writes' = writes + 1
     ELSE UNCHANGED writes
  /\ r.op = "rights" => p \notin Supervisor
  /\ r.op \in {"rights", "scan"} => p \in Asking
  /\ Note(p, [r EXCEPT !.second = p \in Supervisor /\ r.op \in {"add", "mask"}])
  /\ Goto(p, IF r.op = "del" /\ p \in Supervisor THEN "put" ELSE "find")
  /\ due' \in {due, [due EXCEPT ![p] = TRUE]}
  /\ UNCHANGED <<disk, ser, cache, known, top, astray, recycled>>

(* find_build_trustee_node starts at the root with no rights.               *)
Start(p) ==
  /\ Goto(p, IF job[p].n = 0 THEN "build" ELSE "walk")
  /\ Note(p, [job[p] EXCEPT !.k = 0, !.carry = NoRights(p), !.hold = TRUE])

(* find_trustee_node, for the node of the request.  The inherited rights     *)
(* mask of a node that is not in the cache cannot be set                     *)
(* (tru_set_inherited_mask).                                                *)
Find(p) ==
  LET r == job[p]
      there == ~Stale(p) /\ r.n \in DOMAIN cache[p]
      only == r.op = "mask" /\ r.second
  IN
  /\ pc[p] = "find"
  /\ Tested(p)
  /\ cache' = IF Stale(p) THEN [cache EXCEPT ![p] = NoCache] ELSE cache
  /\ \/ there /\ r.op = "scan" /\ Finish(p)
     \/ /\ there /\ r.op # "scan" /\ (only \/ cache[p][r.n].built)
        /\ Goto(p, "act") /\ UNCHANGED job
     \/ there /\ r.op # "scan" /\ ~only /\ ~cache[p][r.n].built /\ Start(p)
     \/ ~there /\ only /\ Finish(p)
     \/ ~there /\ ~only /\ Goto(p, "load") /\ UNCHANGED job
  /\ UNCHANGED <<disk, ser, outside>>

(* find_creat_add_trustee_node                                              *)
Load(p) ==
  /\ pc[p] = "load"
  /\ \E c \in Added(cache[p], job[p].n, NewNode(job[p].n)) : cache' = [cache EXCEPT ![p] = c]
  /\ IF job[p].op = "scan" THEN Finish(p) ELSE Start(p)
  /\ UNCHANGED <<disk, ser, known, due, outside>>

(* find_build_trustee_node, for a node above that of the request, which is   *)
(* found in the cache or not.                                               *)
Above(p, c, hold) ==
  LET n == job[p].k
      rights == Passed(p, n, c[n].links, job[p].carry)
  IN
  /\ cache' = [cache EXCEPT ![p] = Built(p, c, n, rights)]
  /\ Note(p, [job[p] EXCEPT !.carry = rights, !.k = n + 1, !.hold = hold])
  /\ Goto(p, IF n + 1 = job[p].n THEN "build" ELSE "walk")

Walk(p) ==
  LET n == job[p].k IN
  /\ pc[p] = "walk"
  /\ Tested(p)
  /\ \/ ~Stale(p) /\ n \in DOMAIN cache[p] /\ Above(p, cache[p], job[p].hold)
     \/ /\ Stale(p)
        /\ cache' = [cache EXCEPT ![p] = NoCache]
        /\ Note(p, [job[p] EXCEPT !.hold = FALSE]) /\ Goto(p, "above")
     \/ ~Stale(p) /\ n \notin DOMAIN cache[p] /\ Goto(p, "above") /\ UNCHANGED <<cache, job>>
  /\ UNCHANGED <<disk, ser, outside>>

LoadAbove(p) ==
  /\ pc[p] = "above"
  /\ \E c \in Added(cache[p], job[p].k, NewNode(job[p].k)) :
       Above(p, c, job[p].hold /\ job[p].n \in DOMAIN c)
  /\ UNCHANGED <<disk, ser, known, due, outside>>

(* The node of the request.  If it was freed on the way, what follows is     *)
(* undefined: the process takes no further part.                             *)
Build(p) ==
  LET n == job[p].n IN
  /\ pc[p] = "build"
  /\ \/ /\ job[p].hold /\ Goto(p, "act") /\ UNCHANGED job
        /\ cache' = [cache EXCEPT ![p] =
                       Built(p, @, n, Passed(p, n, @[n].links, job[p].carry))]
     \/ ~job[p].hold /\ Goto(p, "dead") /\ Note(p, NoJob) /\ UNCHANGED cache
  /\ UNCHANGED <<disk, ser, known, due, outside>>

(* The rights are known: tru_get_eff_rights returns, and the changes test    *)
(* them.                                                                    *)
Allowed(p) == p \in Supervisor \/ "A" \in cache[p][job[p].n].eff
MayGive(p, v) ==
  IF p \in Supervisor \/ "S" \in cache[p][job[p].n].eff THEN v ELSE v \ {"S"}
(* Nobody but the supervisor sets the mask of the root.                      *)
MaskFixed(p) == job[p].n = 0 /\ p \notin Supervisor

Act(p) ==
  LET r == job[p] IN
  /\ pc[p] = "act"
  /\ \/ r.op = "rights" /\ Finish(p) /\ UNCHANGED cache
     \/ /\ r.op # "rights" /\ ~r.second /\ ~Allowed(p) /\ Finish(p)
        /\ cache' = IF r.op = "add" THEN [cache EXCEPT ![p] = NoCache] ELSE cache
     \/ /\ r.op \in {"add", "mask"} /\ ~r.second /\ Allowed(p) /\ Goto(p, "find")
        /\ Note(p, [r EXCEPT !.second = TRUE,
                             !.val = IF r.op = "add" THEN MayGive(p, @) ELSE @])
        /\ UNCHANGED cache
     \/ /\ r.op = "mask" /\ r.second /\ MaskFixed(p) /\ Finish(p)
        /\ UNCHANGED cache
     \/ /\ (r.second /\ ~(r.op = "mask" /\ MaskFixed(p))) \/ (r.op = "del" /\ Allowed(p))
        /\ Goto(p, "put") /\ UNCHANGED <<job, cache>>
  /\ UNCHANGED <<disk, ser, known, due, outside>>

-----------------------------------------------------------------------------
(* Changes                                                                  *)

Name(r) == IF r.op = "mask" THEN Zero ELSE r.id

(* put_trustee_to_disk unlinks, then links; del_trustee_from_disk unlinks.   *)
Put(p) ==
  LET r == job[p] IN
  /\ pc[p] = "put"
  /\ disk' = [disk EXCEPT ![r.n] = Without(@, Name(r))]
  /\ \/ r.op # "del" /\ Goto(p, "link") /\ UNCHANGED job
     \/ r.op = "del" /\ Name(r) \in DOMAIN disk[r.n] /\ Goto(p, "read") /\ UNCHANGED job
     \/ r.op = "del" /\ Name(r) \notin DOMAIN disk[r.n] /\ Finish(p)
  /\ UNCHANGED <<ser, cache, known, due, outside>>

(* The link of another process may be there already.                        *)
Link(p) ==
  LET r == job[p] IN
  /\ pc[p] = "link"
  /\ \/ /\ Name(r) \notin DOMAIN disk[r.n]
        /\ disk' = [disk EXCEPT ![r.n] = With(@, Name(r), r.val)]
        /\ Note(p, [r EXCEPT !.k = r.n - 1])
        /\ Goto(p, IF r.op = "add" /\ r.n > 1 THEN "mark" ELSE "read")
        /\ UNCHANGED cache
     \/ /\ Name(r) \in DOMAIN disk[r.n] /\ Finish(p) /\ UNCHANGED disk
        /\ cache' = IF r.op = "add" THEN [cache EXCEPT ![p] = NoCache] ELSE cache
  /\ UNCHANGED <<ser, known, due, outside>>

(* tru_add_trustee_set: the directories above, but not the root, become      *)
(* visible to the new trustee.  What is there is read in one step and        *)
(* replaced in another.                                                     *)
Seen(links, id) == IF id \in DOMAIN links THEN links[id] ELSE {}
Upwards(p) ==
  Note(p, [job[p] EXCEPT !.k = @ - 1, !.old = {}]) /\ Goto(p, IF job[p].k > 1 THEN "mark" ELSE "read")
Mark(p) ==
  LET now == Seen(disk[job[p].k], job[p].id) IN
  /\ pc[p] = "mark"
  /\ \/ now \cap {"T", "F"} # {} /\ Upwards(p)
     \/ /\ now \cap {"T", "F"} = {} /\ Goto(p, "remark")
        /\ Note(p, [job[p] EXCEPT !.old = now])
  /\ UNCHANGED <<disk, ser, cache, known, due, outside>>
Remark(p) ==
  /\ pc[p] = "remark"
  /\ disk' = [disk EXCEPT ![job[p].k] = With(@, job[p].id, job[p].old \cup {"T"})]
  /\ Upwards(p)
  /\ UNCHANGED <<ser, cache, known, due, outside>>

(* mutant: the removal of a trustee is not announced.                       *)
ReadSernumNot(p) ==
  /\ pc[p] = "read"
  /\ IF job[p].op = "del" THEN Finish(p)
     ELSE Note(p, [job[p] EXCEPT !.num = ser, !.was = top]) /\ Goto(p, "drop")
  /\ UNCHANGED <<disk, ser, cache, known, due, outside>>

(* tru_vol_sernum: the number is read, its link removed and made again.      *)
ReadSernum(p) ==
  /\ pc[p] = "read"
  /\ Note(p, [job[p] EXCEPT !.num = ser, !.was = top])
  /\ Goto(p, "drop")
  /\ UNCHANGED <<disk, ser, cache, known, due, outside>>
DropSernum(p) ==
  /\ pc[p] = "drop"
  /\ ser' = 0
  /\ Goto(p, "number")
  /\ UNCHANGED <<disk, cache, known, due, job, outside>>
SetSernum(p) ==
  /\ pc[p] = "number"
  /\ ser' = IF ser = 0 THEN job[p].num + 1 ELSE ser
  /\ top' = Max({top, ser'})
  /\ astray' = (astray \/ ser' < top \/ ser' <= job[p].was)
  /\ cache' = [cache EXCEPT ![p] = NoCache]
  /\ Finish(p)
  /\ UNCHANGED <<disk, known, due, recycled, writes>>

-----------------------------------------------------------------------------
(* A removed file takes its trustees with it (free_nw_ext_inode), and a new  *)
(* one gets its inode.  Neither is announced.                                *)
Remove(p) ==
  /\ pc[p] = "idle" /\ ~recycled
  /\ disk' = [disk EXCEPT ![Depth] = NoLinks]
  /\ recycled' = TRUE
  /\ UNCHANGED <<ser, cache, known, due, local, top, astray, writes>>

(* tru_init_trustees                                                        *)
Login(p) ==
  /\ pc[p] = "idle"
  /\ cache' = [cache EXCEPT ![p] = NoCache]
  /\ UNCHANGED <<disk, ser, known, due, local, outside>>

(* The process ends anywhere, and a new one serves the connection.           *)
Killed(p) ==
  /\ astray' = (astray \/ pc[p] \in Writing \ {"put"})
  /\ cache' = [cache EXCEPT ![p] = NoCache]
  /\ known' = [known EXCEPT ![p] = 0] /\ due' = [due EXCEPT ![p] = TRUE]
  /\ Finish(p)
  /\ UNCHANGED <<disk, ser, top, recycled, writes>>

Init ==
  /\ disk = [n \in Node |-> NoLinks] /\ ser = 0
  /\ cache = [p \in Proc |-> NoCache]
  /\ known = [p \in Proc |-> 0] /\ due = [p \in Proc |-> TRUE]
  /\ pc = [p \in Proc |-> "idle"] /\ job = [p \in Proc |-> NoJob]
  /\ top = 0 /\ astray = FALSE /\ recycled = FALSE /\ writes = 0

Requests ==
  {[NoJob EXCEPT !.op = op, !.n = n] : op \in {"rights", "scan"}, n \in Node}
    \cup {[NoJob EXCEPT !.op = "add", !.n = n, !.id = i, !.val = v] : n \in Node, i \in Id, v \in Grant}
    \cup {[NoJob EXCEPT !.op = "del", !.n = n, !.id = i] : n \in Node, i \in Id}
    \cup {[NoJob EXCEPT !.op = "mask", !.n = n, !.val = v] : n \in Node, v \in Mask}

Next ==
  \E p \in Proc :
    \/ \E r \in Requests : Begin(p, r)
    \/ Find(p) \/ Load(p) \/ Walk(p) \/ LoadAbove(p) \/ Build(p) \/ Act(p)
    \/ Put(p) \/ Link(p) \/ Mark(p) \/ Remark(p)
    \/ ReadSernum(p) \/ DropSernum(p) \/ SetSernum(p)
    \/ Remove(p) \/ Login(p) \/ Killed(p)

Spec == Init /\ [][Next]_vars

-----------------------------------------------------------------------------
(* Properties                                                               *)

(* What an object holds at a node: the trustee nearest above, as far as the  *)
(* masks between let it through.                                            *)
Held(i, n) ==
  LET given == {j \in 0..n : i \in DOMAIN disk[j]} IN
  IF given = {} THEN {}
  ELSE {r \in disk[Max(given)][i] : \A j \in (Max(given) + 1)..n : r \in MaskOf(disk[j])}
Rights(p, n) == UNION {Held(i, n) : i \in IdsOf[p]}

Quiet == \A p \in Proc : pc[p] \notin Writing \ {"put"}

(* The node a process builds was freed under it: what it does then is not   *)
(* defined.                                                                 *)
Doomed(p) == pc[p] = "dead" \/ (pc[p] \in {"walk", "above", "build"} /\ ~job[p].hold)

(* A process that has seen the volume's serial number (nwvolume.c:711) has   *)
(* the trustees and the effective rights of the disk in its cache            *)
(* (trustee.c:759), through walks that other changes cross, evictions and     *)
(* lost numbers; not while a change is under way, after the number went back *)
(* or a change stayed unannounced, for a file whose inode is used again, or   *)
(* for a process whose node was freed under it.                              *)
CacheCurrent ==
  Quiet /\ ~astray =>
    \A p \in Proc : known[p] = ser /\ ~Doomed(p) =>
      \A n \in DOMAIN cache[p] \ (IF recycled THEN {Depth} ELSE {}) :
        /\ cache[p][n].links = disk[n]
        /\ cache[p][n].built => cache[p][n].eff = Rights(p, n)
=============================================================================
