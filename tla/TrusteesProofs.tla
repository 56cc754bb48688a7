--------------------------- MODULE TrusteesProofs ---------------------------
(***************************************************************************)
(* Proofs about Trustees, for any number of processes, writers, objects,   *)
(* depth of the path and size of the caches: a process that has seen the   *)
(* volume's serial number has the rights of the disk in its cache.         *)
(***************************************************************************)
EXTENDS Trustees, TLAPS, FiniteSetTheorems

-----------------------------------------------------------------------------
(* The largest number of a set, and functions on part of a set.            *)

(* Every set of natural numbers has a least one.                           *)
LEMMA LeastNumber ==
  ASSUME NEW S \in SUBSET Nat, S # {}
  PROVE  \E t \in S : \A u \in S : t <= u
<1>1. PICK t \in S : \A u \in S : <<u, t>> \notin OpToRel(<, Nat)
  BY NatLessThanWellFounded, WFMin
<1>2. \A u \in S : ~(u < t)
  BY <1>1 DEF OpToRel
<1> QED BY <1>2

(* The greatest element of a bounded set of numbers.                       *)
LEMMA MaxIs ==
  ASSUME NEW b \in Nat, NEW S \in SUBSET (0 .. b), S # {}
  PROVE  Max(S) \in S /\ \A u \in S : u <= Max(S)
<1> DEFINE T == {b - x : x \in S}
<1>1. T \in SUBSET Nat /\ T # {}
  <2>1. \A x \in S : b - x \in Nat
    OBVIOUS
  <2> QED BY <2>1
<1>2. PICK t \in T : \A u \in T : t <= u
  BY <1>1, LeastNumber
<1>3. PICK x \in S : t = b - x
  OBVIOUS
<1>4. \A u \in S : b - u \in T
  OBVIOUS
<1>5. \A u \in S : b - x <= b - u
  BY <1>2, <1>3, <1>4
<1>6. \A u \in S : x >= u
  BY <1>5
<1>7. Max(S) \in S /\ \A u \in S : Max(S) >= u
  BY <1>6 DEF Max
<1> QED BY <1>7

(* The larger of two numbers.                                              *)
LEMMA MaxOfTwo ==
  ASSUME NEW a \in Nat, NEW b \in Nat
  PROVE  Max({a, b}) = IF a >= b THEN a ELSE b
<1> DEFINE m == IF a >= b THEN a ELSE b
<1>1. m \in {a, b} /\ \A y \in {a, b} : m >= y
  OBVIOUS
<1>2. \A x \in {a, b} : (\A y \in {a, b} : x >= y) => x = m
  OBVIOUS
<1> HIDE DEF m
<1>3. Max({a, b}) = m
  BY <1>1, <1>2 DEF Max
<1> QED BY <1>3 DEF m

(* Functions from some elements of S to T.                                 *)
Partial(S, T) == UNION {[D -> T] : D \in SUBSET S}

(* What such a function is.                                                *)
LEMMA PartialIs ==
  ASSUME NEW S, NEW T, NEW f \in Partial(S, T)
  PROVE  /\ DOMAIN f \subseteq S
         /\ f = [x \in DOMAIN f |-> f[x]]
         /\ \A x \in DOMAIN f : f[x] \in T
<1>1. PICK D \in SUBSET S : f \in [D -> T]
  BY DEF Partial
<1> QED BY <1>1

(* A function on a part of S is one of them.                               *)
LEMMA IsPartial ==
  ASSUME NEW S, NEW T, NEW D \in SUBSET S, NEW f \in [D -> T]
  PROVE  f \in Partial(S, T)
BY DEF Partial

(* An element added or replaced.                                           *)
LEMMA WithIs ==
  ASSUME NEW S, NEW T, NEW f \in Partial(S, T), NEW x \in S, NEW v \in T
  PROVE  /\ With(f, x, v) \in Partial(S, T)
         /\ \A y : y \in DOMAIN With(f, x, v) <=> y \in DOMAIN f \/ y = x
         /\ With(f, x, v)[x] = v
         /\ \A y : y \in DOMAIN f /\ y # x => With(f, x, v)[y] = f[y]
<1> DEFINE g == With(f, x, v)
<1>1. g = [y \in DOMAIN f \cup {x} |-> IF y = x THEN v ELSE f[y]]
  BY DEF With
<1>2. DOMAIN f \cup {x} \in SUBSET S /\ \A y \in DOMAIN f : f[y] \in T
  BY PartialIs
<1>3. g \in [DOMAIN f \cup {x} -> T]
  BY <1>1, <1>2
<1>4. g \in Partial(S, T)
  BY <1>2, <1>3, IsPartial
<1> QED BY <1>1, <1>4

(* An element taken away.                                                  *)
LEMMA WithoutIs ==
  ASSUME NEW S, NEW T, NEW f \in Partial(S, T), NEW x
  PROVE  /\ Without(f, x) \in Partial(S, T)
         /\ \A y : y \in DOMAIN Without(f, x) <=> y \in DOMAIN f /\ y # x
         /\ \A y : y \in DOMAIN f /\ y # x => Without(f, x)[y] = f[y]
         /\ x \notin DOMAIN f => Without(f, x) = f
<1> DEFINE g == Without(f, x)
<1>1. g = [y \in DOMAIN f \ {x} |-> f[y]]
  BY DEF Without
<1>2. DOMAIN f \ {x} \in SUBSET S /\ \A y \in DOMAIN f : f[y] \in T
  BY PartialIs
<1>3. g \in [DOMAIN f \ {x} -> T]
  BY <1>1, <1>2
<1>4. g \in Partial(S, T)
  BY <1>2, <1>3, IsPartial
<1>5. ASSUME x \notin DOMAIN f PROVE g = f
  <2>1. f = [y \in DOMAIN f |-> f[y]]
    BY PartialIs
  <2>2. DOMAIN f \ {x} = DOMAIN f
    BY <1>5
  <2> QED BY <1>1, <2>1, <2>2
<1> QED BY <1>1, <1>4, <1>5

-----------------------------------------------------------------------------
(* Types, and how far a request has got.                                   *)

Links == Partial(Id \cup {Zero}, SUBSET Right)
CNode == [links : Links, built : BOOLEAN, eff : SUBSET Right]
Cache == Partial(Node, CNode)
Steps == {"idle", "find", "load", "walk", "above", "build", "act", "dead"} \cup Writing
Ops == {"none", "rights", "scan", "add", "del", "mask"}
Job == [op : Ops, n : Node, id : Id \cup {Zero}, val : SUBSET Right, second : BOOLEAN,
        k : Int, carry : Partial(Id, SUBSET Right), hold : BOOLEAN, old : SUBSET Right,
        num : Nat, was : Nat]

TypeOK ==
  /\ disk \in [Node -> Links] /\ ser \in Nat /\ top \in Nat
  /\ cache \in [Proc -> Cache] /\ known \in [Proc -> Nat] /\ due \in [Proc -> BOOLEAN]
  /\ pc \in [Proc -> Steps] /\ job \in [Proc -> Job]
  /\ astray \in BOOLEAN /\ recycled \in BOOLEAN /\ writes \in Nat

Walking == {"walk", "above", "build"}

(* A walk is above its node, has rights for all ids of its process, and     *)
(* keeps the node in the cache as long as it holds it.                      *)
Walks(p) ==
  /\ pc[p] \in {"walk", "above"} => job[p].k \in 0 .. job[p].n - 1
  /\ pc[p] = "build" => job[p].k = job[p].n
  /\ pc[p] \in Walking => job[p].carry \in [IdsOf[p] -> SUBSET Right]
  /\ pc[p] \in Walking /\ job[p].hold => job[p].n \in DOMAIN cache[p]
  /\ pc[p] = "act" => job[p].n \in DOMAIN cache[p]
  /\ pc[p] \in {"mark", "remark"} => job[p].k \in 1 .. Depth

Structure == TypeOK /\ \A p \in Proc : Walks(p)

(* The other processes are left alone.                                     *)
OnlyOf(p) ==
  \A q \in Proc \ {p} : /\ cache'[q] = cache[q] /\ known'[q] = known[q]
                        /\ pc'[q] = pc[q] /\ job'[q] = job[q]

(* A request that has just come.                                           *)
LEMMA RequestIs ==
  /\ NoJob \in Job /\ \A r \in Requests : r \in Job
  /\ NoLinks \in Links /\ NoCache \in Cache /\ DOMAIN NoCache = {}
  /\ NoLinks \in Partial(Id, SUBSET Right)
<1>1. \A S, T : [i \in {} |-> {}] \in Partial(S, T)
  <2> TAKE S, T
  <2>1. {} \in SUBSET S /\ [i \in {} |-> {}] \in [{} -> T]
    OBVIOUS
  <2> QED BY <2>1, IsPartial
<1>2. NoLinks \in Links /\ NoCache \in Cache /\ NoLinks \in Partial(Id, SUBSET Right)
  BY <1>1 DEF NoLinks, NoCache, Links, Cache
<1>3. 0 \in Node /\ {} \in SUBSET Right /\ Zero \in Id \cup {Zero}
  BY TrusteeConstants DEF Node
<1>4. NoJob \in Job
  BY <1>2, <1>3 DEF NoJob, Job, Ops
<1> HIDE DEF NoJob
<1>5. \A v \in Grant \cup Mask : v \in SUBSET Right
  BY TrusteeConstants
<1>6. \A r \in Requests : r \in Job
  <2>1. ASSUME NEW op \in {"rights", "scan"}, NEW n \in Node
        PROVE  [NoJob EXCEPT !.op = op, !.n = n] \in Job
    BY <1>4 DEF Job, Ops
  <2>2. ASSUME NEW n \in Node, NEW i \in Id, NEW v \in Grant
        PROVE  [NoJob EXCEPT !.op = "add", !.n = n, !.id = i, !.val = v] \in Job
    BY <1>4, <1>5 DEF Job, Ops
  <2>3. ASSUME NEW n \in Node, NEW i \in Id
        PROVE  [NoJob EXCEPT !.op = "del", !.n = n, !.id = i] \in Job
    BY <1>4 DEF Job, Ops
  <2>4. ASSUME NEW n \in Node, NEW v \in Mask
        PROVE  [NoJob EXCEPT !.op = "mask", !.n = n, !.val = v] \in Job
    BY <1>4, <1>5 DEF Job, Ops
  <2> DEFINE J1(op, n) == [NoJob EXCEPT !.op = op, !.n = n]
             J2(n, i, v) == [NoJob EXCEPT !.op = "add", !.n = n, !.id = i, !.val = v]
             J3(n, i) == [NoJob EXCEPT !.op = "del", !.n = n, !.id = i]
             J4(n, v) == [NoJob EXCEPT !.op = "mask", !.n = n, !.val = v]
             R1 == {J1(op, n) : op \in {"rights", "scan"}, n \in Node}
             R2 == {J2(n, i, v) : n \in Node, i \in Id, v \in Grant}
             R3 == {J3(n, i) : n \in Node, i \in Id}
             R4 == {J4(n, v) : n \in Node, v \in Mask}
  <2>5. Requests = R1 \cup R2 \cup R3 \cup R4
    BY DEF Requests
  <2> HIDE DEF J1, J2, J3, J4
  <2>6. \A r \in R1 : r \in Job
    <3>1. \A op \in {"rights", "scan"}, n \in Node : J1(op, n) \in Job
      BY <2>1 DEF J1
    <3> QED BY <3>1
  <2>7. \A r \in R2 : r \in Job
    <3>1. \A n \in Node, i \in Id, v \in Grant : J2(n, i, v) \in Job
      BY <2>2 DEF J2
    <3> QED BY <3>1
  <2>8. \A r \in R3 : r \in Job
    <3>1. \A n \in Node, i \in Id : J3(n, i) \in Job
      BY <2>3 DEF J3
    <3> QED BY <3>1
  <2>9. \A r \in R4 : r \in Job
    <3>1. \A n \in Node, v \in Mask : J4(n, v) \in Job
      BY <2>4 DEF J4
    <3> QED BY <3>1
  <2> HIDE DEF R1, R2, R3, R4
  <2> QED BY <2>5, <2>6, <2>7, <2>8, <2>9
<1> QED BY <1>2, <1>4, <1>6 DEF NoCache

(* What a step does besides p's cache, place and request.                   *)
RestOk(p) ==
  /\ disk' \in [Node -> Links] /\ ser' \in Nat /\ top' \in Nat
  /\ known' \in [Proc -> Nat] /\ due' \in [Proc -> BOOLEAN]
  /\ astray' \in BOOLEAN /\ recycled' \in BOOLEAN /\ writes' \in Nat
  /\ \A q \in Proc \ {p} : known'[q] = known[q]

(* A step that leaves all that alone.                                       *)
LEMMA RestSame ==
  ASSUME TypeOK, NEW p, UNCHANGED <<disk, ser, known, due, outside>>
  PROVE  RestOk(p)
BY DEF TypeOK, RestOk, outside

(* The test of the serial number.                                          *)
LEMMA RestTested ==
  ASSUME TypeOK, NEW p \in Proc, Tested(p), UNCHANGED <<disk, ser, outside>>
  PROVE  /\ RestOk(p)
         /\ Stale(p) => known'[p] = ser
         /\ ~Stale(p) => known' = known
<1>1. UNCHANGED <<disk, ser, top, astray, recycled, writes>>
  BY DEF outside
<1>2. /\ known' \in [Proc -> Nat] /\ \A q \in Proc \ {p} : known'[q] = known[q]
      /\ Stale(p) => known'[p] = ser
      /\ ~Stale(p) => known' = known
  BY DEF Tested, TypeOK
<1>3. due' \in [Proc -> BOOLEAN]
  BY DEF Tested, TypeOK
<1> QED BY <1>1, <1>2, <1>3 DEF RestOk, TypeOK

(* p gets a new cache, a new place and a new request.                       *)
LEMMA Moved ==
  ASSUME TypeOK, NEW p \in Proc, NEW c \in Cache, NEW l \in Steps, NEW j \in Job,
         cache' = [cache EXCEPT ![p] = c], pc' = [pc EXCEPT ![p] = l],
         job' = [job EXCEPT ![p] = j], RestOk(p)
  PROVE  TypeOK' /\ OnlyOf(p) /\ cache'[p] = c /\ pc'[p] = l /\ job'[p] = j
<1>1. /\ cache' \in [Proc -> Cache] /\ cache'[p] = c
      /\ \A q \in Proc \ {p} : cache'[q] = cache[q]
  BY DEF TypeOK
<1>2. /\ pc' \in [Proc -> Steps] /\ pc'[p] = l
      /\ \A q \in Proc \ {p} : pc'[q] = pc[q]
  BY DEF TypeOK
<1>3. /\ job' \in [Proc -> Job] /\ job'[p] = j
      /\ \A q \in Proc \ {p} : job'[q] = job[q]
  BY DEF TypeOK
<1> QED BY <1>1, <1>2, <1>3 DEF TypeOK, RestOk, OnlyOf

(* Nothing is replaced by itself.                                          *)
LEMMA Itself ==
  ASSUME TypeOK, NEW p \in Proc
  PROVE  /\ cache = [cache EXCEPT ![p] = cache[p]] /\ cache[p] \in Cache
         /\ pc = [pc EXCEPT ![p] = pc[p]] /\ pc[p] \in Steps
         /\ job = [job EXCEPT ![p] = job[p]] /\ job[p] \in Job
BY DEF TypeOK

(* Begin                                                                    *)
LEMMA BeginStep ==
  ASSUME TypeOK, NEW p \in Proc, NEW r \in Requests, Begin(p, r)
  PROVE  /\ TypeOK' /\ OnlyOf(p) /\ Walks(p)'
         /\ UNCHANGED <<disk, ser, cache, known, top, astray, recycled>>
         /\ pc[p] = "idle" /\ pc'[p] \in {"find", "put"}
<1>1. r \in Job
  BY RequestIs
<1>2. PICK b \in BOOLEAN : b = (p \in Supervisor /\ r.op \in {"add", "mask"})
  OBVIOUS
<1>3. PICK j \in Job : j = [r EXCEPT !.second = b]
  BY <1>1 DEF Job
<1>4. job' = [job EXCEPT ![p] = j]
  BY <1>2, <1>3 DEF Begin, Note
<1>5. PICK l \in {"find", "put"} : pc' = [pc EXCEPT ![p] = l]
  BY DEF Begin, Goto
<1>6. l \in Steps
  BY DEF Steps, Writing
<1>7. UNCHANGED <<disk, ser, cache, known, top, astray, recycled>> /\ pc[p] = "idle"
  BY DEF Begin
<1>8. due' \in [Proc -> BOOLEAN]
  BY DEF Begin, TypeOK
<1>9. writes' \in Nat
  BY DEF Begin, TypeOK
<1>10. RestOk(p)
  BY <1>7, <1>8, <1>9 DEF RestOk, TypeOK
<1>11. PICK a \in Cache : a = cache[p] /\ cache' = [cache EXCEPT ![p] = a]
  BY <1>7, Itself
<1>12. TypeOK' /\ OnlyOf(p) /\ pc'[p] = l
  BY <1>4, <1>5, <1>6, <1>10, <1>11, Moved
<1> QED BY <1>7, <1>12 DEF Walks, Walking

(* A request and its fields.                                               *)
LEMMA JobIs ==
  ASSUME NEW o \in Job
  PROVE  \E a1 \in Ops, a2 \in Node, a3 \in Id \cup {Zero}, a4 \in SUBSET Right, a5 \in BOOLEAN,
            a6 \in Int, a7 \in Partial(Id, SUBSET Right), a8 \in BOOLEAN, a9 \in SUBSET Right,
            b1 \in Nat, b2 \in Nat :
           o = [op |-> a1, n |-> a2, id |-> a3, val |-> a4, second |-> a5, k |-> a6,
                carry |-> a7, hold |-> a8, old |-> a9, num |-> b1, was |-> b2]
BY DEF Job

(* The types of its fields.                                                *)
LEMMA JobFields ==
  ASSUME NEW o \in Job
  PROVE  /\ o.op \in Ops /\ o.n \in Node /\ o.id \in Id \cup {Zero} /\ o.val \in SUBSET Right
         /\ o.second \in BOOLEAN /\ o.k \in Int /\ o.carry \in Partial(Id, SUBSET Right)
         /\ o.hold \in BOOLEAN /\ o.old \in SUBSET Right /\ o.num \in Nat /\ o.was \in Nat
BY DEF Job

(* Its field val is replaced.                                            *)
LEMMA SetVal ==
  ASSUME NEW o \in Job, NEW v \in SUBSET Right
  PROVE  [o EXCEPT !.val = v] \in Job
<1>1. PICK a1 \in Ops, a2 \in Node, a3 \in Id \cup {Zero}, a4 \in SUBSET Right, a5 \in BOOLEAN,
           a6 \in Int, a7 \in Partial(Id, SUBSET Right), a8 \in BOOLEAN, a9 \in SUBSET Right,
           b1 \in Nat, b2 \in Nat :
        o = [op |-> a1, n |-> a2, id |-> a3, val |-> a4, second |-> a5, k |-> a6,
             carry |-> a7, hold |-> a8, old |-> a9, num |-> b1, was |-> b2]
  BY JobIs
<1>2. [op |-> a1, n |-> a2, id |-> a3, val |-> v, second |-> a5, k |-> a6,
       carry |-> a7, hold |-> a8, old |-> a9, num |-> b1, was |-> b2] \in Job
  BY DEF Job
<1>3. [o EXCEPT !.val = v] =
        [op |-> o.op, n |-> o.n, id |-> o.id, val |-> v, second |-> o.second, k |-> o.k,
         carry |-> o.carry, hold |-> o.hold, old |-> o.old, num |-> o.num, was |-> o.was]
  BY DEF Job
<1>4. [o EXCEPT !.val = v] =
        [op |-> a1, n |-> a2, id |-> a3, val |-> v, second |-> a5, k |-> a6,
         carry |-> a7, hold |-> a8, old |-> a9, num |-> b1, was |-> b2]
  BY <1>1, <1>3
<1> QED BY <1>2, <1>4

(* Its field second is replaced.                                         *)
LEMMA SetSecond ==
  ASSUME NEW o \in Job, NEW b \in BOOLEAN
  PROVE  [o EXCEPT !.second = b] \in Job
<1>1. PICK a1 \in Ops, a2 \in Node, a3 \in Id \cup {Zero}, a4 \in SUBSET Right, a5 \in BOOLEAN,
           a6 \in Int, a7 \in Partial(Id, SUBSET Right), a8 \in BOOLEAN, a9 \in SUBSET Right,
           b1 \in Nat, b2 \in Nat :
        o = [op |-> a1, n |-> a2, id |-> a3, val |-> a4, second |-> a5, k |-> a6,
             carry |-> a7, hold |-> a8, old |-> a9, num |-> b1, was |-> b2]
  BY JobIs
<1>2. [op |-> a1, n |-> a2, id |-> a3, val |-> a4, second |-> b, k |-> a6,
       carry |-> a7, hold |-> a8, old |-> a9, num |-> b1, was |-> b2] \in Job
  BY DEF Job
<1>3. [o EXCEPT !.second = b] =
        [op |-> o.op, n |-> o.n, id |-> o.id, val |-> o.val, second |-> b, k |-> o.k,
         carry |-> o.carry, hold |-> o.hold, old |-> o.old, num |-> o.num, was |-> o.was]
  BY DEF Job
<1>4. [o EXCEPT !.second = b] =
        [op |-> a1, n |-> a2, id |-> a3, val |-> a4, second |-> b, k |-> a6,
         carry |-> a7, hold |-> a8, old |-> a9, num |-> b1, was |-> b2]
  BY <1>1, <1>3
<1> QED BY <1>2, <1>4

(* Its field k is replaced.                                              *)
LEMMA SetK ==
  ASSUME NEW o \in Job, NEW k \in Int
  PROVE  [o EXCEPT !.k = k] \in Job
<1>1. PICK a1 \in Ops, a2 \in Node, a3 \in Id \cup {Zero}, a4 \in SUBSET Right, a5 \in BOOLEAN,
           a6 \in Int, a7 \in Partial(Id, SUBSET Right), a8 \in BOOLEAN, a9 \in SUBSET Right,
           b1 \in Nat, b2 \in Nat :
        o = [op |-> a1, n |-> a2, id |-> a3, val |-> a4, second |-> a5, k |-> a6,
             carry |-> a7, hold |-> a8, old |-> a9, num |-> b1, was |-> b2]
  BY JobIs
<1>2. [op |-> a1, n |-> a2, id |-> a3, val |-> a4, second |-> a5, k |-> k,
       carry |-> a7, hold |-> a8, old |-> a9, num |-> b1, was |-> b2] \in Job
  BY DEF Job
<1>3. [o EXCEPT !.k = k] =
        [op |-> o.op, n |-> o.n, id |-> o.id, val |-> o.val, second |-> o.second, k |-> k,
         carry |-> o.carry, hold |-> o.hold, old |-> o.old, num |-> o.num, was |-> o.was]
  BY DEF Job
<1>4. [o EXCEPT !.k = k] =
        [op |-> a1, n |-> a2, id |-> a3, val |-> a4, second |-> a5, k |-> k,
         carry |-> a7, hold |-> a8, old |-> a9, num |-> b1, was |-> b2]
  BY <1>1, <1>3
<1> QED BY <1>2, <1>4

(* Its field carry is replaced.                                          *)
LEMMA SetCarry ==
  ASSUME NEW o \in Job, NEW c \in Partial(Id, SUBSET Right)
  PROVE  [o EXCEPT !.carry = c] \in Job
<1>1. PICK a1 \in Ops, a2 \in Node, a3 \in Id \cup {Zero}, a4 \in SUBSET Right, a5 \in BOOLEAN,
           a6 \in Int, a7 \in Partial(Id, SUBSET Right), a8 \in BOOLEAN, a9 \in SUBSET Right,
           b1 \in Nat, b2 \in Nat :
        o = [op |-> a1, n |-> a2, id |-> a3, val |-> a4, second |-> a5, k |-> a6,
             carry |-> a7, hold |-> a8, old |-> a9, num |-> b1, was |-> b2]
  BY JobIs
<1>2. [op |-> a1, n |-> a2, id |-> a3, val |-> a4, second |-> a5, k |-> a6,
       carry |-> c, hold |-> a8, old |-> a9, num |-> b1, was |-> b2] \in Job
  BY DEF Job
<1>3. [o EXCEPT !.carry = c] =
        [op |-> o.op, n |-> o.n, id |-> o.id, val |-> o.val, second |-> o.second, k |-> o.k,
         carry |-> c, hold |-> o.hold, old |-> o.old, num |-> o.num, was |-> o.was]
  BY DEF Job
<1>4. [o EXCEPT !.carry = c] =
        [op |-> a1, n |-> a2, id |-> a3, val |-> a4, second |-> a5, k |-> a6,
         carry |-> c, hold |-> a8, old |-> a9, num |-> b1, was |-> b2]
  BY <1>1, <1>3
<1> QED BY <1>2, <1>4

(* Its field hold is replaced.                                           *)
LEMMA SetHold ==
  ASSUME NEW o \in Job, NEW h \in BOOLEAN
  PROVE  [o EXCEPT !.hold = h] \in Job
<1>1. PICK a1 \in Ops, a2 \in Node, a3 \in Id \cup {Zero}, a4 \in SUBSET Right, a5 \in BOOLEAN,
           a6 \in Int, a7 \in Partial(Id, SUBSET Right), a8 \in BOOLEAN, a9 \in SUBSET Right,
           b1 \in Nat, b2 \in Nat :
        o = [op |-> a1, n |-> a2, id |-> a3, val |-> a4, second |-> a5, k |-> a6,
             carry |-> a7, hold |-> a8, old |-> a9, num |-> b1, was |-> b2]
  BY JobIs
<1>2. [op |-> a1, n |-> a2, id |-> a3, val |-> a4, second |-> a5, k |-> a6,
       carry |-> a7, hold |-> h, old |-> a9, num |-> b1, was |-> b2] \in Job
  BY DEF Job
<1>3. [o EXCEPT !.hold = h] =
        [op |-> o.op, n |-> o.n, id |-> o.id, val |-> o.val, second |-> o.second, k |-> o.k,
         carry |-> o.carry, hold |-> h, old |-> o.old, num |-> o.num, was |-> o.was]
  BY DEF Job
<1>4. [o EXCEPT !.hold = h] =
        [op |-> a1, n |-> a2, id |-> a3, val |-> a4, second |-> a5, k |-> a6,
         carry |-> a7, hold |-> h, old |-> a9, num |-> b1, was |-> b2]
  BY <1>1, <1>3
<1> QED BY <1>2, <1>4

(* Its field old is replaced.                                            *)
LEMMA SetOld ==
  ASSUME NEW o \in Job, NEW d \in SUBSET Right
  PROVE  [o EXCEPT !.old = d] \in Job
<1>1. PICK a1 \in Ops, a2 \in Node, a3 \in Id \cup {Zero}, a4 \in SUBSET Right, a5 \in BOOLEAN,
           a6 \in Int, a7 \in Partial(Id, SUBSET Right), a8 \in BOOLEAN, a9 \in SUBSET Right,
           b1 \in Nat, b2 \in Nat :
        o = [op |-> a1, n |-> a2, id |-> a3, val |-> a4, second |-> a5, k |-> a6,
             carry |-> a7, hold |-> a8, old |-> a9, num |-> b1, was |-> b2]
  BY JobIs
<1>2. [op |-> a1, n |-> a2, id |-> a3, val |-> a4, second |-> a5, k |-> a6,
       carry |-> a7, hold |-> a8, old |-> d, num |-> b1, was |-> b2] \in Job
  BY DEF Job
<1>3. [o EXCEPT !.old = d] =
        [op |-> o.op, n |-> o.n, id |-> o.id, val |-> o.val, second |-> o.second, k |-> o.k,
         carry |-> o.carry, hold |-> o.hold, old |-> d, num |-> o.num, was |-> o.was]
  BY DEF Job
<1>4. [o EXCEPT !.old = d] =
        [op |-> a1, n |-> a2, id |-> a3, val |-> a4, second |-> a5, k |-> a6,
         carry |-> a7, hold |-> a8, old |-> d, num |-> b1, was |-> b2]
  BY <1>1, <1>3
<1> QED BY <1>2, <1>4

(* Its field num is replaced.                                            *)
LEMMA SetNum ==
  ASSUME NEW o \in Job, NEW m \in Nat
  PROVE  [o EXCEPT !.num = m] \in Job
<1>1. PICK a1 \in Ops, a2 \in Node, a3 \in Id \cup {Zero}, a4 \in SUBSET Right, a5 \in BOOLEAN,
           a6 \in Int, a7 \in Partial(Id, SUBSET Right), a8 \in BOOLEAN, a9 \in SUBSET Right,
           b1 \in Nat, b2 \in Nat :
        o = [op |-> a1, n |-> a2, id |-> a3, val |-> a4, second |-> a5, k |-> a6,
             carry |-> a7, hold |-> a8, old |-> a9, num |-> b1, was |-> b2]
  BY JobIs
<1>2. [op |-> a1, n |-> a2, id |-> a3, val |-> a4, second |-> a5, k |-> a6,
       carry |-> a7, hold |-> a8, old |-> a9, num |-> m, was |-> b2] \in Job
  BY DEF Job
<1>3. [o EXCEPT !.num = m] =
        [op |-> o.op, n |-> o.n, id |-> o.id, val |-> o.val, second |-> o.second, k |-> o.k,
         carry |-> o.carry, hold |-> o.hold, old |-> o.old, num |-> m, was |-> o.was]
  BY DEF Job
<1>4. [o EXCEPT !.num = m] =
        [op |-> a1, n |-> a2, id |-> a3, val |-> a4, second |-> a5, k |-> a6,
         carry |-> a7, hold |-> a8, old |-> a9, num |-> m, was |-> b2]
  BY <1>1, <1>3
<1> QED BY <1>2, <1>4

(* Its field was is replaced.                                            *)
LEMMA SetWas ==
  ASSUME NEW o \in Job, NEW w \in Nat
  PROVE  [o EXCEPT !.was = w] \in Job
<1>1. PICK a1 \in Ops, a2 \in Node, a3 \in Id \cup {Zero}, a4 \in SUBSET Right, a5 \in BOOLEAN,
           a6 \in Int, a7 \in Partial(Id, SUBSET Right), a8 \in BOOLEAN, a9 \in SUBSET Right,
           b1 \in Nat, b2 \in Nat :
        o = [op |-> a1, n |-> a2, id |-> a3, val |-> a4, second |-> a5, k |-> a6,
             carry |-> a7, hold |-> a8, old |-> a9, num |-> b1, was |-> b2]
  BY JobIs
<1>2. [op |-> a1, n |-> a2, id |-> a3, val |-> a4, second |-> a5, k |-> a6,
       carry |-> a7, hold |-> a8, old |-> a9, num |-> b1, was |-> w] \in Job
  BY DEF Job
<1>3. [o EXCEPT !.was = w] =
        [op |-> o.op, n |-> o.n, id |-> o.id, val |-> o.val, second |-> o.second, k |-> o.k,
         carry |-> o.carry, hold |-> o.hold, old |-> o.old, num |-> o.num, was |-> w]
  BY DEF Job
<1>4. [o EXCEPT !.was = w] =
        [op |-> a1, n |-> a2, id |-> a3, val |-> a4, second |-> a5, k |-> a6,
         carry |-> a7, hold |-> a8, old |-> a9, num |-> b1, was |-> w]
  BY <1>1, <1>3
<1> QED BY <1>2, <1>4

(* The ways a request goes on: a walk takes a step,                         *)
LEMMA JobWalks ==
  ASSUME NEW o \in Job, NEW k \in Int, NEW c \in Partial(Id, SUBSET Right), NEW h \in BOOLEAN
  PROVE  [o EXCEPT !.carry = c, !.k = k, !.hold = h] \in Job
<1>1. PICK j0 \in Job : j0 = [o EXCEPT !.carry = c]
  BY SetCarry
<1>2. PICK j1 \in Job : j1 = [j0 EXCEPT !.k = k]
  BY SetK
<1>3. PICK j2 \in Job : j2 = [j1 EXCEPT !.hold = h]
  BY SetHold
<1>4. j2 = [o EXCEPT !.carry = c, !.k = k, !.hold = h]
  BY <1>1, <1>2, <1>3
<1> QED BY <1>4

(* has lost its node,                                                      *)
LEMMA JobReleased ==
  ASSUME NEW o \in Job
  PROVE  [o EXCEPT !.hold = FALSE] \in Job
<1>1. PICK y0 \in BOOLEAN : y0 = FALSE
  OBVIOUS
<1>2. PICK j0 \in Job : j0 = [o EXCEPT !.hold = y0]
  BY SetHold
<1>3. j0 = [o EXCEPT !.hold = FALSE]
  BY <1>1, <1>2
<1> QED BY <1>3

(* the rights are known and the change begins,                             *)
LEMMA JobAgain ==
  ASSUME NEW o \in Job, NEW v \in SUBSET Right
  PROVE  [o EXCEPT !.second = TRUE, !.val = v] \in Job
<1>1. PICK y0 \in BOOLEAN : y0 = TRUE
  OBVIOUS
<1>2. PICK j0 \in Job : j0 = [o EXCEPT !.second = y0]
  BY SetSecond
<1>3. PICK j1 \in Job : j1 = [j0 EXCEPT !.val = v]
  BY SetVal
<1>4. j1 = [o EXCEPT !.second = TRUE, !.val = v]
  BY <1>1, <1>2, <1>3
<1> QED BY <1>4

(* the next directory above is to be marked,                               *)
LEMMA JobRises ==
  ASSUME NEW o \in Job, NEW k \in Int, NEW d \in SUBSET Right
  PROVE  [o EXCEPT !.k = k, !.old = d] \in Job
<1>1. PICK j0 \in Job : j0 = [o EXCEPT !.k = k]
  BY SetK
<1>2. PICK j1 \in Job : j1 = [j0 EXCEPT !.old = d]
  BY SetOld
<1>3. j1 = [o EXCEPT !.k = k, !.old = d]
  BY <1>1, <1>2
<1> QED BY <1>3

(* the serial number has been read.                                        *)
LEMMA JobNumbered ==
  ASSUME NEW o \in Job, NEW m \in Nat, NEW w \in Nat
  PROVE  [o EXCEPT !.num = m, !.was = w] \in Job
<1>1. PICK j0 \in Job : j0 = [o EXCEPT !.num = m]
  BY SetNum
<1>2. PICK j1 \in Job : j1 = [j0 EXCEPT !.was = w]
  BY SetWas
<1>3. j1 = [o EXCEPT !.num = m, !.was = w]
  BY <1>1, <1>2
<1> QED BY <1>3

(* Start                                                                    *)
LEMMA StartIs ==
  ASSUME TypeOK, NEW p \in Proc, Start(p)
  PROVE  \E j \in Job, l \in {"build", "walk"} :
           /\ job' = [job EXCEPT ![p] = j] /\ pc' = [pc EXCEPT ![p] = l]
           /\ j.n = job[p].n /\ j.k = 0 /\ j.hold = TRUE /\ j.carry \in [IdsOf[p] -> SUBSET Right]
           /\ l = "build" => j.n = 0
           /\ l = "walk" => j.n # 0
<1>1. IdsOf[p] \in SUBSET Id
  BY TrusteeConstants
<1>2. NoRights(p) \in [IdsOf[p] -> SUBSET Right]
  BY DEF NoRights
<1>3. NoRights(p) \in Partial(Id, SUBSET Right)
  BY <1>1, <1>2, IsPartial
<1>4. PICK o \in Job : o = job[p]
  BY DEF TypeOK
<1>5. PICK v \in Partial(Id, SUBSET Right) : v = NoRights(p)
  BY <1>3
<1>6. PICK h \in BOOLEAN : h = TRUE
  OBVIOUS
<1>10. PICK z \in Int : z = 0
  OBVIOUS
<1>7. PICK j \in Job : j = [o EXCEPT !.carry = v, !.k = z, !.hold = h]
  BY JobWalks
<1>8. j.n = o.n /\ j.k = z /\ j.carry = v /\ j.hold = h
  BY <1>7 DEF Job
<1>9. j = [o EXCEPT !.k = 0, !.carry = v, !.hold = TRUE]
  BY <1>6, <1>7, <1>10
<1>11. job' = [job EXCEPT ![p] = j] /\ pc' = [pc EXCEPT ![p] = IF job[p].n = 0 THEN "build" ELSE "walk"]
  BY <1>4, <1>5, <1>9 DEF Start, Note, Goto
<1> QED BY <1>2, <1>4, <1>5, <1>6, <1>8, <1>10, <1>11

(* A node of the cache is built.                                           *)
LEMMA BuiltIs ==
  ASSUME NEW p \in Proc, NEW c \in Cache, NEW n \in DOMAIN c, NEW f \in [IdsOf[p] -> SUBSET Right]
  PROVE  /\ Built(p, c, n, f) \in Cache /\ DOMAIN Built(p, c, n, f) = DOMAIN c
         /\ \A m : m \in DOMAIN c /\ m # n => Built(p, c, n, f)[m] = c[m]
         /\ Built(p, c, n, f)[n].links = c[n].links
         /\ Built(p, c, n, f)[n].eff = Union(f)
<1>1. PICK u \in SUBSET Right : u = Union(f)
  BY DEF Union
<1>2. /\ DOMAIN c \in SUBSET Node /\ c \in [DOMAIN c -> CNode]
  BY PartialIs DEF Cache
<1>3. PICK o \in CNode : o = c[n]
  BY <1>2
<1>4. PICK l \in Links : l = o.links
  BY DEF CNode
<1>5. PICK z : z = [links |-> l, built |-> TRUE, eff |-> u]
  OBVIOUS
<1>6. z \in CNode
  BY <1>5 DEF CNode
<1>7. z = [o EXCEPT !.built = TRUE, !.eff = u]
  <2>1. PICK t \in BOOLEAN : t = TRUE
    OBVIOUS
  <2>2. [o EXCEPT !.built = t] = [links |-> o.links, built |-> t, eff |-> o.eff]
    BY DEF CNode
  <2>3. PICK x : x = [o EXCEPT !.built = t]
    OBVIOUS
  <2>4. x \in CNode
    BY <2>2, <2>3 DEF CNode
  <2>5. [x EXCEPT !.eff = u] = [links |-> x.links, built |-> x.built, eff |-> u]
    BY <2>4 DEF CNode
  <2>6. [o EXCEPT !.built = TRUE, !.eff = u] = [x EXCEPT !.eff = u]
    BY <2>1, <2>3
  <2> QED BY <1>4, <1>5, <2>1, <2>2, <2>3, <2>5, <2>6
<1>8. Built(p, c, n, f) = [c EXCEPT ![n] = z]
  BY <1>1, <1>2, <1>3, <1>7 DEF Built
<1>9. [c EXCEPT ![n] = z] \in [DOMAIN c -> CNode]
  BY <1>2, <1>6
<1>10. [c EXCEPT ![n] = z] \in Cache
  BY <1>2, <1>9, IsPartial DEF Cache
<1> QED BY <1>1, <1>2, <1>3, <1>4, <1>5, <1>8, <1>9, <1>10

(* A node is put into the cache.                                           *)
LEMMA NodeIn ==
  ASSUME NEW c \in Cache, NEW n \in Node, NEW z \in CNode
  PROVE  /\ With(c, n, z) \in Cache
         /\ \A m : m \in DOMAIN With(c, n, z) <=> m \in DOMAIN c \/ m = n
         /\ With(c, n, z)[n] = z
         /\ \A m : m \in DOMAIN c /\ m # n => With(c, n, z)[m] = c[m]
<1>1. c \in Partial(Node, CNode)
  BY DEF Cache
<1>2. With(c, n, z) \in Partial(Node, CNode)
  BY <1>1, WithIs
<1>3. With(c, n, z) = [y \in DOMAIN c \cup {n} |-> IF y = n THEN z ELSE c[y]]
  BY DEF With
<1>4. /\ \A m : m \in DOMAIN With(c, n, z) <=> m \in DOMAIN c \/ m = n
      /\ With(c, n, z)[n] = z
      /\ \A m : m \in DOMAIN c /\ m # n => With(c, n, z)[m] = c[m]
  BY <1>3
<1> QED BY <1>2, <1>4 DEF Cache

(* Another node may have to leave for it.                                  *)
LEMMA AddedIs ==
  ASSUME NEW c \in Cache, NEW n \in Node, NEW z \in CNode, NEW d \in Added(c, n, z)
  PROVE  /\ d \in Cache /\ n \in DOMAIN d /\ d[n] = z
         /\ \A m : m \in DOMAIN d /\ m # n => m \in DOMAIN c /\ d[m] = c[m]
<1>1. CASE d = With(c, n, z)
  BY <1>1, NodeIn
<1>2. CASE \E m \in DOMAIN c : d = With(Without(c, m), n, z)
  <2>1. PICK m \in DOMAIN c : d = With(Without(c, m), n, z)
    BY <1>2
  <2>2. c \in Partial(Node, CNode)
    BY DEF Cache
  <2>3. /\ Without(c, m) \in Partial(Node, CNode)
        /\ \A x : x \in DOMAIN Without(c, m) <=> x \in DOMAIN c /\ x # m
        /\ \A x : x \in DOMAIN c /\ x # m => Without(c, m)[x] = c[x]
    BY <2>2, WithoutIs
  <2>4. PICK e \in Cache : /\ e = Without(c, m)
                           /\ \A x : x \in DOMAIN e <=> x \in DOMAIN c /\ x # m
                           /\ \A x : x \in DOMAIN c /\ x # m => e[x] = c[x]
    BY <2>3 DEF Cache
  <2>5. d = With(e, n, z)
    BY <2>1, <2>4
  <2> QED BY <2>4, <2>5, NodeIn
<1> QED BY <1>1, <1>2 DEF Added

(* The rights that are passed on.                                          *)
LEMMA PassedIs ==
  ASSUME NEW p \in Proc, NEW n \in Node, NEW l \in Links, NEW f \in Partial(Id, SUBSET Right),
         n # 0 => DOMAIN f = IdsOf[p]
  PROVE  Passed(p, n, l, f) \in [IdsOf[p] -> SUBSET Right] /\ Passed(p, n, l, f) \in Partial(Id, SUBSET Right)
<1>1. \A i \in DOMAIN l : l[i] \in SUBSET Right
  BY PartialIs DEF Links
<1>2. \A i \in DOMAIN f : f[i] \in SUBSET Right
  BY PartialIs
<1>3. Passed(p, n, l, f) \in [IdsOf[p] -> SUBSET Right]
  BY <1>1, <1>2 DEF Passed
<1>4. IdsOf[p] \in SUBSET Id
  BY TrusteeConstants
<1> QED BY <1>3, <1>4, IsPartial

(* create_trustee_node                                                      *)
LEMMA NewNodeIs ==
  ASSUME TypeOK, NEW n \in Node
  PROVE  NewNode(n) \in CNode /\ NewNode(n).links = disk[n] /\ NewNode(n).built = FALSE
<1>1. PICK l \in Links : l = disk[n]
  BY DEF TypeOK
<1>2. PICK t \in BOOLEAN : t = FALSE
  OBVIOUS
<1>3. [links |-> l, built |-> t, eff |-> {}] \in CNode
  BY DEF CNode
<1> QED BY <1>1, <1>2, <1>3 DEF NewNode

(* Find                                                                     *)
LEMMA FindStep ==
  ASSUME TypeOK, NEW p \in Proc, Find(p)
  PROVE  /\ TypeOK' /\ OnlyOf(p) /\ Walks(p)'
         /\ UNCHANGED <<disk, ser, top, astray, recycled>> /\ pc[p] = "find"
         /\ \/ cache'[p] = NoCache /\ known'[p] = ser
            \/ cache'[p] = cache[p] /\ known'[p] = known[p]
         /\ pc'[p] \in {"idle", "load", "act", "walk", "build"}
         /\ pc'[p] \in Walking => job'[p].k = 0
<1>1. UNCHANGED <<disk, ser, top, astray, recycled>> /\ UNCHANGED <<disk, ser, outside>> /\ pc[p] = "find" /\ Tested(p)
  BY DEF Find, outside
<1>2. RestOk(p) /\ (Stale(p) => known'[p] = ser) /\ (~Stale(p) => known' = known)
  BY <1>1, RestTested
<1>3. PICK c \in Cache : /\ c = IF Stale(p) THEN NoCache ELSE cache[p]
                         /\ cache' = [cache EXCEPT ![p] = c]
  <2>1. CASE Stale(p)
    <3>1. cache' = [cache EXCEPT ![p] = NoCache]
      BY <2>1 DEF Find
    <3> QED BY <2>1, <3>1, RequestIs
  <2>2. CASE ~Stale(p)
    <3>1. cache' = cache
      BY <2>2 DEF Find
    <3> QED BY <2>2, <3>1, Itself
  <2> QED BY <2>1, <2>2
<1>4. \/ cache'[p] = NoCache /\ known'[p] = ser
      \/ cache'[p] = cache[p] /\ known'[p] = known[p]
  <2>1. cache'[p] = c
    BY <1>3 DEF TypeOK
  <2> QED BY <1>2, <1>3, <2>1
<1>5. CASE Finish(p)
  <2>1. pc' = [pc EXCEPT ![p] = "idle"] /\ job' = [job EXCEPT ![p] = NoJob]
    BY <1>5 DEF Finish, Goto, Note
  <2>2. "idle" \in Steps /\ NoJob \in Job
    BY RequestIs DEF Steps
  <2>3. TypeOK' /\ OnlyOf(p) /\ pc'[p] = "idle"
    BY <2>1, <2>2, <1>2, <1>3, Moved
  <2> QED BY <1>1, <1>4, <2>3 DEF Walks, Walking
<1>6. CASE ~Stale(p) /\ job[p].n \in DOMAIN cache[p] /\ Goto(p, "act") /\ UNCHANGED job
  <2>1. pc' = [pc EXCEPT ![p] = "act"] /\ job' = [job EXCEPT ![p] = job[p]] /\ job[p] \in Job
    BY <1>6, Itself DEF Goto
  <2>2. "act" \in Steps
    BY DEF Steps
  <2>3. TypeOK' /\ OnlyOf(p) /\ pc'[p] = "act" /\ job'[p] = job[p] /\ cache'[p] = c
    BY <2>1, <2>2, <1>2, <1>3, Moved
  <2>4. job[p].n \in DOMAIN c
    BY <1>3, <1>6
  <2> QED BY <1>1, <1>4, <2>3, <2>4 DEF Walks, Walking
<1>7. CASE ~Stale(p) /\ job[p].n \in DOMAIN cache[p] /\ Start(p)
  <2>1. PICK j \in Job, l \in {"build", "walk"} :
          /\ job' = [job EXCEPT ![p] = j] /\ pc' = [pc EXCEPT ![p] = l]
          /\ j.n = job[p].n /\ j.k = 0 /\ j.hold = TRUE /\ j.carry \in [IdsOf[p] -> SUBSET Right]
          /\ l = "build" => j.n = 0
          /\ l = "walk" => j.n # 0
    BY <1>7, StartIs
  <2>2. l \in Steps
    BY DEF Steps
  <2>3. TypeOK' /\ OnlyOf(p) /\ pc'[p] = l /\ job'[p] = j /\ cache'[p] = c
    BY <2>1, <2>2, <1>2, <1>3, Moved
  <2>4. j.n \in DOMAIN c /\ j.n \in Node
    BY <1>3, <1>7, <2>1 DEF Job
  <2>5. l = "walk" => j.k \in 0 .. j.n - 1
    BY <2>1, <2>4, TrusteeConstants DEF Node
  <2> QED BY <1>1, <1>4, <2>1, <2>3, <2>4, <2>5 DEF Walks, Walking
<1>8. CASE Goto(p, "load") /\ UNCHANGED job
  <2>1. pc' = [pc EXCEPT ![p] = "load"] /\ job' = [job EXCEPT ![p] = job[p]] /\ job[p] \in Job
    BY <1>8, Itself DEF Goto
  <2>2. "load" \in Steps
    BY DEF Steps
  <2>3. TypeOK' /\ OnlyOf(p) /\ pc'[p] = "load"
    BY <2>1, <2>2, <1>2, <1>3, Moved
  <2> QED BY <1>1, <1>4, <2>3 DEF Walks, Walking
<1> QED BY <1>5, <1>6, <1>7, <1>8 DEF Find

(* Load                                                                     *)
LEMMA LoadStep ==
  ASSUME TypeOK, NEW p \in Proc, Load(p)
  PROVE  /\ TypeOK' /\ OnlyOf(p) /\ Walks(p)'
         /\ UNCHANGED <<disk, ser, known, top, astray, recycled>> /\ pc[p] = "load"
         /\ \E n \in Node : /\ cache'[p][n].links = disk[n] /\ cache'[p][n].built = FALSE
                            /\ \A m : m \in DOMAIN cache'[p] /\ m # n => m \in DOMAIN cache[p] /\ cache'[p][m] = cache[p][m]
         /\ pc'[p] \in {"idle", "walk", "build"}
         /\ pc'[p] \in Walking => job'[p].k = 0
<1>1. UNCHANGED <<disk, ser, known, top, astray, recycled>> /\ UNCHANGED <<disk, ser, known, due, outside>> /\ pc[p] = "load"
  BY DEF Load, outside
<1>2. RestOk(p)
  BY <1>1, RestSame
<1>3. PICK n \in Node : n = job[p].n
  BY DEF TypeOK, Job
<1>4. PICK z \in CNode : z = NewNode(n) /\ z.links = disk[n] /\ z.built = FALSE
  BY NewNodeIs
<1>5. PICK a \in Cache : a = cache[p]
  BY DEF TypeOK
<1>6. PICK c \in Added(a, n, z) : cache' = [cache EXCEPT ![p] = c]
  BY <1>3, <1>4, <1>5 DEF Load
<1>7. /\ c \in Cache /\ n \in DOMAIN c /\ c[n] = z
      /\ \A m : m \in DOMAIN c /\ m # n => m \in DOMAIN a /\ c[m] = a[m]
  BY AddedIs
<1>8. cache'[p] = c
  BY <1>6 DEF TypeOK
<1>9. \A m : m \in DOMAIN cache'[p] /\ m # n => m \in DOMAIN cache[p] /\ cache'[p][m] = cache[p][m]
  BY <1>5, <1>7, <1>8
<1>10. cache'[p][n].links = disk[n] /\ cache'[p][n].built = FALSE
  BY <1>4, <1>7, <1>8
<1>11. CASE Finish(p)
  <2>1. pc' = [pc EXCEPT ![p] = "idle"] /\ job' = [job EXCEPT ![p] = NoJob]
    BY <1>11 DEF Finish, Goto, Note
  <2>2. "idle" \in Steps /\ NoJob \in Job
    BY RequestIs DEF Steps
  <2>3. TypeOK' /\ OnlyOf(p) /\ pc'[p] = "idle"
    BY <2>1, <2>2, <1>2, <1>6, <1>7, Moved
  <2> QED BY <1>1, <1>9, <1>10, <2>3 DEF Walks, Walking
<1>12. CASE Start(p)
  <2>1. PICK j \in Job, l \in {"build", "walk"} :
          /\ job' = [job EXCEPT ![p] = j] /\ pc' = [pc EXCEPT ![p] = l]
          /\ j.n = job[p].n /\ j.k = 0 /\ j.hold = TRUE /\ j.carry \in [IdsOf[p] -> SUBSET Right]
          /\ l = "build" => j.n = 0
          /\ l = "walk" => j.n # 0
    BY <1>12, StartIs
  <2>2. l \in Steps
    BY DEF Steps
  <2>3. TypeOK' /\ OnlyOf(p) /\ pc'[p] = l /\ job'[p] = j
    BY <2>1, <2>2, <1>2, <1>6, <1>7, Moved
  <2>4. j.n \in DOMAIN cache'[p]
    BY <1>3, <1>7, <1>8, <2>1
  <2>5. l = "walk" => j.k \in 0 .. j.n - 1
    BY <1>3, <2>1, TrusteeConstants DEF Node
  <2>6. Walks(p)'
    BY <2>1, <2>3, <2>4, <2>5 DEF Walks, Walking
  <2> QED BY <1>1, <1>9, <1>10, <2>1, <2>3, <2>6 DEF Walking
<1> QED BY <1>11, <1>12 DEF Load

(* The node above is built, and the walk goes on.                           *)
LEMMA AboveIs ==
  ASSUME TypeOK, NEW p \in Proc, Walks(p), pc[p] \in {"walk", "above"},
         NEW c \in Cache, NEW h \in BOOLEAN, job[p].k \in DOMAIN c,
         h = TRUE => job[p].n \in DOMAIN c, Above(p, c, h), RestOk(p)
  PROVE  /\ TypeOK' /\ OnlyOf(p) /\ Walks(p)'
         /\ pc'[p] \in {"walk", "build"} /\ job'[p].hold = h
         /\ job[p].k \in 0 .. Depth - 1 /\ job'[p].k = job[p].k + 1
         /\ job'[p].carry = Passed(p, job[p].k, c[job[p].k].links, job[p].carry)
         /\ cache'[p] = Built(p, c, job[p].k, job'[p].carry)
<1>1. PICK o \in Job : o = job[p]
  BY DEF TypeOK
<1>2. o.n \in Node /\ o.k \in 0 .. o.n - 1 /\ o.carry \in [IdsOf[p] -> SUBSET Right]
  BY <1>1, JobFields DEF Walks, Walking
<1>3. Depth \in Nat /\ o.k \in 0 .. Depth - 1
  BY <1>2, TrusteeConstants DEF Node
<1>4. PICK n \in Node : n = o.k
  BY <1>3 DEF Node
<1>5. /\ c \in [DOMAIN c -> CNode] /\ n \in DOMAIN c
  BY <1>1, <1>4, PartialIs DEF Cache
<1>6. PICK l \in Links : l = c[n].links
  BY <1>5 DEF CNode
<1>7. PICK f \in Partial(Id, SUBSET Right) : f = o.carry /\ DOMAIN f = IdsOf[p]
  BY <1>2, JobFields
<1>8. Passed(p, n, l, f) \in [IdsOf[p] -> SUBSET Right] /\ Passed(p, n, l, f) \in Partial(Id, SUBSET Right)
  BY <1>7, PassedIs
<1>9. PICK g \in Partial(Id, SUBSET Right) : g = Passed(p, n, l, f) /\ g \in [IdsOf[p] -> SUBSET Right]
  BY <1>8
<1>10. PICK k \in Int : k = n + 1
  BY <1>4, <1>3
<1>11. PICK j \in Job : j = [o EXCEPT !.carry = g, !.k = k, !.hold = h]
  BY JobWalks
<1>12. j.n = o.n /\ j.k = k /\ j.carry = g /\ j.hold = h
  BY <1>11 DEF Job
<1>13. /\ Built(p, c, n, g) \in Cache /\ DOMAIN Built(p, c, n, g) = DOMAIN c
  BY <1>5, <1>9, BuiltIs
<1>14. PICK d \in Cache : d = Built(p, c, n, g) /\ DOMAIN d = DOMAIN c
  BY <1>13
<1>15. PICK s \in {"walk", "build"} : s = IF n + 1 = o.n THEN "build" ELSE "walk"
  OBVIOUS
<1>16. /\ cache' = [cache EXCEPT ![p] = d] /\ job' = [job EXCEPT ![p] = j] /\ pc' = [pc EXCEPT ![p] = s]
  BY <1>1, <1>4, <1>6, <1>7, <1>9, <1>10, <1>11, <1>14, <1>15 DEF Above, Note, Goto
<1>17. s \in Steps
  BY DEF Steps
<1>18. TypeOK' /\ OnlyOf(p) /\ cache'[p] = d /\ pc'[p] = s /\ job'[p] = j
  BY <1>16, <1>17, Moved
<1>19. /\ s = "walk" => j.k \in 0 .. j.n - 1
       /\ s = "build" => j.k = j.n
  BY <1>2, <1>3, <1>4, <1>10, <1>12, <1>15 DEF Node
<1>20. j.hold = TRUE => j.n \in DOMAIN d
  BY <1>1, <1>12, <1>14
<1>21. Walks(p)'
  BY <1>9, <1>12, <1>15, <1>18, <1>19, <1>20 DEF Walks, Walking
<1>22. job'[p].carry = Passed(p, job[p].k, c[job[p].k].links, job[p].carry)
  BY <1>1, <1>4, <1>6, <1>7, <1>9, <1>12, <1>18
<1>23. cache'[p] = Built(p, c, job[p].k, job'[p].carry)
  BY <1>1, <1>4, <1>12, <1>14, <1>18
<1> QED BY <1>1, <1>3, <1>4, <1>10, <1>12, <1>18, <1>21, <1>22, <1>23

(* Walk                                                                     *)
LEMMA WalkStep ==
  ASSUME TypeOK, NEW p \in Proc, Walks(p), Walk(p)
  PROVE  /\ TypeOK' /\ OnlyOf(p) /\ Walks(p)'
         /\ UNCHANGED <<disk, ser, top, astray, recycled>> /\ pc[p] = "walk"
         /\ \/ /\ known'[p] = known[p] /\ job[p].k \in 0 .. Depth - 1 /\ job[p].k \in DOMAIN cache[p]
               /\ pc'[p] \in {"walk", "build"} /\ job'[p].hold = job[p].hold /\ job'[p].k = job[p].k + 1
               /\ job'[p].carry = Passed(p, job[p].k, cache[p][job[p].k].links, job[p].carry)
               /\ cache'[p] = Built(p, cache[p], job[p].k, job'[p].carry)
            \/ known'[p] = ser /\ pc'[p] = "above" /\ ~job'[p].hold
            \/ known'[p] = known[p] /\ pc'[p] = "above" /\ cache'[p] = cache[p] /\ job'[p] = job[p]
<1>1. UNCHANGED <<disk, ser, top, astray, recycled>> /\ UNCHANGED <<disk, ser, outside>> /\ pc[p] = "walk" /\ Tested(p)
  BY DEF Walk, outside
<1>2. RestOk(p) /\ (Stale(p) => known'[p] = ser) /\ (~Stale(p) => known' = known)
  BY <1>1, RestTested
<1>3. PICK a \in Cache : a = cache[p]
  BY DEF TypeOK
<1>4. PICK o \in Job : o = job[p]
  BY DEF TypeOK
<1>5. o.n \in Node /\ o.k \in 0 .. o.n - 1 /\ o.carry \in [IdsOf[p] -> SUBSET Right]
  BY <1>1, <1>4, JobFields DEF Walks, Walking
<1>6. "above" \in Steps
  BY DEF Steps
<1>7. CASE ~Stale(p) /\ job[p].k \in DOMAIN cache[p] /\ Above(p, cache[p], job[p].hold)
  <2>1. PICK h \in BOOLEAN : h = o.hold
    BY JobFields
  <2>2. h = TRUE => job[p].n \in DOMAIN a
    BY <1>1, <1>3, <1>4, <2>1 DEF Walks, Walking
  <2>3. Above(p, a, h)
    BY <1>3, <1>4, <1>7, <2>1
  <2>4. /\ TypeOK' /\ OnlyOf(p) /\ Walks(p)'
        /\ pc'[p] \in {"walk", "build"} /\ job'[p].hold = h
        /\ job[p].k \in 0 .. Depth - 1 /\ job'[p].k = job[p].k + 1
        /\ job'[p].carry = Passed(p, job[p].k, a[job[p].k].links, job[p].carry)
        /\ cache'[p] = Built(p, a, job[p].k, job'[p].carry)
    BY <1>1, <1>2, <1>3, <1>7, <2>2, <2>3, AboveIs
  <2> QED BY <1>1, <1>2, <1>3, <1>4, <1>7, <2>1, <2>4
<1>8. CASE /\ Stale(p)
           /\ cache' = [cache EXCEPT ![p] = NoCache]
           /\ Note(p, [job[p] EXCEPT !.hold = FALSE]) /\ Goto(p, "above")
  <2>1. PICK j \in Job : j = [o EXCEPT !.hold = FALSE]
    BY JobReleased
  <2>2. j.n = o.n /\ j.k = o.k /\ j.carry = o.carry /\ ~j.hold
    BY <2>1 DEF Job
  <2>3. job' = [job EXCEPT ![p] = j] /\ pc' = [pc EXCEPT ![p] = "above"] /\ cache' = [cache EXCEPT ![p] = NoCache]
    BY <1>4, <1>8, <2>1 DEF Note, Goto
  <2>4. TypeOK' /\ OnlyOf(p) /\ pc'[p] = "above" /\ job'[p] = j
    BY <1>2, <1>6, <2>3, RequestIs, Moved
  <2>5. Walks(p)'
    BY <1>5, <2>2, <2>4 DEF Walks, Walking
  <2> QED BY <1>1, <1>2, <1>8, <2>2, <2>4, <2>5
<1>9. CASE ~Stale(p) /\ Goto(p, "above") /\ UNCHANGED <<cache, job>>
  <2>1. job' = [job EXCEPT ![p] = o] /\ pc' = [pc EXCEPT ![p] = "above"] /\ cache' = [cache EXCEPT ![p] = a]
    BY <1>3, <1>4, <1>9, Itself DEF Goto
  <2>2. TypeOK' /\ OnlyOf(p) /\ pc'[p] = "above" /\ job'[p] = o /\ cache'[p] = a
    BY <1>2, <1>6, <2>1, Moved
  <2>3. Walks(p)'
    BY <1>1, <1>3, <1>4, <1>5, <2>2 DEF Walks, Walking
  <2> QED BY <1>1, <1>2, <1>3, <1>4, <1>9, <2>2, <2>3
<1> QED BY <1>7, <1>8, <1>9 DEF Walk

(* LoadAbove                                                                *)
LEMMA LoadAboveStep ==
  ASSUME TypeOK, NEW p \in Proc, Walks(p), LoadAbove(p)
  PROVE  /\ TypeOK' /\ OnlyOf(p) /\ Walks(p)'
         /\ UNCHANGED <<disk, ser, known, top, astray, recycled>> /\ pc[p] = "above"
         /\ \E c \in Cache :
              /\ job[p].k \in DOMAIN c /\ c[job[p].k].links = disk[job[p].k]
              /\ \A m : m \in DOMAIN c /\ m # job[p].k => m \in DOMAIN cache[p] /\ c[m] = cache[p][m]
              /\ pc'[p] \in {"walk", "build"} /\ (job'[p].hold => job[p].hold)
              /\ job[p].k \in 0 .. Depth - 1 /\ job'[p].k = job[p].k + 1
              /\ job'[p].carry = Passed(p, job[p].k, c[job[p].k].links, job[p].carry)
              /\ cache'[p] = Built(p, c, job[p].k, job'[p].carry)
<1>1. UNCHANGED <<disk, ser, known, top, astray, recycled>> /\ UNCHANGED <<disk, ser, known, due, outside>> /\ pc[p] = "above"
  BY DEF LoadAbove, outside
<1>2. RestOk(p)
  BY <1>1, RestSame
<1>3. PICK a \in Cache : a = cache[p]
  BY DEF TypeOK
<1>4. PICK o \in Job : o = job[p]
  BY DEF TypeOK
<1>5. o.n \in Node /\ o.k \in 0 .. o.n - 1 /\ Depth \in Nat
  BY <1>1, <1>4, JobFields, TrusteeConstants DEF Walks
<1>6. PICK n \in Node : n = o.k
  BY <1>5 DEF Node
<1>7. PICK z \in CNode : z = NewNode(n) /\ z.links = disk[n]
  BY NewNodeIs
<1>8. PICK c \in Added(a, n, z) : Above(p, c, job[p].hold /\ job[p].n \in DOMAIN c)
  BY <1>3, <1>4, <1>6, <1>7 DEF LoadAbove
<1>9. /\ c \in Cache /\ n \in DOMAIN c /\ c[n] = z
      /\ \A m : m \in DOMAIN c /\ m # n => m \in DOMAIN a /\ c[m] = a[m]
  BY AddedIs
<1>10. PICK h \in BOOLEAN : h = (job[p].hold /\ job[p].n \in DOMAIN c)
  OBVIOUS
<1>11. Above(p, c, h)
  BY <1>8, <1>10
<1>12. h = TRUE => job[p].n \in DOMAIN c
  BY <1>10
<1>13. h = TRUE => job[p].hold
  BY <1>10
<1>14. job[p].k \in DOMAIN c
  BY <1>4, <1>6, <1>9
<1>15. /\ TypeOK' /\ OnlyOf(p) /\ Walks(p)'
       /\ pc'[p] \in {"walk", "build"} /\ job'[p].hold = h
       /\ job[p].k \in 0 .. Depth - 1 /\ job'[p].k = job[p].k + 1
       /\ job'[p].carry = Passed(p, job[p].k, c[job[p].k].links, job[p].carry)
       /\ cache'[p] = Built(p, c, job[p].k, job'[p].carry)
  BY <1>1, <1>2, <1>9, <1>11, <1>12, <1>14, AboveIs
<1>16. /\ job[p].k \in DOMAIN c /\ c[job[p].k].links = disk[job[p].k]
       /\ \A m : m \in DOMAIN c /\ m # job[p].k => m \in DOMAIN cache[p] /\ c[m] = cache[p][m]
  BY <1>3, <1>4, <1>6, <1>7, <1>9
<1>17. job'[p].hold => job[p].hold
  BY <1>13, <1>15
<1> QED BY <1>1, <1>9, <1>15, <1>16, <1>17

(* Build                                                                    *)
LEMMA BuildStep ==
  ASSUME TypeOK, NEW p \in Proc, Walks(p), Build(p)
  PROVE  /\ TypeOK' /\ OnlyOf(p) /\ Walks(p)'
         /\ UNCHANGED <<disk, ser, known, top, astray, recycled>> /\ pc[p] = "build"
         /\ \/ /\ job[p].n \in DOMAIN cache[p] /\ job[p].k = job[p].n /\ job[p].hold
               /\ Passed(p, job[p].n, cache[p][job[p].n].links, job[p].carry) \in [IdsOf[p] -> SUBSET Right]
               /\ cache'[p] = Built(p, cache[p], job[p].n, Passed(p, job[p].n, cache[p][job[p].n].links, job[p].carry))
               /\ pc'[p] = "act"
            \/ pc'[p] = "dead"
<1>1. UNCHANGED <<disk, ser, known, top, astray, recycled>> /\ UNCHANGED <<disk, ser, known, due, outside>> /\ pc[p] = "build"
  BY DEF Build, outside
<1>2. RestOk(p)
  BY <1>1, RestSame
<1>3. PICK a \in Cache : a = cache[p]
  BY DEF TypeOK
<1>4. PICK o \in Job : o = job[p]
  BY DEF TypeOK
<1>5. o.n \in Node /\ o.k = o.n /\ o.carry \in [IdsOf[p] -> SUBSET Right]
  BY <1>1, <1>4, JobFields DEF Walks, Walking
<1>6. "act" \in Steps /\ "dead" \in Steps
  BY DEF Steps
<1>7. CASE /\ job[p].hold /\ Goto(p, "act") /\ UNCHANGED job
           /\ cache' = [cache EXCEPT ![p] =
                          Built(p, @, job[p].n, Passed(p, job[p].n, @[job[p].n].links, job[p].carry))]
  <2>1. PICK n \in Node : n = o.n
    BY <1>5
  <2>2. n \in DOMAIN a
    BY <1>1, <1>3, <1>4, <1>7, <2>1 DEF Walks, Walking
  <2>3. a \in [DOMAIN a -> CNode]
    BY PartialIs DEF Cache
  <2>4. PICK l \in Links : l = a[n].links
    BY <2>2, <2>3 DEF CNode
  <2>5. PICK f \in Partial(Id, SUBSET Right) : f = o.carry /\ DOMAIN f = IdsOf[p]
    BY <1>5, JobFields
  <2>6. Passed(p, n, l, f) \in [IdsOf[p] -> SUBSET Right]
    BY <2>5, PassedIs
  <2>7. PICK g \in [IdsOf[p] -> SUBSET Right] : g = Passed(p, n, l, f)
    BY <2>6
  <2>8. /\ Built(p, a, n, g) \in Cache /\ DOMAIN Built(p, a, n, g) = DOMAIN a
    BY <2>2, BuiltIs
  <2>9. PICK d \in Cache : d = Built(p, a, n, g) /\ DOMAIN d = DOMAIN a
    BY <2>8
  <2>10. cache' = [cache EXCEPT ![p] = d]
    BY <1>3, <1>4, <1>7, <2>1, <2>4, <2>5, <2>7, <2>9 DEF TypeOK
  <2>11. pc' = [pc EXCEPT ![p] = "act"] /\ job' = [job EXCEPT ![p] = o]
    BY <1>4, <1>7, Itself DEF Goto
  <2>12. TypeOK' /\ OnlyOf(p) /\ pc'[p] = "act" /\ job'[p] = o /\ cache'[p] = d
    BY <1>2, <1>6, <2>10, <2>11, Moved
  <2>13. Walks(p)'
    BY <2>1, <2>2, <2>9, <2>12 DEF Walks, Walking
  <2>14. /\ job[p].n \in DOMAIN cache[p] /\ job[p].k = job[p].n /\ job[p].hold
    BY <1>3, <1>4, <1>5, <1>7, <2>1, <2>2
  <2>15. /\ Passed(p, job[p].n, cache[p][job[p].n].links, job[p].carry) \in [IdsOf[p] -> SUBSET Right]
         /\ cache'[p] = Built(p, cache[p], job[p].n, Passed(p, job[p].n, cache[p][job[p].n].links, job[p].carry))
    BY <1>3, <1>4, <2>1, <2>4, <2>5, <2>6, <2>7, <2>9, <2>12
  <2> QED BY <1>1, <2>12, <2>13, <2>14, <2>15
<1>8. CASE Goto(p, "dead") /\ Note(p, NoJob) /\ UNCHANGED cache
  <2>1. pc' = [pc EXCEPT ![p] = "dead"] /\ job' = [job EXCEPT ![p] = NoJob] /\ cache' = [cache EXCEPT ![p] = a]
    BY <1>3, <1>8, Itself DEF Goto, Note
  <2>2. TypeOK' /\ OnlyOf(p) /\ pc'[p] = "dead"
    BY <1>2, <1>6, <2>1, RequestIs, Moved
  <2> QED BY <1>1, <2>2 DEF Walks, Walking
<1> QED BY <1>7, <1>8 DEF Build

(* A request ends.                                                          *)
LEMMA Finished ==
  ASSUME TypeOK, NEW p \in Proc, NEW c \in Cache, cache' = [cache EXCEPT ![p] = c],
         Finish(p), RestOk(p)
  PROVE  TypeOK' /\ OnlyOf(p) /\ Walks(p)' /\ cache'[p] = c /\ pc'[p] = "idle"
<1>1. pc' = [pc EXCEPT ![p] = "idle"] /\ job' = [job EXCEPT ![p] = NoJob]
  BY DEF Finish, Goto, Note
<1>2. "idle" \in Steps /\ NoJob \in Job
  BY RequestIs DEF Steps
<1>3. TypeOK' /\ OnlyOf(p) /\ cache'[p] = c /\ pc'[p] = "idle"
  BY <1>1, <1>2, Moved
<1> QED BY <1>3 DEF Walks, Walking

(* Act                                                                      *)
LEMMA ActStep ==
  ASSUME TypeOK, NEW p \in Proc, Walks(p), Act(p)
  PROVE  /\ TypeOK' /\ OnlyOf(p) /\ Walks(p)'
         /\ UNCHANGED <<disk, ser, known, top, astray, recycled>> /\ pc[p] = "act"
         /\ cache'[p] \in {NoCache, cache[p]} /\ pc'[p] \in {"idle", "find", "put"}
<1>1. UNCHANGED <<disk, ser, known, top, astray, recycled>> /\ UNCHANGED <<disk, ser, known, due, outside>> /\ pc[p] = "act"
  BY DEF Act, outside
<1>2. RestOk(p)
  BY <1>1, RestSame
<1>3. PICK a \in Cache : a = cache[p]
  BY DEF TypeOK
<1>4. PICK o \in Job : o = job[p]
  BY DEF TypeOK
<1>5. PICK n \in Cache : n = NoCache
  BY RequestIs
<1>6. cache = [cache EXCEPT ![p] = a]
  BY <1>3, Itself
<1>7. CASE Finish(p) /\ (cache' = cache \/ cache' = [cache EXCEPT ![p] = NoCache])
  <2>1. PICK c \in {a, n} : cache' = [cache EXCEPT ![p] = c]
    BY <1>5, <1>6, <1>7
  <2>2. TypeOK' /\ OnlyOf(p) /\ Walks(p)' /\ cache'[p] = c /\ pc'[p] = "idle"
    BY <1>2, <1>7, <2>1, Finished
  <2> QED BY <1>1, <1>3, <1>5, <2>1, <2>2
<1>8. CASE /\ Goto(p, "find") /\ UNCHANGED cache
           /\ Note(p, [job[p] EXCEPT !.second = TRUE,
                                     !.val = IF job[p].op = "add" THEN MayGive(p, @) ELSE @])
  <2>1. o.val \in SUBSET Right
    BY JobFields
  <2>2. PICK v \in SUBSET Right : v = IF o.op = "add" THEN MayGive(p, o.val) ELSE o.val
    BY <2>1 DEF MayGive
  <2>3. PICK j \in Job : j = [o EXCEPT !.second = TRUE, !.val = v]
    BY JobAgain
  <2>4. job' = [job EXCEPT ![p] = j]
    BY <1>4, <1>8, <2>2, <2>3 DEF Note
  <2>5. pc' = [pc EXCEPT ![p] = "find"] /\ cache' = [cache EXCEPT ![p] = a] /\ "find" \in Steps
    BY <1>6, <1>8 DEF Goto, Steps
  <2>6. TypeOK' /\ OnlyOf(p) /\ pc'[p] = "find" /\ cache'[p] = a
    BY <1>2, <2>4, <2>5, Moved
  <2> QED BY <1>1, <1>3, <2>6 DEF Walks, Walking
<1>9. CASE Goto(p, "put") /\ UNCHANGED <<job, cache>>
  <2>1. pc' = [pc EXCEPT ![p] = "put"] /\ "put" \in Steps
    BY <1>9 DEF Goto, Steps, Writing
  <2>2. cache' = [cache EXCEPT ![p] = a] /\ job' = [job EXCEPT ![p] = o]
    BY <1>4, <1>6, <1>9, Itself
  <2>3. TypeOK' /\ OnlyOf(p) /\ pc'[p] = "put" /\ cache'[p] = a
    BY <1>2, <2>1, <2>2, Moved
  <2> QED BY <1>1, <1>3, <2>3 DEF Walks, Walking
<1> QED BY <1>7, <1>8, <1>9 DEF Act

(* The disk changes, the numbers do not.                                    *)
LEMMA RestDisk ==
  ASSUME TypeOK, NEW p, disk' \in [Node -> Links], UNCHANGED <<ser, known, due, outside>>
  PROVE  RestOk(p)
BY DEF TypeOK, RestOk, outside

(* The name of a link.                                                      *)
LEMMA NameIs ==
  ASSUME NEW o \in Job
  PROVE  Name(o) \in Id \cup {Zero}
BY JobFields DEF Name

(* Put                                                                      *)
LEMMA PutStep ==
  ASSUME TypeOK, NEW p \in Proc, Put(p)
  PROVE  /\ TypeOK' /\ OnlyOf(p) /\ Walks(p)'
         /\ UNCHANGED <<ser, cache, known, top, astray, recycled>> /\ pc[p] = "put"
         /\ \/ pc'[p] = "link" /\ Name(job'[p]) \notin DOMAIN disk'[job'[p].n]
            \/ pc'[p] = "read"
            \/ pc'[p] = "idle" /\ disk' = disk
<1>1. UNCHANGED <<ser, cache, known, top, astray, recycled>> /\ UNCHANGED <<ser, known, due, outside>> /\ pc[p] = "put"
  BY DEF Put, outside
<1>2. PICK o \in Job : o = job[p]
  BY DEF TypeOK
<1>3. PICK n \in Node : n = o.n
  BY JobFields
<1>4. PICK x \in Id \cup {Zero} : x = Name(o)
  BY NameIs
<1>5. PICK l \in Links : l = disk[n]
  BY DEF TypeOK
<1>6. l \in Partial(Id \cup {Zero}, SUBSET Right)
  BY DEF Links
<1>7. /\ Without(l, x) \in Partial(Id \cup {Zero}, SUBSET Right)
      /\ x \notin DOMAIN Without(l, x)
      /\ x \notin DOMAIN l => Without(l, x) = l
  BY <1>6, WithoutIs
<1>8. PICK e \in Links : e = Without(l, x)
  BY <1>7 DEF Links
<1>9. disk' = [disk EXCEPT ![n] = e]
  BY <1>2, <1>3, <1>4, <1>5, <1>8 DEF Put
<1>10. disk' \in [Node -> Links] /\ disk'[n] = e
  BY <1>9 DEF TypeOK
<1>11. RestOk(p)
  BY <1>1, <1>10, RestDisk
<1>12. PICK a \in Cache : a = cache[p]
  BY DEF TypeOK
<1>13. cache' = [cache EXCEPT ![p] = a]
  BY <1>1, <1>12, Itself
<1>14. ASSUME NEW s \in {"link", "read"}, Goto(p, s), UNCHANGED job
       PROVE  TypeOK' /\ OnlyOf(p) /\ Walks(p)' /\ pc'[p] = s /\ job'[p] = o
  <2>1. pc' = [pc EXCEPT ![p] = s] /\ s \in Steps
    BY <1>14 DEF Goto, Steps, Writing
  <2>2. job' = [job EXCEPT ![p] = o]
    BY <1>2, <1>14, Itself
  <2>3. TypeOK' /\ OnlyOf(p) /\ pc'[p] = s /\ job'[p] = o
    BY <1>11, <1>13, <2>1, <2>2, Moved
  <2> QED BY <2>3 DEF Walks, Walking
<1>15. CASE Goto(p, "link") /\ UNCHANGED job
  <2>1. TypeOK' /\ OnlyOf(p) /\ Walks(p)' /\ pc'[p] = "link" /\ job'[p] = o
    BY <1>14, <1>15
  <2>2. Name(o) \notin DOMAIN disk'[o.n]
    BY <1>3, <1>4, <1>7, <1>8, <1>10
  <2> QED BY <1>1, <2>1, <2>2
<1>16. CASE Goto(p, "read") /\ UNCHANGED job
  BY <1>1, <1>14, <1>16
<1>17. CASE Name(job[p]) \notin DOMAIN disk[job[p].n] /\ Finish(p)
  <2>1. e = l
    BY <1>2, <1>3, <1>4, <1>5, <1>7, <1>8, <1>17
  <2>2. disk' = disk
    BY <1>5, <1>9, <2>1 DEF TypeOK
  <2>3. TypeOK' /\ OnlyOf(p) /\ Walks(p)' /\ pc'[p] = "idle"
    BY <1>11, <1>13, <1>17, Finished
  <2> QED BY <1>1, <2>2, <2>3
<1> QED BY <1>15, <1>16, <1>17 DEF Put

(* Link                                                                     *)
LEMMA LinkStep ==
  ASSUME TypeOK, NEW p \in Proc, Link(p)
  PROVE  /\ TypeOK' /\ OnlyOf(p) /\ Walks(p)'
         /\ UNCHANGED <<ser, known, top, astray, recycled>> /\ pc[p] = "link"
         /\ \/ pc'[p] \in {"mark", "read"}
            \/ /\ Name(job[p]) \in DOMAIN disk[job[p].n] /\ disk' = disk
               /\ pc'[p] = "idle" /\ cache'[p] \in {NoCache, cache[p]}
<1>1. UNCHANGED <<ser, known, top, astray, recycled>> /\ UNCHANGED <<ser, known, due, outside>> /\ pc[p] = "link"
  BY DEF Link, outside
<1>2. PICK o \in Job : o = job[p]
  BY DEF TypeOK
<1>3. PICK n \in Node : n = o.n
  BY JobFields
<1>4. PICK a \in Cache : a = cache[p]
  BY DEF TypeOK
<1>5. PICK z \in Cache : z = NoCache
  BY RequestIs
<1>6. cache = [cache EXCEPT ![p] = a]
  BY <1>4, Itself
<1>7. CASE /\ disk' = [disk EXCEPT ![job[p].n] = With(@, Name(job[p]), job[p].val)]
           /\ Note(p, [job[p] EXCEPT !.k = job[p].n - 1])
           /\ Goto(p, IF job[p].op = "add" /\ job[p].n > 1 THEN "mark" ELSE "read")
           /\ UNCHANGED cache
  <2>1. PICK x \in Id \cup {Zero} : x = Name(o)
    BY NameIs
  <2>2. PICK v \in SUBSET Right : v = o.val
    BY JobFields
  <2>3. PICK l \in Partial(Id \cup {Zero}, SUBSET Right) : l = disk[n]
    BY DEF TypeOK, Links
  <2>4. With(l, x, v) \in Partial(Id \cup {Zero}, SUBSET Right)
    BY WithIs
  <2>5. PICK e \in Links : e = With(l, x, v)
    BY <2>4 DEF Links
  <2>6. disk' = [disk EXCEPT ![n] = e]
    BY <1>2, <1>3, <1>7, <2>1, <2>2, <2>3, <2>5
  <2>7. RestOk(p)
    <3>1. disk' \in [Node -> Links]
      BY <2>6 DEF TypeOK
    <3> QED BY <1>1, <3>1, RestDisk
  <2>8. PICK k \in Int : k = n - 1
    BY <1>3, TrusteeConstants DEF Node
  <2>9. PICK j \in Job : j = [o EXCEPT !.k = k]
    BY SetK
  <2>10. j.k = k
    BY <2>9 DEF Job
  <2>11. job' = [job EXCEPT ![p] = j]
    BY <1>2, <1>3, <1>7, <2>8, <2>9 DEF Note
  <2>12. PICK s \in {"mark", "read"} : s = IF o.op = "add" /\ n > 1 THEN "mark" ELSE "read"
    OBVIOUS
  <2>13. pc' = [pc EXCEPT ![p] = s] /\ s \in Steps
    BY <1>2, <1>3, <1>7, <2>12 DEF Goto, Steps, Writing
  <2>14. TypeOK' /\ OnlyOf(p) /\ pc'[p] = s /\ job'[p] = j
    BY <1>6, <1>7, <2>7, <2>11, <2>13, Moved
  <2>15. s = "mark" => j.k \in 1 .. Depth
    BY <1>3, <2>8, <2>10, <2>12, TrusteeConstants DEF Node
  <2> QED BY <1>1, <2>14, <2>15 DEF Walks, Walking
<1>8. CASE /\ Name(job[p]) \in DOMAIN disk[job[p].n] /\ Finish(p) /\ UNCHANGED disk
           /\ cache' = IF job[p].op = "add" THEN [cache EXCEPT ![p] = NoCache] ELSE cache
  <2>1. PICK c \in {a, z} : cache' = [cache EXCEPT ![p] = c]
    BY <1>5, <1>6, <1>8
  <2>2. RestOk(p)
    BY <1>1, <1>8, RestSame
  <2>3. TypeOK' /\ OnlyOf(p) /\ Walks(p)' /\ cache'[p] = c /\ pc'[p] = "idle"
    BY <1>8, <2>1, <2>2, Finished
  <2> QED BY <1>1, <1>4, <1>5, <1>8, <2>1, <2>3
<1> QED BY <1>7, <1>8 DEF Link

(* The next directory above.                                                *)
LEMMA UpwardsIs ==
  ASSUME TypeOK, NEW p \in Proc, Walks(p), pc[p] \in {"mark", "remark"}, Upwards(p),
         UNCHANGED cache, RestOk(p)
  PROVE  TypeOK' /\ OnlyOf(p) /\ Walks(p)' /\ pc'[p] \in {"mark", "read"}
<1>1. PICK o \in Job : o = job[p]
  BY DEF TypeOK
<1>2. o.k \in 1 .. Depth
  BY <1>1 DEF Walks
<1>3. PICK k \in Int : k = o.k - 1
  BY <1>2, TrusteeConstants
<1>4. PICK d \in SUBSET Right : d = {}
  OBVIOUS
<1>5. PICK j \in Job : j = [o EXCEPT !.k = k, !.old = d]
  BY JobRises
<1>6. j.k = k
  BY <1>5 DEF Job
<1>7. [o EXCEPT !.k = @ - 1, !.old = {}] = j
  BY <1>3, <1>4, <1>5
<1>8. job' = [job EXCEPT ![p] = j]
  BY <1>1, <1>7 DEF Upwards, Note
<1>9. PICK s \in {"mark", "read"} : s = IF o.k > 1 THEN "mark" ELSE "read"
  OBVIOUS
<1>10. pc' = [pc EXCEPT ![p] = s] /\ s \in Steps
  BY <1>1, <1>9 DEF Upwards, Goto, Steps, Writing
<1>11. PICK a \in Cache : a = cache[p] /\ cache' = [cache EXCEPT ![p] = a]
  BY Itself
<1>12. TypeOK' /\ OnlyOf(p) /\ pc'[p] = s /\ job'[p] = j
  BY <1>8, <1>10, <1>11, Moved
<1>13. s = "mark" => j.k \in 1 .. Depth
  BY <1>2, <1>3, <1>6, <1>9, TrusteeConstants
<1> QED BY <1>12, <1>13 DEF Walks, Walking

(* Mark                                                                     *)
LEMMA MarkStep ==
  ASSUME TypeOK, NEW p \in Proc, Walks(p), Mark(p)
  PROVE  /\ TypeOK' /\ OnlyOf(p) /\ Walks(p)'
         /\ UNCHANGED <<ser, known, top, astray, recycled>> /\ pc[p] = "mark"
         /\ pc'[p] \in {"mark", "remark", "read"}
<1>1. /\ UNCHANGED <<ser, known, top, astray, recycled>> /\ UNCHANGED <<disk, ser, known, due, outside>>
      /\ UNCHANGED cache /\ pc[p] = "mark"
  BY DEF Mark, outside
<1>2. RestOk(p)
  BY <1>1, RestSame
<1>3. PICK o \in Job : o = job[p]
  BY DEF TypeOK
<1>4. o.k \in 1 .. Depth
  BY <1>1, <1>3 DEF Walks
<1>5. CASE Upwards(p)
  BY <1>1, <1>2, <1>5, UpwardsIs
<1>6. CASE Goto(p, "remark") /\ Note(p, [job[p] EXCEPT !.old = Seen(disk[job[p].k], job[p].id)])
  <2>1. PICK n \in Node : n = o.k
    BY <1>4, TrusteeConstants DEF Node
  <2>2. PICK l \in Partial(Id \cup {Zero}, SUBSET Right) : l = disk[n]
    BY DEF TypeOK, Links
  <2>10. \A i \in DOMAIN l : l[i] \in SUBSET Right
    BY PartialIs
  <2>3. PICK d \in SUBSET Right : d = Seen(l, o.id)
    BY <2>10 DEF Seen
  <2>4. PICK j \in Job : j = [o EXCEPT !.old = d]
    BY SetOld
  <2>5. j.k = o.k
    BY <2>4 DEF Job
  <2>6. job' = [job EXCEPT ![p] = j]
    BY <1>3, <1>6, <2>1, <2>2, <2>3, <2>4 DEF Note
  <2>7. pc' = [pc EXCEPT ![p] = "remark"] /\ "remark" \in Steps
    BY <1>6 DEF Goto, Steps, Writing
  <2>8. PICK a \in Cache : a = cache[p] /\ cache' = [cache EXCEPT ![p] = a]
    BY <1>1, Itself
  <2>9. TypeOK' /\ OnlyOf(p) /\ pc'[p] = "remark" /\ job'[p] = j
    BY <1>2, <2>6, <2>7, <2>8, Moved
  <2> QED BY <1>1, <1>4, <2>5, <2>9 DEF Walks, Walking
<1> QED BY <1>5, <1>6 DEF Mark

(* Remark                                                                   *)
LEMMA RemarkStep ==
  ASSUME TypeOK, NEW p \in Proc, Walks(p), Remark(p)
  PROVE  /\ TypeOK' /\ OnlyOf(p) /\ Walks(p)'
         /\ UNCHANGED <<ser, known, top, astray, recycled>> /\ pc[p] = "remark"
         /\ pc'[p] \in {"mark", "read"}
<1>1. /\ UNCHANGED <<ser, known, top, astray, recycled>> /\ UNCHANGED <<ser, known, due, outside>>
      /\ UNCHANGED cache /\ pc[p] = "remark"
  BY DEF Remark, outside
<1>2. PICK o \in Job : o = job[p]
  BY DEF TypeOK
<1>3. o.k \in 1 .. Depth
  BY <1>1, <1>2 DEF Walks
<1>4. PICK n \in Node : n = o.k
  BY <1>3, TrusteeConstants DEF Node
<1>5. PICK x \in Id \cup {Zero} : x = o.id
  BY JobFields
<1>6. PICK v \in SUBSET Right : v = o.old \cup {"T"}
  BY JobFields DEF Right
<1>7. PICK l \in Partial(Id \cup {Zero}, SUBSET Right) : l = disk[n]
  BY DEF TypeOK, Links
<1>8. With(l, x, v) \in Partial(Id \cup {Zero}, SUBSET Right)
  BY WithIs
<1>9. PICK e \in Links : e = With(l, x, v)
  BY <1>8 DEF Links
<1>10. disk' = [disk EXCEPT ![n] = e]
  BY <1>2, <1>4, <1>5, <1>6, <1>7, <1>9 DEF Remark
<1>11. disk' \in [Node -> Links]
  BY <1>10 DEF TypeOK
<1>12. RestOk(p)
  BY <1>1, <1>11, RestDisk
<1> QED BY <1>1, <1>12, UpwardsIs DEF Remark

(* ReadSernum                                                               *)
LEMMA ReadStep ==
  ASSUME TypeOK, NEW p \in Proc, ReadSernum(p)
  PROVE  /\ TypeOK' /\ OnlyOf(p) /\ Walks(p)'
         /\ UNCHANGED <<disk, ser, cache, known, top, astray, recycled>> /\ pc[p] = "read"
         /\ pc'[p] = "drop" /\ job'[p].was = top
<1>1. /\ UNCHANGED <<disk, ser, cache, known, top, astray, recycled>>
      /\ UNCHANGED <<disk, ser, known, due, outside>> /\ pc[p] = "read"
  BY DEF ReadSernum, outside
<1>2. RestOk(p)
  BY <1>1, RestSame
<1>3. PICK o \in Job : o = job[p]
  BY DEF TypeOK
<1>4. PICK m \in Nat, w \in Nat : m = ser /\ w = top
  BY DEF TypeOK
<1>5. PICK j \in Job : j = [o EXCEPT !.num = m, !.was = w]
  BY JobNumbered
<1>6. j.was = w
  BY <1>5 DEF Job
<1>7. job' = [job EXCEPT ![p] = j]
  BY <1>3, <1>4, <1>5 DEF ReadSernum, Note
<1>8. pc' = [pc EXCEPT ![p] = "drop"] /\ "drop" \in Steps
  BY DEF ReadSernum, Goto, Steps, Writing
<1>9. PICK a \in Cache : a = cache[p] /\ cache' = [cache EXCEPT ![p] = a]
  BY <1>1, Itself
<1>10. TypeOK' /\ OnlyOf(p) /\ pc'[p] = "drop" /\ job'[p] = j
  BY <1>2, <1>7, <1>8, <1>9, Moved
<1> QED BY <1>1, <1>4, <1>6, <1>10 DEF Walks, Walking

(* DropSernum                                                               *)
LEMMA DropStep ==
  ASSUME TypeOK, NEW p \in Proc, DropSernum(p)
  PROVE  /\ TypeOK' /\ OnlyOf(p) /\ Walks(p)'
         /\ UNCHANGED <<disk, cache, known, job, top, astray, recycled>> /\ pc[p] = "drop"
         /\ ser' = 0 /\ pc'[p] = "number"
<1>1. /\ UNCHANGED <<disk, cache, known, due, job, top, astray, recycled, writes>> /\ pc[p] = "drop" /\ ser' = 0
  BY DEF DropSernum, outside
<1>2. RestOk(p)
  BY <1>1 DEF RestOk, TypeOK
<1>3. pc' = [pc EXCEPT ![p] = "number"] /\ "number" \in Steps
  BY DEF DropSernum, Goto, Steps, Writing
<1>4. PICK a \in Cache : a = cache[p] /\ cache' = [cache EXCEPT ![p] = a]
  BY <1>1, Itself
<1>5. PICK o \in Job : o = job[p] /\ job' = [job EXCEPT ![p] = o]
  BY <1>1, Itself
<1>6. TypeOK' /\ OnlyOf(p) /\ pc'[p] = "number"
  BY <1>2, <1>3, <1>4, <1>5, Moved
<1> QED BY <1>1, <1>6 DEF Walks, Walking

(* SetSernum                                                                *)
LEMMA SetStep ==
  ASSUME TypeOK, NEW p \in Proc, SetSernum(p)
  PROVE  /\ TypeOK' /\ OnlyOf(p) /\ Walks(p)'
         /\ UNCHANGED <<disk, known, recycled>> /\ pc[p] = "number"
         /\ ser' > 0 /\ ser' \in Nat /\ top' = (IF top >= ser' THEN top ELSE ser')
         /\ ~astray' => ~astray /\ ser' >= top /\ ser' > job[p].was
         /\ cache'[p] = NoCache /\ pc'[p] = "idle"
<1>1. UNCHANGED <<disk, known, due, recycled, writes>> /\ pc[p] = "number" /\ Finish(p)
  BY DEF SetSernum
<1>2. job[p].num \in Nat /\ job[p].was \in Nat
  BY DEF TypeOK, Job
<1>3. ser' \in Nat /\ ser' > 0
  BY <1>2 DEF SetSernum, TypeOK
<1>4. top' = IF top >= ser' THEN top ELSE ser'
  BY <1>3, MaxOfTwo DEF SetSernum, TypeOK
<1>5. astray' \in BOOLEAN
  BY DEF SetSernum
<1>6. ~astray' => ~astray /\ ser' >= top /\ ser' > job[p].was
  <2>1. astray' <=> (astray \/ ser' < top \/ ser' <= job[p].was)
    BY DEF SetSernum
  <2>2. ~astray' => ~astray /\ ~(ser' < top) /\ ~(ser' <= job[p].was)
    BY <2>1
  <2>3. PICK s \in Nat, t \in Nat, w \in Nat : s = ser' /\ t = top /\ w = job[p].was
    BY <1>2, <1>3 DEF TypeOK
  <2>4. (~(s < t) => s >= t) /\ (~(s <= w) => s > w)
    OBVIOUS
  <2> QED BY <2>2, <2>3, <2>4
<1>7. top' \in Nat
  BY <1>3, <1>4 DEF TypeOK
<1>8. RestOk(p)
  BY <1>1, <1>3, <1>5, <1>7 DEF RestOk, TypeOK
<1>9. PICK n \in Cache : n = NoCache
  BY RequestIs
<1>10. cache' = [cache EXCEPT ![p] = n]
  BY <1>9 DEF SetSernum
<1>11. TypeOK' /\ OnlyOf(p) /\ Walks(p)' /\ cache'[p] = n /\ pc'[p] = "idle"
  BY <1>1, <1>8, <1>10, Finished
<1> QED BY <1>1, <1>3, <1>4, <1>6, <1>9, <1>11

(* Remove                                                                   *)
LEMMA RemoveStep ==
  ASSUME TypeOK, NEW p \in Proc, Remove(p)
  PROVE  /\ TypeOK' /\ OnlyOf(p) /\ (Walks(p) => Walks(p)')
         /\ UNCHANGED <<ser, cache, known, pc, job, top, astray>> /\ recycled' = TRUE /\ pc[p] = "idle"
         /\ Depth \in Node /\ DOMAIN disk'[Depth] = {}
         /\ \A n \in Node : n # Depth => disk'[n] = disk[n]
<1>1. UNCHANGED <<ser, cache, known, due, pc, job, top, astray, writes>> /\ recycled' = TRUE /\ pc[p] = "idle"
  BY DEF Remove, local
<1>2. Depth \in Node
  BY TrusteeConstants DEF Node
<1>3. PICK e \in Links : e = NoLinks
  BY RequestIs
<1>4. DOMAIN e = {}
  BY <1>3 DEF NoLinks
<1>5. disk' = [disk EXCEPT ![Depth] = e]
  BY <1>3 DEF Remove
<1>6. /\ disk' \in [Node -> Links] /\ disk'[Depth] = e
      /\ \A n \in Node : n # Depth => disk'[n] = disk[n]
  BY <1>2, <1>5 DEF TypeOK
<1>7. TypeOK'
  BY <1>1, <1>6 DEF TypeOK
<1>8. OnlyOf(p) /\ (Walks(p) => Walks(p)')
  BY <1>1 DEF OnlyOf, Walks
<1> QED BY <1>1, <1>2, <1>4, <1>6, <1>7, <1>8

(* Login                                                                    *)
LEMMA LoginStep ==
  ASSUME TypeOK, NEW p \in Proc, Login(p)
  PROVE  /\ TypeOK' /\ OnlyOf(p) /\ Walks(p)'
         /\ UNCHANGED <<disk, ser, known, pc, job, top, astray, recycled>> /\ pc[p] = "idle"
         /\ cache'[p] = NoCache
<1>1. /\ UNCHANGED <<disk, ser, known, due, pc, job, top, astray, recycled>>
      /\ UNCHANGED <<disk, ser, known, due, outside>> /\ pc[p] = "idle"
  BY DEF Login, local, outside
<1>2. RestOk(p)
  BY <1>1, RestSame
<1>3. PICK n \in Cache : n = NoCache
  BY RequestIs
<1>4. cache' = [cache EXCEPT ![p] = n]
  BY <1>3 DEF Login
<1>5. PICK s \in Steps : s = pc[p] /\ pc' = [pc EXCEPT ![p] = s]
  BY <1>1, Itself
<1>6. PICK o \in Job : o = job[p] /\ job' = [job EXCEPT ![p] = o]
  BY <1>1, Itself
<1>7. TypeOK' /\ OnlyOf(p) /\ cache'[p] = n /\ pc'[p] = s
  BY <1>2, <1>4, <1>5, <1>6, Moved
<1> QED BY <1>1, <1>3, <1>5, <1>7 DEF Walks, Walking

(* Killed                                                                   *)
LEMMA KilledStep ==
  ASSUME TypeOK, NEW p \in Proc, Killed(p)
  PROVE  /\ TypeOK' /\ OnlyOf(p) /\ Walks(p)'
         /\ UNCHANGED <<disk, ser, top, recycled>> /\ known'[p] = 0
         /\ ~astray' => ~astray /\ pc[p] \notin Writing \ {"put"}
         /\ cache'[p] = NoCache /\ pc'[p] = "idle"
<1>1. UNCHANGED <<disk, ser, top, recycled, writes>> /\ Finish(p)
  BY DEF Killed
<1>2. known' = [known EXCEPT ![p] = 0] /\ due' = [due EXCEPT ![p] = TRUE]
  BY DEF Killed
<1>3. known' \in [Proc -> Nat] /\ known'[p] = 0 /\ \A q \in Proc \ {p} : known'[q] = known[q]
  BY <1>2 DEF TypeOK
<1>4. due' \in [Proc -> BOOLEAN]
  BY <1>2 DEF TypeOK
<1>5. astray' \in BOOLEAN
  BY DEF Killed
<1>6. ~astray' => ~astray /\ pc[p] \notin Writing \ {"put"}
  BY DEF Killed, TypeOK
<1>7. RestOk(p)
  BY <1>1, <1>3, <1>4, <1>5 DEF RestOk, TypeOK
<1>8. PICK n \in Cache : n = NoCache
  BY RequestIs
<1>9. cache' = [cache EXCEPT ![p] = n]
  BY <1>8 DEF Killed
<1>10. TypeOK' /\ OnlyOf(p) /\ Walks(p)' /\ cache'[p] = n /\ pc'[p] = "idle"
  BY <1>1, <1>7, <1>9, Finished
<1> QED BY <1>1, <1>3, <1>6, <1>8, <1>10

-----------------------------------------------------------------------------
(* Rights                                                                   *)

(* Held, a node further down.                                               *)
LEMMA HeldStep ==
  ASSUME NEW i, NEW n \in Nat
  PROVE  Held(i, n) = IF i \in DOMAIN disk[n] THEN disk[n][i]
                      ELSE IF n = 0 THEN {} ELSE Held(i, n - 1) \cap MaskOf(disk[n])
<1> DEFINE G(m) == {j \in 0 .. m : i \in DOMAIN disk[j]}
<1>1. \A m \in Nat : G(m) # {} => Max(G(m)) \in G(m) /\ \A u \in G(m) : u <= Max(G(m))
  <2>1. SUFFICES ASSUME NEW m \in Nat, G(m) # {}
                 PROVE  Max(G(m)) \in G(m) /\ \A u \in G(m) : u <= Max(G(m))
    OBVIOUS
  <2>2. G(m) \in SUBSET (0 .. m)
    OBVIOUS
  <2> HIDE DEF G
  <2> QED BY <2>1, <2>2, MaxIs
<1>2. Held(i, n) = IF G(n) = {} THEN {}
                   ELSE {r \in disk[Max(G(n))][i] : \A j \in (Max(G(n)) + 1) .. n : r \in MaskOf(disk[j])}
  BY DEF Held
<1>3. Held(i, n - 1) = IF G(n - 1) = {} THEN {}
                       ELSE {r \in disk[Max(G(n - 1))][i] : \A j \in (Max(G(n - 1)) + 1) .. (n - 1) : r \in MaskOf(disk[j])}
  BY DEF Held
<1>4. CASE i \in DOMAIN disk[n]
  <2>1. n \in G(n)
    BY <1>4
  <2>2. Max(G(n)) \in G(n) /\ n <= Max(G(n))
    BY <1>1, <2>1
  <2>3. \A u \in G(n) : u \in 0 .. n
    OBVIOUS
  <2> HIDE DEF G
  <2>4. Max(G(n)) = n
    BY <2>2, <2>3
  <2>5. G(n) # {} /\ (n + 1) .. n = {}
    BY <2>1
  <2>6. Held(i, n) = {r \in disk[n][i] : \A j \in (n + 1) .. n : r \in MaskOf(disk[j])}
    BY <1>2, <2>4, <2>5
  <2>7. Held(i, n) = disk[n][i]
    BY <2>5, <2>6
  <2> QED BY <1>4, <2>7
<1>5. CASE i \notin DOMAIN disk[n] /\ n = 0
  <2>1. G(n) = {}
    BY <1>5
  <2> HIDE DEF G
  <2> QED BY <1>2, <1>5, <2>1
<1>6. CASE i \notin DOMAIN disk[n] /\ n # 0
  <2>1. n - 1 \in Nat
    BY <1>6
  <2>2. G(n) = G(n - 1)
    BY <1>6
  <2>3. \A u \in G(n - 1) : u \in 0 .. n - 1
    OBVIOUS
  <2>4. CASE G(n - 1) = {}
    <3> HIDE DEF G
    <3>1. Held(i, n) = {} /\ Held(i, n - 1) = {}
      BY <1>2, <1>3, <2>2, <2>4
    <3> QED BY <1>6, <3>1
  <2>5. CASE G(n - 1) # {}
    <3>1. Max(G(n - 1)) \in 0 .. n - 1
      BY <1>1, <2>1, <2>3, <2>5
    <3> HIDE DEF G
    <3>2. PICK m \in 0 .. n - 1 : m = Max(G(n - 1))
      BY <3>1
    <3>3. Held(i, n) = {r \in disk[m][i] : \A j \in (m + 1) .. n : r \in MaskOf(disk[j])}
      BY <1>2, <2>2, <2>5, <3>2
    <3>4. Held(i, n - 1) = {r \in disk[m][i] : \A j \in (m + 1) .. (n - 1) : r \in MaskOf(disk[j])}
      BY <1>3, <2>5, <3>2
    <3>5. (m + 1) .. n = (m + 1) .. (n - 1) \cup {n}
      OBVIOUS
    <3>6. Held(i, n) = Held(i, n - 1) \cap MaskOf(disk[n])
      BY <3>3, <3>4, <3>5
    <3> QED BY <1>6, <3>6
  <2> QED BY <2>4, <2>5
<1> QED BY <1>4, <1>5, <1>6

(* What is held at a node depends on the nodes down to it.                  *)
LEMMA HeldSame ==
  ASSUME NEW i, NEW n \in Nat, \A j \in 0 .. n : disk'[j] = disk[j]
  PROVE  Held(i, n)' = Held(i, n)
<1> DEFINE G == {j \in 0 .. n : i \in DOMAIN disk[j]}
<1>1. Held(i, n) = IF G = {} THEN {}
                   ELSE {r \in disk[Max(G)][i] : \A j \in (Max(G) + 1) .. n : r \in MaskOf(disk[j])}
  BY DEF Held
<1>2. {j \in 0 .. n : i \in DOMAIN disk'[j]} = G
  OBVIOUS
<1> DEFINE H == {j \in 0 .. n : i \in DOMAIN disk'[j]}
<1>3. Held(i, n)' = IF H = {} THEN {}
                    ELSE {r \in disk'[Max(H)][i] : \A j \in (Max(H) + 1) .. n : r \in MaskOf(disk'[j])}
  BY DEF Held
<1>4. CASE G = {}
  BY <1>1, <1>2, <1>3, <1>4
<1>5. CASE G # {}
  <2>1. G \in SUBSET (0 .. n)
    OBVIOUS
  <2> HIDE DEF G
  <2>2. PICK m \in 0 .. n : m = Max(G)
    BY <1>5, <2>1, MaxIs
  <2>3. \A j \in (m + 1) .. n : disk'[j] = disk[j]
    OBVIOUS
  <2>4. disk'[m] = disk[m]
    OBVIOUS
  <2> HIDE DEF H
  <2>5. H = G
    BY <1>2 DEF H
  <2>6. Held(i, n) = {r \in disk[m][i] : \A j \in (m + 1) .. n : r \in MaskOf(disk[j])}
    BY <1>1, <1>5, <2>2
  <2>7. Held(i, n)' = {r \in disk'[m][i] : \A j \in (m + 1) .. n : r \in MaskOf(disk'[j])}
    BY <1>3, <1>5, <2>2, <2>5
  <2>8. Held(i, n)' = {r \in disk[m][i] : \A j \in (m + 1) .. n : r \in MaskOf(disk[j])}
    BY <2>3, <2>4, <2>7
  <2> QED BY <2>6, <2>8
<1> QED BY <1>4, <1>5

-----------------------------------------------------------------------------
(* The inductive invariant                                                  *)

(* What p has changed, or is about to change, it will announce: it has not   *)
(* yet come to the serial number, or has read the highest one there is.      *)
Announces(p) ==
  \/ pc[p] \in {"mark", "remark", "read"}
  \/ pc[p] = "link" /\ Name(job[p]) \notin DOMAIN disk[job[p].n]
  \/ pc[p] \in {"drop", "number"} /\ job[p].was = top

Settled == ~astray /\ \A p \in Proc : ~Announces(p)

(* The inode that belongs to another file now.                              *)
Lost == IF recycled THEN {Depth} ELSE {}

(* A node in memory is that on the disk.                                    *)
AtNode(p, n) == cache[p][n].links = disk[n] /\ (cache[p][n].built => cache[p][n].eff = Rights(p, n))
Agrees(p) == \A n \in DOMAIN cache[p] \ Lost : AtNode(p, n)

(* What a walk takes down is what is held above.                            *)
Carries(p) ==
  pc[p] \in Walking /\ job[p].k > 0 => \A i \in IdsOf[p] : job[p].carry[i] = Held(i, job[p].k - 1)

Fresh(p) == Settled /\ known[p] = top /\ ~Doomed(p) => Agrees(p) /\ Carries(p)

(* As long as nothing went astray the serial number is the highest one,      *)
(* except between its removal and its return.                               *)
Numbers ==
  /\ ser <= top /\ \A p \in Proc : known[p] <= top
  /\ ~astray => ser \in {0, top}
  /\ ser = 0 /\ ~astray => top = 0 \/ \E p \in Proc : pc[p] = "number"
  /\ \A p \in Proc : pc[p] \in {"drop", "number"} => job[p].was <= top

Inv == Structure /\ Numbers /\ \A p \in Proc : Fresh(p)

(* A step after which nothing is to be announced: it found that so, and      *)
(* changed nothing but lost nodes; or its number is new to everybody.        *)
Calm ==
  Settled' =>
    \/ /\ Settled /\ top' = top /\ (recycled => recycled')
       /\ \A n \in Node : n \notin Lost' => disk'[n] = disk[n]
    \/ \A q \in Proc : known[q] < top'

(* A disk that stays holds the same.                                        *)
LEMMA SameHeld ==
  ASSUME UNCHANGED disk
  PROVE  /\ \A i : \A n \in Nat : Held(i, n)' = Held(i, n)
         /\ \A q \in Proc : \A n \in Nat : Rights(q, n)' = Rights(q, n)
<1>1. ASSUME NEW i, NEW n \in Nat PROVE Held(i, n)' = Held(i, n)
  <2>1. \A j \in 0 .. n : disk'[j] = disk[j]
    OBVIOUS
  <2> QED BY <2>1, HeldSame
<1>2. ASSUME NEW q \in Proc, NEW n \in Nat PROVE Rights(q, n)' = Rights(q, n)
  BY <1>1, <1>2 DEF Rights
<1> QED BY <1>1, <1>2

(* The nodes that are not lost hold the same, those above the file do.      *)
LEMMA HeldStays ==
  ASSUME NEW n \in Node, n \notin Lost' \/ n < Depth,
         \A m \in Node : m \notin Lost' => disk'[m] = disk[m]
  PROVE  /\ \A i : Held(i, n)' = Held(i, n)
         /\ \A q \in Proc : Rights(q, n)' = Rights(q, n)
<1>1. n \in Nat /\ Depth \in Nat /\ n <= Depth
  BY TrusteeConstants DEF Node
<1>2. \A j \in 0 .. n : disk'[j] = disk[j]
  <2>1. SUFFICES ASSUME NEW j \in 0 .. n PROVE j \in Node /\ j \notin Lost'
    OBVIOUS
  <2>2. j \in Node
    BY <1>1 DEF Node
  <2>3. CASE j = n /\ n \notin Lost'
    BY <2>2, <2>3
  <2>4. CASE j # n \/ n < Depth
    <3>1. j # Depth
      BY <1>1, <2>4
    <3> QED BY <2>2, <3>1 DEF Lost
  <2> QED BY <2>3, <2>4
<1>3. \A i : Held(i, n)' = Held(i, n)
  BY <1>1, <1>2, HeldSame
<1> QED BY <1>3 DEF Rights

(* What agrees still does.                                                  *)
LEMMA AgreesStays ==
  ASSUME NEW q \in Proc, cache'[q] = cache[q], DOMAIN cache[q] \in SUBSET Node,
         recycled => recycled', \A m \in Node : m \notin Lost' => disk'[m] = disk[m],
         Agrees(q)
  PROVE  Agrees(q)'
<1>1. SUFFICES ASSUME NEW n \in DOMAIN cache[q], n \notin Lost' PROVE AtNode(q, n)'
  BY DEF Agrees
<1>2. n \in Node /\ n \notin Lost
  BY <1>1 DEF Lost
<1>3. AtNode(q, n)
  BY <1>2 DEF Agrees
<1>4. disk'[n] = disk[n]
  BY <1>1, <1>2
<1>5. Rights(q, n)' = Rights(q, n)
  BY <1>1, <1>2, HeldStays
<1> QED BY <1>3, <1>4, <1>5 DEF AtNode

(* So does a walk that waits.                                               *)
LEMMA CarriesStays ==
  ASSUME TypeOK, NEW q \in Proc, pc'[q] = pc[q], job'[q] = job[q], Walks(q),
         \A m \in Node : m \notin Lost' => disk'[m] = disk[m], Carries(q)
  PROVE  Carries(q)'
<1>1. SUFFICES ASSUME pc[q] \in Walking, job[q].k > 0
               PROVE  \A i \in IdsOf[q] : job[q].carry[i] = Held(i, job[q].k - 1)'
  BY DEF Carries
<1>2. job[q].n \in Node /\ job[q].k \in Int
  BY DEF TypeOK, Job
<1>3. job[q].k <= job[q].n
  BY <1>1, <1>2, TrusteeConstants DEF Walks, Walking, Node
<1>4. job[q].k - 1 \in Node /\ job[q].k - 1 < Depth
  BY <1>1, <1>2, <1>3, TrusteeConstants DEF Node
<1>5. \A i : Held(i, job[q].k - 1)' = Held(i, job[q].k - 1)
  <2>1. PICK n \in Node : n = job[q].k - 1
    BY <1>4
  <2>2. \A i : Held(i, n)' = Held(i, n)
    BY <1>4, <2>1, HeldStays
  <2>3. \A i : Held(i, job[q].k - 1) = Held(i, n)
    BY <2>1
  <2>4. n = job'[q].k - 1
    BY <2>1
  <2>5. \A i : Held(i, job[q].k - 1)' = Held(i, n)'
    BY <2>1, <2>4
  <2> QED BY <2>2, <2>3, <2>5
<1>6. \A i \in IdsOf[q] : job[q].carry[i] = Held(i, job[q].k - 1)
  BY <1>1 DEF Carries
<1> QED BY <1>5, <1>6

(* The other processes stay fresh.                                          *)
LEMMA OthersFresh ==
  ASSUME Inv, NEW p \in Proc, NEW q \in Proc, q # p, OnlyOf(p), TypeOK', Calm
  PROVE  Fresh(q)'
<1>1. SUFFICES ASSUME Settled', known'[q] = top', ~Doomed(q)'
               PROVE  Agrees(q)' /\ Carries(q)'
  BY DEF Fresh
<1>2. cache'[q] = cache[q] /\ known'[q] = known[q] /\ pc'[q] = pc[q] /\ job'[q] = job[q]
  BY DEF OnlyOf
<1>3. ~(\A r \in Proc : known[r] < top')
  BY <1>1, <1>2 DEF Inv, Structure, TypeOK
<1>4. /\ Settled /\ top' = top /\ (recycled => recycled')
      /\ \A n \in Node : n \notin Lost' => disk'[n] = disk[n]
  BY <1>1, <1>3 DEF Calm
<1>5. ~Doomed(q)
  BY <1>1, <1>2 DEF Doomed
<1>6. Agrees(q) /\ Carries(q)
  BY <1>1, <1>2, <1>4, <1>5 DEF Inv, Fresh
<1>7. TypeOK /\ Walks(q)
  BY DEF Inv, Structure
<1>8. DOMAIN cache[q] \in SUBSET Node
  <2>1. cache[q] \in Partial(Node, CNode)
    BY <1>7 DEF TypeOK, Cache
  <2> QED BY <2>1, PartialIs
<1>9. Agrees(q)'
  BY <1>2, <1>4, <1>6, <1>8, AgreesStays
<1>10. Carries(q)'
  BY <1>2, <1>4, <1>6, <1>7, CarriesStays
<1> QED BY <1>9, <1>10

(* A step that keeps what p is responsible for keeps the invariant.         *)
LEMMA Assembled ==
  ASSUME Inv, NEW p \in Proc, TypeOK', OnlyOf(p), Walks(p)', Numbers', Calm, Fresh(p)'
  PROVE  Inv'
<1>1. \A q \in Proc : q # p => Fresh(q)'
  BY OthersFresh
<1>2. \A q \in Proc : q # p => Walks(q)'
  BY DEF Inv, Structure, OnlyOf, Walks
<1>3. Structure'
  BY <1>2 DEF Structure
<1> QED BY <1>1, <1>3 DEF Inv

(* A step without announcements.                                            *)
LEMMA CalmStep ==
  ASSUME NEW p \in Proc, OnlyOf(p), ~Announces(p), UNCHANGED <<disk, top, recycled>>, ~astray' => ~astray
  PROVE  Calm
<1>1. ASSUME Settled' PROVE Settled
  <2>1. ~astray
    BY <1>1 DEF Settled
  <2>2. \A q \in Proc : q # p => (Announces(q) <=> Announces(q)')
    BY DEF OnlyOf, Announces
  <2> QED BY <1>1, <2>1, <2>2 DEF Settled
<1> QED BY <1>1 DEF Calm

(* A step that has to be announced.                                         *)
LEMMA LoudStep ==
  ASSUME NEW p \in Proc, Announces(p)'
  PROVE  Calm /\ Fresh(p)'
BY DEF Calm, Settled, Fresh

(* The numbers, while the serial number is only read.                       *)
LEMMA NumbersKept ==
  ASSUME Inv, NEW p \in Proc, TypeOK', OnlyOf(p), UNCHANGED <<ser, top>>,
         ~astray' => ~astray /\ pc[p] # "number", known'[p] <= top,
         pc'[p] \in {"drop", "number"} => job'[p].was <= top
  PROVE  Numbers'
<1>1. ser' <= top' /\ \A q \in Proc : known'[q] <= top'
  BY DEF Inv, Numbers, OnlyOf
<1>2. ~astray' => ser' \in {0, top'}
  BY DEF Inv, Numbers
<1>3. \A q \in Proc : pc'[q] \in {"drop", "number"} => job'[q].was <= top'
  BY DEF Inv, Numbers, OnlyOf
<1>4. ser' = 0 /\ ~astray' => top' = 0 \/ \E q \in Proc : pc'[q] = "number"
  <2>1. SUFFICES ASSUME ser = 0, ~astray, pc[p] # "number", top # 0
                 PROVE  \E q \in Proc : pc'[q] = "number"
    OBVIOUS
  <2>2. PICK q \in Proc : pc[q] = "number"
    BY <2>1 DEF Inv, Numbers
  <2>3. pc'[q] = "number"
    BY <2>1, <2>2 DEF OnlyOf
  <2> QED BY <2>3
<1> QED BY <1>1, <1>2, <1>3, <1>4 DEF Numbers

(* An empty cache agrees with everything.                                   *)
LEMMA EmptyFresh ==
  ASSUME NEW p \in Proc, cache'[p] = NoCache, pc'[p] \notin Walking
  PROVE  Fresh(p)'
BY RequestIs DEF Fresh, Agrees, Carries

(* So does a cache that stays, once p walks no more.                        *)
LEMMA StillFresh ==
  ASSUME Inv, NEW p \in Proc, UNCHANGED <<disk, top, recycled>>, Settled' => Settled,
         cache'[p] = cache[p], known'[p] = known[p], ~Doomed(p)' => ~Doomed(p),
         pc'[p] \in Walking => job'[p].k = 0
  PROVE  Fresh(p)'
<1>1. SUFFICES ASSUME Settled', known'[p] = top', ~Doomed(p)'
               PROVE  Agrees(p)' /\ Carries(p)'
  BY DEF Fresh
<1>2. Agrees(p)
  BY <1>1 DEF Inv, Fresh
<1>3. DOMAIN cache[p] \in SUBSET Node
  <2>1. cache[p] \in Partial(Node, CNode)
    BY DEF Inv, Structure, TypeOK, Cache
  <2> QED BY <2>1, PartialIs
<1>4. Agrees(p)'
  BY <1>2, <1>3, AgreesStays
<1>5. Carries(p)'
  BY DEF Carries
<1> QED BY <1>4, <1>5

-----------------------------------------------------------------------------
(* Every step keeps it                                                      *)

(* A process that reads or builds has nothing to announce.                  *)
LEMMA NothingToAnnounce ==
  ASSUME NEW p, pc[p] \in {"idle", "find", "load", "walk", "above", "build", "act", "dead", "put"}
  PROVE  ~Announces(p)
BY DEF Announces

(* The numbers of the invariant.                                            *)
LEMMA NumberTypes ==
  ASSUME Inv, NEW p \in Proc
  PROVE  TypeOK /\ Walks(p) /\ ser \in Nat /\ top \in Nat /\ ser <= top /\ known[p] <= top /\ 0 <= top
BY DEF Inv, Structure, TypeOK, Numbers

(* A request begins: its process has nothing to announce.                   *)
LEMMA BeginKeeps ==
  ASSUME Inv, NEW p \in Proc, NEW r \in Requests, Begin(p, r)
  PROVE  Inv'
<1>1. TypeOK /\ known[p] <= top
  BY NumberTypes
<1>2. /\ TypeOK' /\ OnlyOf(p) /\ Walks(p)'
      /\ UNCHANGED <<disk, ser, cache, known, top, astray, recycled>>
      /\ pc[p] = "idle" /\ pc'[p] \in {"find", "put"}
  BY <1>1, BeginStep
<1>3. ~Announces(p)
  BY <1>2, NothingToAnnounce
<1>4. Calm
  BY <1>2, <1>3, CalmStep
<1>5. Numbers'
  BY <1>1, <1>2, NumbersKept
<1>6. Settled' => Settled
  BY <1>2, <1>3 DEF Settled, Announces, OnlyOf
<1>7. Fresh(p)'
  BY <1>2, <1>6, StillFresh DEF Doomed, Walking
<1> QED BY <1>2, <1>4, <1>5, <1>7, Assembled

(* The cache is emptied when its number is old, and agrees otherwise.       *)
LEMMA FindKeeps ==
  ASSUME Inv, NEW p \in Proc, Find(p)
  PROVE  Inv'
<1>1. TypeOK /\ known[p] <= top /\ ser <= top
  BY NumberTypes
<1>2. /\ TypeOK' /\ OnlyOf(p) /\ Walks(p)'
      /\ UNCHANGED <<disk, ser, top, astray, recycled>> /\ pc[p] = "find"
      /\ \/ cache'[p] = NoCache /\ known'[p] = ser
         \/ cache'[p] = cache[p] /\ known'[p] = known[p]
      /\ pc'[p] \in {"idle", "load", "act", "walk", "build"}
      /\ pc'[p] \in Walking => job'[p].k = 0
  BY <1>1, FindStep
<1>3. ~Announces(p)
  BY <1>2, NothingToAnnounce
<1>4. Calm
  BY <1>2, <1>3, CalmStep
<1>5. Numbers'
  BY <1>1, <1>2, NumbersKept
<1>6. Settled' => Settled
  BY <1>2, <1>3 DEF Settled, Announces, OnlyOf
<1>7. CASE cache'[p] = NoCache
  <2>1. Carries(p)'
    BY <1>1, <1>2 DEF Carries, Walking
  <2>2. Agrees(p)'
    BY <1>7, RequestIs DEF Agrees
  <2> QED BY <1>2, <1>4, <1>5, <2>1, <2>2, Assembled DEF Fresh
<1>8. CASE cache'[p] = cache[p] /\ known'[p] = known[p]
  <2>1. ~Doomed(p)
    BY <1>2 DEF Doomed
  <2>2. Fresh(p)'
    BY <1>2, <1>6, <1>8, <2>1, StillFresh
  <2> QED BY <1>2, <1>4, <1>5, <2>2, Assembled
<1> QED BY <1>2, <1>7, <1>8

(* A node comes from the disk.                                              *)
LEMMA LoadKeeps ==
  ASSUME Inv, NEW p \in Proc, Load(p)
  PROVE  Inv'
<1>1. TypeOK /\ known[p] <= top
  BY NumberTypes
<1>2. /\ TypeOK' /\ OnlyOf(p) /\ Walks(p)'
      /\ UNCHANGED <<disk, ser, known, top, astray, recycled>> /\ pc[p] = "load"
      /\ pc'[p] \in {"idle", "walk", "build"}
      /\ pc'[p] \in Walking => job'[p].k = 0
  BY <1>1, LoadStep
<1>3. PICK n \in Node : /\ cache'[p][n].links = disk[n] /\ cache'[p][n].built = FALSE
                        /\ \A m : m \in DOMAIN cache'[p] /\ m # n => m \in DOMAIN cache[p] /\ cache'[p][m] = cache[p][m]
  BY <1>1, LoadStep
<1>4. ~Announces(p)
  BY <1>2, NothingToAnnounce
<1>5. Calm
  BY <1>2, <1>4, CalmStep
<1>6. Numbers'
  BY <1>1, <1>2, NumbersKept
<1>7. Settled' => Settled
  BY <1>2, <1>4 DEF Settled, Announces, OnlyOf
<1>8. ASSUME Settled', known'[p] = top' PROVE Agrees(p)'
  <2>1. ~Doomed(p)
    BY <1>2 DEF Doomed
  <2>2. Agrees(p)
    BY <1>2, <1>7, <1>8, <2>1 DEF Inv, Fresh
  <2>3. DOMAIN cache[p] \in SUBSET Node
    BY <1>1, PartialIs DEF TypeOK, Cache
  <2>4. SUFFICES ASSUME NEW m \in DOMAIN cache'[p], m \notin Lost' PROVE AtNode(p, m)'
    BY DEF Agrees
  <2>5. CASE m = n
    BY <1>2, <1>3, <2>5 DEF AtNode
  <2>6. CASE m # n
    <3>1. m \in DOMAIN cache[p] /\ cache'[p][m] = cache[p][m] /\ m \in Nat
      BY <1>3, <2>3, <2>6 DEF Node
    <3>2. AtNode(p, m)
      BY <1>2, <2>2, <2>4, <3>1 DEF Agrees, Lost
    <3>3. Rights(p, m)' = Rights(p, m)
      BY <1>2, <3>1, SameHeld
    <3> QED BY <1>2, <3>1, <3>2, <3>3 DEF AtNode
  <2> QED BY <2>5, <2>6
<1>9. Carries(p)'
  BY <1>2 DEF Carries
<1>10. Fresh(p)'
  BY <1>8, <1>9 DEF Fresh
<1> QED BY <1>2, <1>5, <1>6, <1>10, Assembled

(* The rights built at a node are those held there.                         *)
LEMMA PassedHeld ==
  ASSUME NEW p \in Proc, NEW n \in Node, NEW f,
         n # 0 => \A i \in IdsOf[p] : f[i] = Held(i, n - 1)
  PROVE  /\ Passed(p, n, disk[n], f) = [i \in IdsOf[p] |-> Held(i, n)]
         /\ Union(Passed(p, n, disk[n], f)) = Rights(p, n)
<1>1. n \in Nat
  BY TrusteeConstants DEF Node
<1>2. PICK g : g = Passed(p, n, disk[n], f)
  OBVIOUS
<1>3. g = [i \in IdsOf[p] |-> IF i \in DOMAIN disk[n] THEN disk[n][i]
                             ELSE IF n = 0 THEN {} ELSE f[i] \cap MaskOf(disk[n])]
  BY <1>2 DEF Passed
<1>4. ASSUME NEW i \in IdsOf[p] PROVE g[i] = Held(i, n)
  <2>1. Held(i, n) = IF i \in DOMAIN disk[n] THEN disk[n][i]
                     ELSE IF n = 0 THEN {} ELSE Held(i, n - 1) \cap MaskOf(disk[n])
    BY <1>1, HeldStep
  <2>2. g[i] = IF i \in DOMAIN disk[n] THEN disk[n][i]
               ELSE IF n = 0 THEN {} ELSE f[i] \cap MaskOf(disk[n])
    BY <1>3
  <2>3. CASE n = 0
    BY <2>1, <2>2, <2>3
  <2>4. CASE n # 0
    BY <2>1, <2>2, <2>4
  <2> QED BY <2>3, <2>4
<1>5. DOMAIN g = IdsOf[p]
  BY <1>3
<1>6. Union(g) = Rights(p, n)
  BY <1>4, <1>5 DEF Union, Rights
<1>7. g = [i \in IdsOf[p] |-> Held(i, n)]
  BY <1>3, <1>4
<1> QED BY <1>2, <1>6, <1>7

(* A node of a cache that agrees is built from what is held above it.       *)
LEMMA BuiltAgrees ==
  ASSUME TypeOK, NEW p \in Proc, NEW c \in Cache, NEW n \in DOMAIN c, UNCHANGED <<disk, recycled>>,
         NEW f,
         n \notin Lost =>
           /\ c[n].links = disk[n]
           /\ n # 0 => \A i \in IdsOf[p] : f[i] = Held(i, n - 1),
         \A m : m \in DOMAIN c /\ m # n =>
                  m \in Lost \/ (c[m].links = disk[m] /\ (c[m].built => c[m].eff = Rights(p, m))),
         Passed(p, n, c[n].links, f) \in [IdsOf[p] -> SUBSET Right],
         cache'[p] = Built(p, c, n, Passed(p, n, c[n].links, f))
  PROVE  Agrees(p)'
<1>1. PICK g \in [IdsOf[p] -> SUBSET Right] : g = Passed(p, n, c[n].links, f)
  OBVIOUS
<1>2. PICK d : d = Built(p, c, n, g)
  OBVIOUS
<1>3. /\ DOMAIN d = DOMAIN c
      /\ \A m : m \in DOMAIN c /\ m # n => d[m] = c[m]
      /\ d[n].links = c[n].links
      /\ d[n].eff = Union(g)
  BY <1>2, BuiltIs
<1>4. cache'[p] = d
  BY <1>1, <1>2
<1>5. DOMAIN c \in SUBSET Node
  BY PartialIs DEF Cache
<1>6. SUFFICES ASSUME NEW m \in DOMAIN d, m \notin Lost PROVE AtNode(p, m)'
  BY <1>4 DEF Agrees, Lost
<1>7. m \in Nat /\ m \in Node /\ Rights(p, m)' = Rights(p, m)
  <2>1. m \in Node /\ m \in Nat
    BY <1>3, <1>5, <1>6 DEF Node
  <2> QED BY <2>1, SameHeld
<1>8. CASE m = n
  <2>1. c[n].links = disk[n] /\ (n # 0 => \A i \in IdsOf[p] : f[i] = Held(i, n - 1))
    BY <1>6, <1>8
  <2>2. Union(Passed(p, n, disk[n], f)) = Rights(p, n)
    BY <1>7, <1>8, <2>1, PassedHeld
  <2>3. Union(g) = Rights(p, n)
    BY <1>1, <2>1, <2>2
  <2> QED BY <1>3, <1>4, <1>7, <1>8, <2>1, <2>3 DEF AtNode
<1>9. CASE m # n
  <2>1. m \in DOMAIN c /\ d[m] = c[m]
    BY <1>3, <1>6, <1>9
  <2>2. c[m].links = disk[m] /\ (c[m].built => c[m].eff = Rights(p, m))
    BY <1>6, <1>9, <2>1
  <2> QED BY <1>4, <1>7, <2>1, <2>2 DEF AtNode
<1> QED BY <1>8, <1>9

(* A walk that goes on from a cache that agrees is fresh.                   *)
LEMMA WalkFresh ==
  ASSUME Inv, NEW p \in Proc, NEW c \in Cache, UNCHANGED <<disk, recycled>>,
         job[p].k \in DOMAIN c, job[p].k \in 0 .. Depth - 1,
         c[job[p].k].links = disk[job[p].k],
         \A m : m \in DOMAIN c /\ m # job[p].k =>
                  m \in Lost \/ (c[m].links = disk[m] /\ (c[m].built => c[m].eff = Rights(p, m))),
         pc[p] \in Walking, Carries(p),
         Walks(p)', pc'[p] \in Walking, job'[p].k = job[p].k + 1,
         job'[p].carry = Passed(p, job[p].k, c[job[p].k].links, job[p].carry),
         cache'[p] = Built(p, c, job[p].k, job'[p].carry)
  PROVE  Agrees(p)' /\ Carries(p)'
<1>1. PICK n \in Node : n = job[p].k
  BY TrusteeConstants DEF Node
<1>2. n \in Nat /\ n \in DOMAIN c /\ c[n].links = disk[n]
  BY <1>1, TrusteeConstants DEF Node
<1>3. PICK f : f = job[p].carry
  OBVIOUS
<1>4. n # 0 => \A i \in IdsOf[p] : f[i] = Held(i, n - 1)
  BY <1>1, <1>2, <1>3 DEF Carries
<1>5. PICK g : g = Passed(p, n, c[n].links, f)
  OBVIOUS
<1>6. job'[p].carry = g /\ g \in [IdsOf[p] -> SUBSET Right] /\ cache'[p] = Built(p, c, n, g)
  BY <1>1, <1>3, <1>5 DEF Walks, Walking
<1>7. \A i \in IdsOf[p] : g[i] = Held(i, n)
  <2>1. Passed(p, n, disk[n], f) = [i \in IdsOf[p] |-> Held(i, n)]
    BY <1>4, PassedHeld
  <2>2. g = [i \in IdsOf[p] |-> Held(i, n)]
    BY <1>2, <1>5, <2>1
  <2> QED BY <2>2
<1>8. Carries(p)'
  <2>1. job'[p].k - 1 = n
    BY <1>1, <1>2
  <2>2. \A i : Held(i, n)' = Held(i, n)
    BY <1>2, SameHeld
  <2>3. \A i : Held(i, job[p].k - 1)' = Held(i, n)'
    BY <2>1
  <2> QED BY <1>6, <1>7, <2>2, <2>3 DEF Carries
<1>9. TypeOK
  BY NumberTypes
<1>10. \A m : m \in DOMAIN c /\ m # n =>
                m \in Lost \/ (c[m].links = disk[m] /\ (c[m].built => c[m].eff = Rights(p, m)))
  BY <1>1
<1>11. Passed(p, n, c[n].links, f) \in [IdsOf[p] -> SUBSET Right] /\ cache'[p] = Built(p, c, n, Passed(p, n, c[n].links, f))
  BY <1>5, <1>6
<1>12. Agrees(p)'
  BY <1>2, <1>4, <1>9, <1>10, <1>11, BuiltAgrees
<1> QED BY <1>8, <1>12

(* A node above is built from what is carried.                              *)
LEMMA WalkKeeps ==
  ASSUME Inv, NEW p \in Proc, Walk(p)
  PROVE  Inv'
<1>1. TypeOK /\ Walks(p) /\ known[p] <= top /\ ser <= top
  BY NumberTypes
<1>2. /\ TypeOK' /\ OnlyOf(p) /\ Walks(p)'
      /\ UNCHANGED <<disk, ser, top, astray, recycled>> /\ pc[p] = "walk"
      /\ \/ /\ known'[p] = known[p] /\ job[p].k \in 0 .. Depth - 1 /\ job[p].k \in DOMAIN cache[p]
            /\ pc'[p] \in {"walk", "build"} /\ job'[p].hold = job[p].hold /\ job'[p].k = job[p].k + 1
            /\ job'[p].carry = Passed(p, job[p].k, cache[p][job[p].k].links, job[p].carry)
            /\ cache'[p] = Built(p, cache[p], job[p].k, job'[p].carry)
         \/ known'[p] = ser /\ pc'[p] = "above" /\ ~job'[p].hold
         \/ known'[p] = known[p] /\ pc'[p] = "above" /\ cache'[p] = cache[p] /\ job'[p] = job[p]
  BY <1>1, WalkStep
<1>3. ~Announces(p)
  BY <1>2, NothingToAnnounce
<1>4. Calm
  BY <1>2, <1>3, CalmStep
<1>5. pc'[p] \notin {"drop", "number"} /\ known'[p] <= top
  BY <1>1, <1>2
<1>6. Numbers'
  BY <1>1, <1>2, <1>5, NumbersKept
<1>7. Settled' => Settled
  BY <1>2, <1>3 DEF Settled, Announces, OnlyOf
<1>8. SUFFICES ASSUME Settled', known'[p] = top', ~Doomed(p)'
               PROVE  Agrees(p)' /\ Carries(p)'
  BY <1>2, <1>4, <1>6, Assembled DEF Fresh
<1>9. CASE /\ known'[p] = known[p] /\ job[p].k \in 0 .. Depth - 1 /\ job[p].k \in DOMAIN cache[p]
           /\ pc'[p] \in {"walk", "build"} /\ job'[p].hold = job[p].hold /\ job'[p].k = job[p].k + 1
           /\ job'[p].carry = Passed(p, job[p].k, cache[p][job[p].k].links, job[p].carry)
           /\ cache'[p] = Built(p, cache[p], job[p].k, job'[p].carry)
  <2>1. ~Doomed(p)
    BY <1>2, <1>8, <1>9 DEF Doomed
  <2>2. Agrees(p) /\ Carries(p)
    BY <1>2, <1>7, <1>8, <1>9, <2>1 DEF Inv, Fresh
  <2>3. PICK c \in Cache : c = cache[p]
    BY <1>1 DEF TypeOK
  <2>4. job[p].k \notin Lost
    BY <1>9, TrusteeConstants DEF Lost
  <2>5. c[job[p].k].links = disk[job[p].k]
    BY <1>9, <2>2, <2>3, <2>4 DEF Agrees, AtNode
  <2>6. \A m : m \in DOMAIN c /\ m # job[p].k =>
                 m \in Lost \/ (c[m].links = disk[m] /\ (c[m].built => c[m].eff = Rights(p, m)))
    BY <2>2, <2>3 DEF Agrees, AtNode
  <2>7. pc[p] \in Walking /\ pc'[p] \in Walking
    BY <1>2, <1>9 DEF Walking
  <2>8. /\ job[p].k \in DOMAIN c
        /\ job'[p].carry = Passed(p, job[p].k, c[job[p].k].links, job[p].carry)
        /\ cache'[p] = Built(p, c, job[p].k, job'[p].carry)
    BY <1>9, <2>3
  <2> QED BY <1>2, <1>9, <2>2, <2>5, <2>6, <2>7, <2>8, WalkFresh
<1>10. CASE known'[p] = ser /\ pc'[p] = "above" /\ ~job'[p].hold
  BY <1>8, <1>10 DEF Doomed
<1>11. CASE known'[p] = known[p] /\ pc'[p] = "above" /\ cache'[p] = cache[p] /\ job'[p] = job[p]
  <2>1. ~Doomed(p)
    BY <1>2, <1>8, <1>11 DEF Doomed
  <2>2. Agrees(p) /\ Carries(p)
    BY <1>2, <1>7, <1>8, <1>11, <2>1 DEF Inv, Fresh
  <2>3. DOMAIN cache[p] \in SUBSET Node
    BY <1>1, PartialIs DEF TypeOK, Cache
  <2>4. Agrees(p)'
    BY <1>2, <1>11, <2>2, <2>3, AgreesStays
  <2>5. Carries(p)'
    <3>1. SUFFICES ASSUME job[p].k > 0
                   PROVE  \A i \in IdsOf[p] : job[p].carry[i] = Held(i, job[p].k - 1)'
      BY <1>11 DEF Carries
    <3>2. job[p].k \in Int
      BY <1>1 DEF TypeOK, Job
    <3>3. PICK n \in Nat : n = job[p].k - 1 /\ n = job'[p].k - 1
      BY <1>11, <3>1, <3>2
    <3>4. \A i \in IdsOf[p] : job[p].carry[i] = Held(i, n)
      BY <1>2, <2>2, <3>1, <3>3 DEF Carries, Walking
    <3>5. \A i : Held(i, n)' = Held(i, n)
      BY <1>2, SameHeld
    <3>6. \A i : Held(i, job[p].k - 1)' = Held(i, n)'
      BY <3>3
    <3> QED BY <3>4, <3>5, <3>6
  <2> QED BY <2>4, <2>5
<1> QED BY <1>2, <1>9, <1>10, <1>11

(* A node above comes from the disk and is built.                           *)
LEMMA LoadAboveKeeps ==
  ASSUME Inv, NEW p \in Proc, LoadAbove(p)
  PROVE  Inv'
<1>1. TypeOK /\ Walks(p) /\ known[p] <= top
  BY NumberTypes
<1>2. /\ TypeOK' /\ OnlyOf(p) /\ Walks(p)'
      /\ UNCHANGED <<disk, ser, known, top, astray, recycled>> /\ pc[p] = "above"
  BY <1>1, LoadAboveStep
<1>3. PICK c \in Cache :
        /\ job[p].k \in DOMAIN c /\ c[job[p].k].links = disk[job[p].k]
        /\ \A m : m \in DOMAIN c /\ m # job[p].k => m \in DOMAIN cache[p] /\ c[m] = cache[p][m]
        /\ pc'[p] \in {"walk", "build"} /\ (job'[p].hold => job[p].hold)
        /\ job[p].k \in 0 .. Depth - 1 /\ job'[p].k = job[p].k + 1
        /\ job'[p].carry = Passed(p, job[p].k, c[job[p].k].links, job[p].carry)
        /\ cache'[p] = Built(p, c, job[p].k, job'[p].carry)
  BY <1>1, LoadAboveStep
<1>4. ~Announces(p)
  BY <1>2, NothingToAnnounce
<1>5. Calm
  BY <1>2, <1>4, CalmStep
<1>6. Numbers'
  BY <1>1, <1>2, <1>3, NumbersKept
<1>7. Settled' => Settled
  BY <1>2, <1>4 DEF Settled, Announces, OnlyOf
<1>8. SUFFICES ASSUME Settled', known'[p] = top', ~Doomed(p)'
               PROVE  Agrees(p)' /\ Carries(p)'
  BY <1>2, <1>5, <1>6, Assembled DEF Fresh
<1>9. ~Doomed(p)
  BY <1>2, <1>3, <1>8 DEF Doomed
<1>10. Agrees(p) /\ Carries(p)
  BY <1>2, <1>7, <1>8, <1>9 DEF Inv, Fresh
<1>11. \A m : m \in DOMAIN c /\ m # job[p].k =>
                m \in Lost \/ (c[m].links = disk[m] /\ (c[m].built => c[m].eff = Rights(p, m)))
  BY <1>3, <1>10 DEF Agrees, AtNode
<1>12. pc[p] \in Walking /\ pc'[p] \in Walking
  BY <1>2, <1>3 DEF Walking
<1> QED BY <1>2, <1>3, <1>10, <1>11, <1>12, WalkFresh

(* The node of the request is built.                                        *)
LEMMA BuildKeeps ==
  ASSUME Inv, NEW p \in Proc, Build(p)
  PROVE  Inv'
<1>1. TypeOK /\ Walks(p) /\ known[p] <= top
  BY NumberTypes
<1>2. /\ TypeOK' /\ OnlyOf(p) /\ Walks(p)'
      /\ UNCHANGED <<disk, ser, known, top, astray, recycled>> /\ pc[p] = "build"
      /\ \/ /\ job[p].n \in DOMAIN cache[p] /\ job[p].k = job[p].n /\ job[p].hold
            /\ Passed(p, job[p].n, cache[p][job[p].n].links, job[p].carry) \in [IdsOf[p] -> SUBSET Right]
            /\ cache'[p] = Built(p, cache[p], job[p].n, Passed(p, job[p].n, cache[p][job[p].n].links, job[p].carry))
            /\ pc'[p] = "act"
         \/ pc'[p] = "dead"
  BY <1>1, BuildStep
<1>3. ~Announces(p)
  BY <1>2, NothingToAnnounce
<1>4. Calm
  BY <1>2, <1>3, CalmStep
<1>5. Numbers'
  BY <1>1, <1>2, NumbersKept
<1>6. Settled' => Settled
  BY <1>2, <1>3 DEF Settled, Announces, OnlyOf
<1>7. SUFFICES ASSUME Settled', known'[p] = top', ~Doomed(p)'
               PROVE  Agrees(p)' /\ Carries(p)'
  BY <1>2, <1>4, <1>5, Assembled DEF Fresh
<1>8. CASE pc'[p] = "dead"
  BY <1>7, <1>8 DEF Doomed
<1>9. CASE /\ job[p].n \in DOMAIN cache[p] /\ job[p].k = job[p].n /\ job[p].hold
           /\ Passed(p, job[p].n, cache[p][job[p].n].links, job[p].carry) \in [IdsOf[p] -> SUBSET Right]
           /\ cache'[p] = Built(p, cache[p], job[p].n, Passed(p, job[p].n, cache[p][job[p].n].links, job[p].carry))
           /\ pc'[p] = "act"
  <2>1. ~Doomed(p)
    BY <1>2, <1>9 DEF Doomed
  <2>2. Agrees(p) /\ Carries(p)
    BY <1>2, <1>6, <1>7, <2>1 DEF Inv, Fresh
  <2>3. PICK c \in Cache : c = cache[p]
    BY <1>1 DEF TypeOK
  <2>4. PICK n \in DOMAIN c : n = job[p].n
    BY <1>9, <2>3
  <2>5. PICK f : f = job[p].carry
    OBVIOUS
  <2>6. job[p].k \in Int /\ n \in Nat
    <3>1. job[p].k \in Int /\ job[p].n \in Node
      BY <1>1 DEF TypeOK, Job
    <3> QED BY <2>4, <3>1 DEF Node
  <2>7. n # 0 => \A i \in IdsOf[p] : f[i] = Held(i, n - 1)
    BY <1>2, <1>9, <2>2, <2>4, <2>5, <2>6 DEF Carries, Walking
  <2>8. n \notin Lost => c[n].links = disk[n]
    BY <2>2, <2>3 DEF Agrees, AtNode
  <2>9. \A m : m \in DOMAIN c /\ m # n =>
                 m \in Lost \/ (c[m].links = disk[m] /\ (c[m].built => c[m].eff = Rights(p, m)))
    BY <2>2, <2>3 DEF Agrees, AtNode
  <2>10. /\ Passed(p, n, c[n].links, f) \in [IdsOf[p] -> SUBSET Right]
         /\ cache'[p] = Built(p, c, n, Passed(p, n, c[n].links, f))
    BY <1>9, <2>3, <2>4, <2>5
  <2>11. Agrees(p)'
    BY <1>1, <1>2, <2>7, <2>8, <2>9, <2>10, BuiltAgrees
  <2>12. Carries(p)'
    BY <1>9 DEF Carries, Walking
  <2> QED BY <2>11, <2>12
<1> QED BY <1>2, <1>8, <1>9

(* Nothing on the disk has changed yet.                                     *)
LEMMA ActKeeps ==
  ASSUME Inv, NEW p \in Proc, Act(p)
  PROVE  Inv'
<1>1. TypeOK /\ Walks(p) /\ known[p] <= top
  BY NumberTypes
<1>2. /\ TypeOK' /\ OnlyOf(p) /\ Walks(p)'
      /\ UNCHANGED <<disk, ser, known, top, astray, recycled>> /\ pc[p] = "act"
      /\ cache'[p] \in {NoCache, cache[p]} /\ pc'[p] \in {"idle", "find", "put"}
  BY <1>1, ActStep
<1>3. ~Announces(p)
  BY <1>2, NothingToAnnounce
<1>4. Calm
  BY <1>2, <1>3, CalmStep
<1>5. Numbers'
  BY <1>1, <1>2, NumbersKept
<1>6. Settled' => Settled
  BY <1>2, <1>3 DEF Settled, Announces, OnlyOf
<1>7. pc'[p] \notin Walking
  BY <1>2 DEF Walking
<1>8. CASE cache'[p] = NoCache
  BY <1>2, <1>4, <1>5, <1>7, <1>8, EmptyFresh, Assembled
<1>9. CASE cache'[p] = cache[p]
  <2>1. ~Doomed(p)
    BY <1>2 DEF Doomed
  <2>2. Fresh(p)'
    BY <1>2, <1>6, <1>7, <1>9, <2>1, StillFresh
  <2> QED BY <1>2, <1>4, <1>5, <2>2, Assembled
<1> QED BY <1>2, <1>8, <1>9

(* What has been unlinked will be announced.                                *)
LEMMA PutKeeps ==
  ASSUME Inv, NEW p \in Proc, Put(p)
  PROVE  Inv'
<1>1. TypeOK /\ known[p] <= top
  BY NumberTypes
<1>2. /\ TypeOK' /\ OnlyOf(p) /\ Walks(p)'
      /\ UNCHANGED <<ser, cache, known, top, astray, recycled>> /\ pc[p] = "put"
      /\ \/ pc'[p] = "link" /\ Name(job'[p]) \notin DOMAIN disk'[job'[p].n]
         \/ pc'[p] = "read"
         \/ pc'[p] = "idle" /\ disk' = disk
  BY <1>1, PutStep
<1>3. Numbers'
  BY <1>1, <1>2, NumbersKept
<1>4. CASE pc'[p] = "link" /\ Name(job'[p]) \notin DOMAIN disk'[job'[p].n]
  <2>1. Announces(p)'
    BY <1>4 DEF Announces
  <2> QED BY <1>2, <1>3, <2>1, LoudStep, Assembled
<1>5. CASE pc'[p] = "read"
  <2>1. Announces(p)'
    BY <1>5 DEF Announces
  <2> QED BY <1>2, <1>3, <2>1, LoudStep, Assembled
<1>6. CASE pc'[p] = "idle" /\ disk' = disk
  <2>1. ~Announces(p)
    BY <1>2, NothingToAnnounce
  <2>2. Calm
    BY <1>2, <1>6, <2>1, CalmStep
  <2>3. Settled' => Settled
    BY <1>2, <1>6, <2>1 DEF Settled, Announces, OnlyOf
  <2>4. ~Doomed(p) /\ pc'[p] \notin Walking
    BY <1>2, <1>6 DEF Doomed, Walking
  <2>5. Fresh(p)'
    BY <1>2, <1>6, <2>3, <2>4, StillFresh
  <2> QED BY <1>2, <1>3, <2>2, <2>5, Assembled
<1> QED BY <1>2, <1>4, <1>5, <1>6

(* What has been linked will be announced, a link that was there changes nothing.*)
LEMMA LinkKeeps ==
  ASSUME Inv, NEW p \in Proc, Link(p)
  PROVE  Inv'
<1>1. TypeOK /\ known[p] <= top
  BY NumberTypes
<1>2. /\ TypeOK' /\ OnlyOf(p) /\ Walks(p)'
      /\ UNCHANGED <<ser, known, top, astray, recycled>> /\ pc[p] = "link"
      /\ \/ pc'[p] \in {"mark", "read"}
         \/ /\ Name(job[p]) \in DOMAIN disk[job[p].n] /\ disk' = disk
            /\ pc'[p] = "idle" /\ cache'[p] \in {NoCache, cache[p]}
  BY <1>1, LinkStep
<1>3. pc'[p] \notin {"drop", "number"}
  BY <1>2
<1>4. Numbers'
  BY <1>1, <1>2, <1>3, NumbersKept
<1>5. CASE pc'[p] \in {"mark", "read"}
  <2>1. Announces(p)'
    BY <1>5 DEF Announces
  <2> QED BY <1>2, <1>4, <2>1, LoudStep, Assembled
<1>6. CASE /\ Name(job[p]) \in DOMAIN disk[job[p].n] /\ disk' = disk
           /\ pc'[p] = "idle" /\ cache'[p] \in {NoCache, cache[p]}
  <2>1. ~Announces(p)
    BY <1>2, <1>6 DEF Announces
  <2>2. Calm
    BY <1>2, <1>6, <2>1, CalmStep
  <2>3. Settled' => Settled
    BY <1>2, <1>6, <2>1 DEF Settled, Announces, OnlyOf
  <2>4. ~Doomed(p) /\ pc'[p] \notin Walking
    BY <1>2, <1>6 DEF Doomed, Walking
  <2>5. CASE cache'[p] = NoCache
    BY <1>2, <1>4, <2>2, <2>4, <2>5, EmptyFresh, Assembled
  <2>6. CASE cache'[p] = cache[p]
    <3>1. Fresh(p)'
      BY <1>2, <1>6, <2>3, <2>4, <2>6, StillFresh
    <3> QED BY <1>2, <1>4, <2>2, <3>1, Assembled
  <2> QED BY <1>6, <2>5, <2>6
<1> QED BY <1>2, <1>5, <1>6

(* The change is still to be announced.                                     *)
LEMMA MarkKeeps ==
  ASSUME Inv, NEW p \in Proc, Mark(p)
  PROVE  Inv'
<1>1. TypeOK /\ Walks(p) /\ known[p] <= top
  BY NumberTypes
<1>2. /\ TypeOK' /\ OnlyOf(p) /\ Walks(p)'
      /\ UNCHANGED <<ser, known, top, astray, recycled>> /\ pc[p] = "mark"
      /\ pc'[p] \in {"mark", "remark", "read"}
  BY <1>1, MarkStep
<1>3. Numbers'
  BY <1>1, <1>2, NumbersKept
<1>4. Announces(p)'
  BY <1>2 DEF Announces
<1> QED BY <1>2, <1>3, <1>4, LoudStep, Assembled

(* The change is still to be announced.                                     *)
LEMMA RemarkKeeps ==
  ASSUME Inv, NEW p \in Proc, Remark(p)
  PROVE  Inv'
<1>1. TypeOK /\ Walks(p) /\ known[p] <= top
  BY NumberTypes
<1>2. /\ TypeOK' /\ OnlyOf(p) /\ Walks(p)'
      /\ UNCHANGED <<ser, known, top, astray, recycled>> /\ pc[p] = "remark"
      /\ pc'[p] \in {"mark", "read"}
  BY <1>1, RemarkStep
<1>3. Numbers'
  BY <1>1, <1>2, NumbersKept
<1>4. Announces(p)'
  BY <1>2 DEF Announces
<1> QED BY <1>2, <1>3, <1>4, LoudStep, Assembled

(* The number just read is the highest one.                                 *)
LEMMA ReadKeeps ==
  ASSUME Inv, NEW p \in Proc, ReadSernum(p)
  PROVE  Inv'
<1>1. TypeOK /\ known[p] <= top /\ top \in Nat
  BY NumberTypes
<1>2. /\ TypeOK' /\ OnlyOf(p) /\ Walks(p)'
      /\ UNCHANGED <<disk, ser, cache, known, top, astray, recycled>> /\ pc[p] = "read"
      /\ pc'[p] = "drop" /\ job'[p].was = top
  BY <1>1, ReadStep
<1>3. Numbers'
  BY <1>1, <1>2, NumbersKept
<1>4. Announces(p)'
  BY <1>2 DEF Announces
<1> QED BY <1>2, <1>3, <1>4, LoudStep, Assembled

(* The number that was read is the highest one, or it was not.              *)
LEMMA DropKeeps ==
  ASSUME Inv, NEW p \in Proc, DropSernum(p)
  PROVE  Inv'
<1>1. TypeOK /\ known[p] <= top /\ top \in Nat /\ 0 <= top
  BY NumberTypes
<1>2. /\ TypeOK' /\ OnlyOf(p) /\ Walks(p)'
      /\ UNCHANGED <<disk, cache, known, job, top, astray, recycled>> /\ pc[p] = "drop"
      /\ ser' = 0 /\ pc'[p] = "number"
  BY <1>1, DropStep
<1>3. Numbers'
  <2>1. ser' <= top' /\ \A q \in Proc : known'[q] <= top'
    BY <1>1, <1>2 DEF Inv, Numbers
  <2>2. \A q \in Proc : pc'[q] \in {"drop", "number"} => job'[q].was <= top'
    BY <1>2 DEF Inv, Numbers, OnlyOf
  <2> QED BY <1>2, <2>1, <2>2 DEF Numbers
<1>4. Announces(p)' <=> Announces(p)
  BY <1>2 DEF Announces
<1>5. CASE Announces(p)
  BY <1>2, <1>3, <1>4, <1>5, LoudStep, Assembled
<1>6. CASE ~Announces(p)
  <2>1. Calm
    BY <1>2, <1>6, CalmStep
  <2>2. Settled' => Settled
    BY <1>2, <1>6 DEF Settled, Announces, OnlyOf
  <2>3. ~Doomed(p) /\ pc'[p] \notin Walking
    BY <1>2 DEF Doomed, Walking
  <2>4. Fresh(p)'
    BY <1>2, <2>2, <2>3, StillFresh
  <2> QED BY <1>2, <1>3, <2>1, <2>4, Assembled
<1> QED BY <1>5, <1>6

(* The number is new to everybody, or there was nothing to announce.        *)
LEMMA SetKeeps ==
  ASSUME Inv, NEW p \in Proc, SetSernum(p)
  PROVE  Inv'
<1>1. TypeOK /\ known[p] <= top /\ top \in Nat
  BY NumberTypes
<1>2. /\ TypeOK' /\ OnlyOf(p) /\ Walks(p)'
      /\ UNCHANGED <<disk, known, recycled>> /\ pc[p] = "number"
      /\ ser' > 0 /\ ser' \in Nat /\ top' = (IF top >= ser' THEN top ELSE ser')
      /\ ~astray' => ~astray /\ ser' >= top /\ ser' > job[p].was
      /\ cache'[p] = NoCache /\ pc'[p] = "idle"
  BY <1>1, SetStep
<1>3. top' >= top /\ top' >= ser' /\ top' \in Nat
  BY <1>1, <1>2
<1>4. ~astray' => top' = ser'
  BY <1>1, <1>2
<1>5. Numbers'
  <2>1. \A q \in Proc : known'[q] <= top'
    <3>1. \A q \in Proc : known[q] <= top /\ known[q] \in Nat
      BY <1>1 DEF Inv, Numbers, TypeOK
    <3> QED BY <1>1, <1>2, <1>3, <3>1
  <2>2. \A q \in Proc : pc'[q] \in {"drop", "number"} => job'[q].was <= top'
    <3>1. SUFFICES ASSUME NEW q \in Proc, q # p, pc'[q] \in {"drop", "number"} PROVE job'[q].was <= top'
      BY <1>2
    <3>2. job'[q] = job[q] /\ job[q].was <= top /\ job[q].was \in Nat
      BY <1>1, <1>2, <3>1 DEF Inv, Numbers, OnlyOf, TypeOK, Job
    <3> QED BY <1>1, <1>3, <3>2
  <2>3. ser' <= top'
    BY <1>2, <1>3
  <2>4. ~astray' => ser' \in {0, top'}
    BY <1>4
  <2>5. ser' # 0
    BY <1>2
  <2> QED BY <2>1, <2>2, <2>3, <2>4, <2>5 DEF Numbers
<1>6. Calm
  <2>1. SUFFICES ASSUME Settled'
                 PROVE  \/ /\ Settled /\ top' = top /\ (recycled => recycled')
                           /\ \A n \in Node : n \notin Lost' => disk'[n] = disk[n]
                        \/ \A q \in Proc : known[q] < top'
    BY DEF Calm
  <2>2. ~astray' /\ ~astray /\ top' = ser' /\ ser' >= top /\ ser' > job[p].was
    BY <1>2, <1>4, <2>1 DEF Settled
  <2>3. CASE top' = top
    <3>1. job[p].was # top
      BY <1>1, <2>2, <2>3
    <3>2. ~Announces(p)
      BY <1>2, <3>1 DEF Announces
    <3>3. \A q \in Proc : q # p => ~Announces(q)
      BY <1>2, <2>1, <2>3 DEF Settled, Announces, OnlyOf
    <3>4. Settled
      BY <2>2, <3>2, <3>3 DEF Settled
    <3> QED BY <1>2, <2>3, <3>4
  <2>4. CASE top' # top
    <3>1. top < top'
      BY <1>1, <1>3, <2>4
    <3>2. \A q \in Proc : known[q] <= top /\ known[q] \in Nat
      BY <1>1 DEF Inv, Numbers, TypeOK
    <3> QED BY <1>1, <1>3, <3>1, <3>2
  <2> QED BY <2>3, <2>4
<1>7. Fresh(p)'
  BY <1>2, EmptyFresh DEF Walking
<1> QED BY <1>2, <1>5, <1>6, <1>7, Assembled

(* Only the node of the removed file is lost.                               *)
LEMMA RemoveKeeps ==
  ASSUME Inv, NEW p \in Proc, Remove(p)
  PROVE  Inv'
<1>1. TypeOK /\ Walks(p) /\ known[p] <= top
  BY NumberTypes
<1>2. /\ TypeOK' /\ OnlyOf(p) /\ Walks(p)'
      /\ UNCHANGED <<ser, cache, known, pc, job, top, astray>> /\ recycled' = TRUE /\ pc[p] = "idle"
      /\ Depth \in Node /\ DOMAIN disk'[Depth] = {}
      /\ \A n \in Node : n # Depth => disk'[n] = disk[n]
  BY <1>1, RemoveStep
<1>3. Numbers'
  BY <1>1, <1>2, NumbersKept
<1>4. \A n \in Node : n \notin Lost' => disk'[n] = disk[n]
  BY <1>2 DEF Lost
<1>5. Settled' => Settled
  <2>1. ASSUME NEW q \in Proc, Announces(q) PROVE Announces(q)'
    <3>1. job[q].n \in Node
      BY <1>1 DEF TypeOK, Job
    <3>2. Name(job[q]) \notin DOMAIN disk[job[q].n] => Name(job[q]) \notin DOMAIN disk'[job[q].n]
      BY <1>2, <3>1
    <3> QED BY <1>2, <2>1, <3>2 DEF Announces
  <2> QED BY <1>2, <2>1 DEF Settled
<1>6. Calm
  BY <1>2, <1>4, <1>5 DEF Calm
<1>7. Fresh(p)'
  <2>1. SUFFICES ASSUME Settled', known'[p] = top', ~Doomed(p)'
                 PROVE  Agrees(p)' /\ Carries(p)'
    BY DEF Fresh
  <2>2. ~Doomed(p)
    BY <1>2 DEF Doomed
  <2>3. Agrees(p) /\ Carries(p)
    BY <1>2, <1>5, <2>1, <2>2 DEF Inv, Fresh
  <2>4. DOMAIN cache[p] \in SUBSET Node
    BY <1>1, PartialIs DEF TypeOK, Cache
  <2>5. cache'[p] = cache[p] /\ pc'[p] = pc[p] /\ job'[p] = job[p]
    BY <1>2
  <2>6. Agrees(p)'
    BY <1>2, <1>4, <2>3, <2>4, <2>5, AgreesStays
  <2>7. Carries(p)'
    BY <1>1, <1>4, <2>3, <2>5, CarriesStays
  <2> QED BY <2>6, <2>7
<1> QED BY <1>2, <1>3, <1>6, <1>7, Assembled

(* The cache is emptied.                                                    *)
LEMMA LoginKeeps ==
  ASSUME Inv, NEW p \in Proc, Login(p)
  PROVE  Inv'
<1>1. TypeOK /\ known[p] <= top
  BY NumberTypes
<1>2. /\ TypeOK' /\ OnlyOf(p) /\ Walks(p)'
      /\ UNCHANGED <<disk, ser, known, pc, job, top, astray, recycled>> /\ pc[p] = "idle"
      /\ cache'[p] = NoCache
  BY <1>1, LoginStep
<1>3. pc'[p] = "idle"
  BY <1>2
<1>4. ~Announces(p)
  BY <1>2, NothingToAnnounce
<1>5. Calm
  BY <1>2, <1>4, CalmStep
<1>6. Numbers'
  BY <1>1, <1>2, <1>3, NumbersKept
<1>7. Fresh(p)'
  BY <1>2, <1>3, EmptyFresh DEF Walking
<1> QED BY <1>2, <1>5, <1>6, <1>7, Assembled

(* The cache is emptied; a change that was under way has gone astray.       *)
LEMMA KilledKeeps ==
  ASSUME Inv, NEW p \in Proc, Killed(p)
  PROVE  Inv'
<1>1. TypeOK /\ 0 <= top
  BY NumberTypes
<1>2. /\ TypeOK' /\ OnlyOf(p) /\ Walks(p)'
      /\ UNCHANGED <<disk, ser, top, recycled>> /\ known'[p] = 0
      /\ ~astray' => ~astray /\ pc[p] \notin Writing \ {"put"}
      /\ cache'[p] = NoCache /\ pc'[p] = "idle"
  BY <1>1, KilledStep
<1>3. ~astray' => ~astray /\ pc[p] # "number"
  BY <1>2 DEF Writing
<1>4. Numbers'
  BY <1>1, <1>2, <1>3, NumbersKept
<1>5. Fresh(p)'
  BY <1>2, EmptyFresh DEF Walking
<1>6. Calm
  <2>1. CASE astray'
    BY <2>1 DEF Calm, Settled
  <2>2. CASE ~astray'
    <3>1. ~Announces(p)
      BY <1>2, <2>2 DEF Announces, Writing
    <3> QED BY <1>2, <3>1, CalmStep
  <2> QED BY <2>1, <2>2
<1> QED BY <1>2, <1>4, <1>5, <1>6, Assembled

-----------------------------------------------------------------------------
(* The theorem                                                              *)

(* It holds at first,                                                       *)
LEMMA InitInv == Init => Inv
<1> SUFFICES ASSUME Init PROVE Inv
  OBVIOUS
<1>1. "idle" \in Steps /\ 0 \in Nat
  BY DEF Steps
<1>2. disk \in [Node -> Links] /\ cache \in [Proc -> Cache] /\ job \in [Proc -> Job]
  BY RequestIs DEF Init
<1>3. /\ ser \in Nat /\ top \in Nat /\ known \in [Proc -> Nat] /\ due \in [Proc -> BOOLEAN]
      /\ astray \in BOOLEAN /\ recycled \in BOOLEAN /\ writes \in Nat
  BY DEF Init
<1>4. pc \in [Proc -> Steps] /\ \A p \in Proc : pc[p] = "idle"
  BY <1>1 DEF Init
<1>5. TypeOK
  BY <1>2, <1>3, <1>4 DEF TypeOK
<1>6. \A p \in Proc : Walks(p)
  BY <1>4 DEF Walks, Walking
<1>7. Numbers
  BY <1>4 DEF Init, Numbers
<1>8. \A p \in Proc : Fresh(p)
  <2>1. \A p \in Proc : cache[p] = NoCache
    BY DEF Init
  <2> QED BY <1>4, <2>1, RequestIs DEF Fresh, Agrees, Carries, Walking
<1> QED BY <1>5, <1>6, <1>7, <1>8 DEF Inv, Structure

(* and every step keeps it.                                                 *)
LEMMA StepInv == Inv /\ [Next]_vars => Inv'
<1> SUFFICES ASSUME Inv, [Next]_vars PROVE Inv'
  OBVIOUS
<1>1. CASE UNCHANGED vars
  <2>1. UNCHANGED <<disk, ser, cache, known, due, pc, job, top, astray, recycled, writes>>
    BY <1>1 DEF vars
  <2>2. TypeOK'
    BY <2>1 DEF Inv, Structure, TypeOK
  <2>3. \A p \in Proc : Walks(p)'
    BY <2>1 DEF Inv, Structure, Walks
  <2>4. Numbers'
    BY <2>1 DEF Inv, Numbers
  <2>5. Settled' <=> Settled
    BY <2>1 DEF Settled, Announces
  <2>6. ASSUME NEW p \in Proc PROVE Fresh(p)'
    <3>1. SUFFICES ASSUME Settled', known'[p] = top', ~Doomed(p)'
                   PROVE  Agrees(p)' /\ Carries(p)'
      BY DEF Fresh
    <3>2. ~Doomed(p)
      BY <2>1, <3>1 DEF Doomed
    <3>3. Agrees(p) /\ Carries(p)
      BY <2>1, <2>5, <3>1, <3>2 DEF Inv, Fresh
    <3>4. TypeOK /\ Walks(p)
      BY NumberTypes
    <3>5. DOMAIN cache[p] \in SUBSET Node
      BY <3>4, PartialIs DEF TypeOK, Cache
    <3>6. Agrees(p)'
      BY <2>1, <3>3, <3>5, AgreesStays
    <3>7. Carries(p)'
      BY <2>1, <3>3, <3>4, CarriesStays
    <3> QED BY <3>6, <3>7
  <2> QED BY <2>2, <2>3, <2>4, <2>6 DEF Inv, Structure
<1>2. CASE Next
  <2>1. PICK p \in Proc :
          \/ \E r \in Requests : Begin(p, r)
          \/ Find(p) \/ Load(p) \/ Walk(p) \/ LoadAbove(p) \/ Build(p) \/ Act(p)
          \/ Put(p) \/ Link(p) \/ Mark(p) \/ Remark(p)
          \/ ReadSernum(p) \/ DropSernum(p) \/ SetSernum(p)
          \/ Remove(p) \/ Login(p) \/ Killed(p)
    BY <1>2 DEF Next
  <2>2. CASE \E r \in Requests : Begin(p, r)
    BY <2>2, BeginKeeps
  <2>3. CASE Find(p)
    BY <2>3, FindKeeps
  <2>4. CASE Load(p)
    BY <2>4, LoadKeeps
  <2>5. CASE Walk(p)
    BY <2>5, WalkKeeps
  <2>6. CASE LoadAbove(p)
    BY <2>6, LoadAboveKeeps
  <2>7. CASE Build(p)
    BY <2>7, BuildKeeps
  <2>8. CASE Act(p)
    BY <2>8, ActKeeps
  <2>9. CASE Put(p)
    BY <2>9, PutKeeps
  <2>10. CASE Link(p)
    BY <2>10, LinkKeeps
  <2>11. CASE Mark(p)
    BY <2>11, MarkKeeps
  <2>12. CASE Remark(p)
    BY <2>12, RemarkKeeps
  <2>13. CASE ReadSernum(p)
    BY <2>13, ReadKeeps
  <2>14. CASE DropSernum(p)
    BY <2>14, DropKeeps
  <2>15. CASE SetSernum(p)
    BY <2>15, SetKeeps
  <2>16. CASE Remove(p)
    BY <2>16, RemoveKeeps
  <2>17. CASE Login(p)
    BY <2>17, LoginKeeps
  <2>18. CASE Killed(p)
    BY <2>18, KilledKeeps
  <2> QED BY <2>1, <2>2, <2>3, <2>4, <2>5, <2>6, <2>7, <2>8, <2>9, <2>10, <2>11, <2>12,
             <2>13, <2>14, <2>15, <2>16, <2>17, <2>18
<1> QED BY <1>1, <1>2

(* Nobody writes: what was changed is announced, and the serial number is   *)
(* the highest one.                                                         *)
LEMMA InvCurrent == Inv => CacheCurrent
<1> SUFFICES ASSUME Inv, Quiet, ~astray, NEW p \in Proc, known[p] = ser, ~Doomed(p),
                    NEW n \in DOMAIN cache[p] \ (IF recycled THEN {Depth} ELSE {})
             PROVE  cache[p][n].links = disk[n] /\ (cache[p][n].built => cache[p][n].eff = Rights(p, n))
  BY DEF CacheCurrent
<1>1. \A q \in Proc : pc[q] \notin {"link", "mark", "remark", "read", "drop", "number"}
  BY DEF Quiet, Writing
<1>2. Settled
  BY <1>1 DEF Settled, Announces
<1>3. ser = top
  BY <1>1 DEF Inv, Numbers
<1>4. Agrees(p)
  BY <1>2, <1>3 DEF Inv, Fresh
<1> QED BY <1>4 DEF Agrees, AtNode, Lost

(* A process that has seen the volume's serial number has the trustees and   *)
(* effective rights of the disk in its cache (vol_trustees_were_changed,     *)
(* nwvolume.c:711; trustee.c:759), when no change is under way, no number    *)
(* was given twice or lost, and the inode is still that of the file.         *)
THEOREM CacheIsCurrent == Spec => []CacheCurrent
<1>1. Init => Inv
  BY InitInv
<1>2. Inv /\ [Next]_vars => Inv'
  BY StepInv
<1>3. Inv => CacheCurrent
  BY InvCurrent
<1> QED BY <1>1, <1>2, <1>3, PTL DEF Spec
=============================================================================
