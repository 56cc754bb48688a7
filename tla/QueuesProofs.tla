---------------------------- MODULE QueuesProofs ----------------------------
(***************************************************************************)
(* Proofs about Queues, for any connections, queues, users and table sizes: *)
(* job ids stay unique, also over a restart, a job that is served is not     *)
(* written any more and read by one queue server, and no job with data is    *)
(* dropped by the way.                                                       *)
(***************************************************************************)
EXTENDS Queues, TLAPS, FiniteSetTheorems, SequenceTheorems, WellFoundedInduction

(* A job of a list, and a job that add_queue_job may have to number.        *)
Fields ==
  [id : 0..MaxJobId, stamp : Stamp, conn : Conn, task : Task, client : User,
   held : BOOLEAN, restart : BOOLEAN, server : User \cup {NoUser},
   station : Conn \cup {NoConn}]
Job == {j \in Fields : j.id # 0}

Listed(list) == {list[i] : i \in DOMAIN list}

(* No two jobs of a list share the id or the file.                          *)
Distinct(list) ==
  \A i, k \in DOMAIN list :
    list[i].id = list[k].id \/ list[i].stamp = list[k].stamp => i = k

-----------------------------------------------------------------------------
(* Recursion                                                                *)

(* Every set of natural numbers has a least one.                            *)
LEMMA LeastNumber ==
  ASSUME NEW S \in SUBSET Nat, S # {}
  PROVE  \E t \in S : \A u \in S : t <= u
<1>1. PICK t \in S : \A u \in S : <<u, t>> \notin OpToRel(<, Nat)
  BY NatLessThanWellFounded, WFMin
<1>2. \A u \in S : ~(u < t)
  BY <1>1 DEF OpToRel
<1> QED BY <1>2

(* Min is the least element.                                                *)
LEMMA MinIs ==
  ASSUME NEW S \in SUBSET Nat, S # {}
  PROVE  Min(S) \in S /\ \A u \in S : Min(S) <= u
  BY LeastNumber DEF Min

(* f iterates the steps from a base value on.                               *)
Iterates(f, N, base, step) ==
  \A n \in 0..N : f[n] = IF n = 0 THEN base ELSE step[n][f[n - 1]]

(* A function that is defined by recursion over 0..N exists.                *)
LEMMA Recursion ==
  ASSUME NEW X, NEW N \in Nat, NEW base \in X, NEW step \in [1..N -> [X -> X]]
  PROVE  \E f \in [0..N -> X] : Iterates(f, N, base, step)
<1> USE DEF Iterates
<1> DEFINE Good(k) == \E f \in [0..k -> X] :
             \A n \in 0..k : f[n] = IF n = 0 THEN base ELSE step[n][f[n - 1]]
           Bad == {k \in 0..N : ~Good(k)}
<1>1. SUFFICES ASSUME Bad # {} PROVE FALSE
  OBVIOUS
<1>2. PICK k \in Bad : \A u \in Bad : k <= u
  <2>1. Bad \in SUBSET Nat
    OBVIOUS
  <2> HIDE DEF Bad
  <2> QED BY <1>1, <2>1, LeastNumber
<1>12. k \in 0..N /\ ~Good(k) /\ \A u \in 0..N : ~Good(u) => k <= u
  <2> HIDE DEF Good
  <2> QED BY <1>2
<1>3. k # 0
  <2>1. [n \in 0..0 |-> base] \in [0..0 -> X]
    OBVIOUS
  <2>2. Good(0)
    <3> DEFINE f == [n \in 0..0 |-> base]
    <3>1. \A n \in 0..0 : f[n] = IF n = 0 THEN base ELSE step[n][f[n - 1]]
      OBVIOUS
    <3> QED BY <2>1, <3>1
  <2> HIDE DEF Good
  <2> QED BY <2>2, <1>12
<1>4. k - 1 \in 0..N /\ Good(k - 1)
  <2> HIDE DEF Good
  <2> QED BY <1>12, <1>3
<1>5. PICK f \in [0..(k - 1) -> X] :
        \A n \in 0..(k - 1) : f[n] = IF n = 0 THEN base ELSE step[n][f[n - 1]]
  BY <1>4
<1> DEFINE g == [n \in 0..k |-> IF n = k THEN step[k][f[k - 1]] ELSE f[n]]
<1>6. k \in 1..N /\ k - 1 \in 0..(k - 1) /\ \A n \in 0..k : n # k => n \in 0..(k - 1)
  BY <1>12, <1>3
<1>7. step[k][f[k - 1]] \in X
  BY <1>6
<1>8. g \in [0..k -> X]
  BY <1>6, <1>7
<1>9. ASSUME NEW n \in 0..k PROVE g[n] = IF n = 0 THEN base ELSE step[n][g[n - 1]]
  <2>1. CASE n = k
    <3>1. g[n] = step[k][f[k - 1]] /\ g[k - 1] = f[k - 1]
      BY <2>1, <1>6
    <3> QED BY <3>1, <2>1, <1>3
  <2>2. CASE n # k
    <3>1. n \in 0..(k - 1) /\ g[n] = f[n]
      BY <2>2, <1>6
    <3>2. CASE n = 0
      <4>1. f[n] = base
        BY <3>1, <3>2, <1>5
      <4> QED BY <3>1, <3>2, <4>1
    <3>3. CASE n # 0
      <4>1. f[n] = step[n][f[n - 1]]
        BY <3>1, <3>3, <1>5
      <4>2. n - 1 \in 0..k /\ n - 1 # k
        BY <3>3, <1>6
      <4>3. g[n - 1] = f[n - 1]
        BY <4>2
      <4> QED BY <3>1, <3>3, <4>1, <4>3
    <3> QED BY <3>2, <3>3
  <2> QED BY <2>1, <2>2
<1>11. Good(k)
  <2> HIDE DEF g
  <2> QED BY <1>8, <1>9
<1> HIDE DEF Good
<1> QED BY <1>11, <1>12

(* Induction up to N.                                                       *)
LEMMA Induction ==
  ASSUME NEW N \in Nat, NEW G, 0 \in G, \A n \in 1..N : n - 1 \in G => n \in G
  PROVE  \A n \in 0..N : n \in G
<1> DEFINE Bad == {n \in 0..N : n \notin G}
<1>1. SUFFICES ASSUME Bad # {} PROVE FALSE
  OBVIOUS
<1>2. PICK n \in Bad : \A u \in Bad : n <= u
  <2>1. Bad \in SUBSET Nat
    OBVIOUS
  <2> HIDE DEF Bad
  <2> QED BY <1>1, <2>1, LeastNumber
<1>3. n \in 1..N /\ n - 1 \in 0..N /\ ~(n <= n - 1)
  BY <1>2
<1> QED BY <1>2, <1>3

-----------------------------------------------------------------------------
(* Adding a job to a list                                                   *)

(* A job whose id and file no job of the list has may be added to it.       *)
LEMMA AppendIs ==
  ASSUME NEW list \in Seq(Job), Distinct(list), NEW j \in Job,
         \A x \in Listed(list) : x.id # j.id /\ x.stamp # j.stamp
  PROVE  /\ Append(list, j) \in Seq(Job) /\ Distinct(Append(list, j))
         /\ Append(list, j) # list /\ Append(list, j) # <<>>
         /\ \A x : x \in Listed(Append(list, j)) <=> x \in Listed(list) \/ x = j
<1> DEFINE new == Append(list, j)
<1>1. /\ new \in Seq(Job) /\ DOMAIN new = 1..(Len(list) + 1)
      /\ \A i \in DOMAIN new :
           \/ i \in DOMAIN list /\ new[i] = list[i]
           \/ i = Len(list) + 1 /\ new[i] = j
      /\ \A i \in DOMAIN list : i \in DOMAIN new /\ new[i] = list[i]
      /\ new[Len(list) + 1] = j /\ Len(list) \in Nat
      /\ Len(new) = Len(list) + 1
  OBVIOUS
<1>2. new # list /\ new # <<>>
  BY <1>1
<1> HIDE DEF new
<1>3. \A x : x \in Listed(new) <=> x \in Listed(list) \/ x = j
  BY <1>1 DEF Listed
<1>4. Distinct(new)
  BY <1>1 DEF Distinct, Listed
<1> QED BY <1>1, <1>2, <1>3, <1>4 DEF new

-----------------------------------------------------------------------------
(* Removing jobs from a list                                                *)

(* The recursion of Without, and that it has a solution.                    *)
LEMMA WithoutRec ==
  ASSUME NEW list \in Seq(Job), NEW S
  PROVE  \E kept : /\ Without(list, S) = kept[Len(list)]
                   /\ kept[0] = <<>>
                   /\ \A n \in 1..Len(list) :
                        kept[n] = IF list[n].stamp \in S THEN kept[n - 1]
                                  ELSE Append(kept[n - 1], list[n])
<1> DEFINE L == Len(list)
           empty == <<>>
           drop == [n \in 1..L |-> [x \in Seq(Job) |->
                      IF list[n].stamp \in S THEN x ELSE Append(x, list[n])]]
           Is(g) == g = [n \in 0..L |->
                        IF n = 0 THEN <<>>
                        ELSE IF list[n].stamp \in S THEN g[n - 1]
                             ELSE Append(g[n - 1], list[n])]
<1>1. L \in Nat /\ empty \in Seq(Job)
  OBVIOUS
<1>2. drop \in [1..L -> [Seq(Job) -> Seq(Job)]]
  <2>1. ASSUME NEW n \in 1..L, NEW x \in Seq(Job)
        PROVE  (IF list[n].stamp \in S THEN x ELSE Append(x, list[n])) \in Seq(Job)
    <3>1. list[n] \in Job
      OBVIOUS
    <3> HIDE DEF L
    <3> QED BY <3>1
  <2> QED BY <2>1
<1>3. PICK f \in [0..L -> Seq(Job)] : Iterates(f, L, empty, drop)
  <2> HIDE DEF empty, drop, L
  <2>1. L \in Nat /\ empty \in Seq(Job) /\ drop \in [1..L -> [Seq(Job) -> Seq(Job)]]
    BY <1>1, <1>2
  <2> QED BY <2>1, Recursion
<1>4. Is(f)
  <2>2. DOMAIN f = 0..L
    BY <1>3
  <2>1. ASSUME NEW n \in 0..L
        PROVE  f[n] = IF n = 0 THEN <<>>
                        ELSE IF list[n].stamp \in S THEN f[n - 1]
                             ELSE Append(f[n - 1], list[n])
    <3>1. CASE n = 0
      <4>1. f[0] = empty
        <5> HIDE DEF empty, drop, L
        <5> QED BY <1>3, <3>1 DEF Iterates
      <4> QED BY <4>1, <3>1
    <3>2. CASE n # 0
      <4>1. n \in 1..L /\ n - 1 \in 0..L
        BY <3>2
      <4>2. f[n - 1] \in Seq(Job)
        BY <4>1
      <4>3. f[n] = drop[n][f[n - 1]]
        <5> HIDE DEF empty, drop, L
        <5> QED BY <1>3, <3>2 DEF Iterates
      <4> QED BY <4>1, <4>2, <4>3, <3>2
    <3> QED BY <3>1, <3>2
  <2>3. f = [n \in 0..L |-> f[n]]
    BY <1>3
  <2> HIDE DEF L
  <2> QED BY <2>1, <2>3
<1>5. Is(CHOOSE g : Is(g))
  <2> HIDE DEF Is
  <2> QED BY <1>4
<1>6. Without(list, S) = (CHOOSE g : Is(g))[L]
  BY DEF Without
<1> DEFINE h == CHOOSE g : Is(g)
<1>7. \A n \in 0..L : h[n] = IF n = 0 THEN <<>>
                             ELSE IF list[n].stamp \in S THEN h[n - 1]
                             ELSE Append(h[n - 1], list[n])
  <2> HIDE DEF h
  <2>1. Is(h)
    BY <1>5 DEF h
  <2> QED BY <2>1
<1> HIDE DEF h
<1>8. h[0] = <<>>
  BY <1>7, <1>1
<1>9. ASSUME NEW n \in 1..L
      PROVE  h[n] = IF list[n].stamp \in S THEN h[n - 1] ELSE Append(h[n - 1], list[n])
  <2>1. n \in 0..L /\ n # 0
    BY <1>1
  <2> QED BY <1>7, <2>1
<1> QED BY <1>6, <1>8, <1>9 DEF h

(* Without takes the jobs with the given stamps from a list, and no others. *)
LEMMA WithoutIs ==
  ASSUME NEW list \in Seq(Job), Distinct(list), NEW S
  PROVE  /\ Without(list, S) \in Seq(Job) /\ Distinct(Without(list, S))
         /\ \A j : j \in Listed(Without(list, S)) <=>
                     j \in Listed(list) /\ j.stamp \notin S
<1> DEFINE N == Len(list)
           From(n) == {list[i] : i \in {k \in 1..n : list[k].stamp \notin S}}
<1>1. PICK kept : /\ Without(list, S) = kept[N]
                  /\ kept[0] = <<>>
                  /\ \A n \in 1..N :
                       kept[n] = IF list[n].stamp \in S THEN kept[n - 1]
                                 ELSE Append(kept[n - 1], list[n])
  BY WithoutRec
<1> DEFINE G == {n \in 0..N : /\ kept[n] \in Seq(Job) /\ Distinct(kept[n])
                              /\ Listed(kept[n]) = From(n)}
<1>2. N \in Nat /\ DOMAIN list = 1..N
  OBVIOUS
<1>3. 0 \in G
  <2>1. kept[0] = <<>> /\ 0 \in 0..N
    BY <1>1, <1>2
  <2>2. Listed(kept[0]) = {} /\ Distinct(kept[0]) /\ kept[0] \in Seq(Job)
    BY <2>1 DEF Distinct, Listed
  <2>3. From(0) = {}
    OBVIOUS
  <2> QED BY <2>1, <2>2, <2>3
<1>4. ASSUME NEW n \in 1..N, n - 1 \in G PROVE n \in G
  <2>1. kept[n] = IF list[n].stamp \in S THEN kept[n - 1]
                  ELSE Append(kept[n - 1], list[n])
    BY <1>1
  <2> DEFINE old == kept[n - 1]
  <2>2. old \in Seq(Job) /\ Distinct(old) /\ Listed(old) = From(n - 1)
    BY <1>4
  <2>3. list[n] \in Job /\ n \in 0..N
    BY <1>2
  <2>4. CASE list[n].stamp \in S
    <3>1. From(n) = From(n - 1)
      BY <2>4
    <3> QED BY <2>1, <2>2, <2>3, <2>4, <3>1
  <2>5. CASE list[n].stamp \notin S
    <3>1. From(n) = From(n - 1) \cup {list[n]}
      BY <2>5
    <3>2. kept[n] = Append(old, list[n])
      BY <2>1, <2>5
    <3>3. \A x \in Listed(old) : x.id # list[n].id /\ x.stamp # list[n].stamp
      <4>1. SUFFICES ASSUME NEW i \in 1..(n - 1)
                     PROVE  list[i].id # list[n].id /\ list[i].stamp # list[n].stamp
        BY <2>2
      <4>2. i \in DOMAIN list /\ n \in DOMAIN list /\ i # n
        BY <1>2
      <4> QED BY <4>2 DEF Distinct
    <3> HIDE DEF old
    <3>4. /\ kept[n] \in Seq(Job) /\ Distinct(kept[n])
          /\ \A x : x \in Listed(kept[n]) <=> x \in Listed(old) \/ x = list[n]
      BY <3>2, <3>3, <2>2, <2>3, AppendIs
    <3>5. Listed(kept[n]) = Listed(old) \cup {list[n]}
      BY <3>4
    <3> QED BY <3>1, <3>4, <3>5, <2>2, <2>3
  <2> QED BY <2>4, <2>5
<1>5. N \in G
  <2> HIDE DEF G
  <2>1. \A n \in 0..N : n \in G
    BY <1>2, <1>3, <1>4, Induction
  <2> QED BY <2>1, <1>2
<1>6. From(N) = {list[i] : i \in {k \in DOMAIN list : list[k].stamp \notin S}}
  BY <1>2
<1>7. Listed(kept[N]) = {list[i] : i \in {k \in DOMAIN list : list[k].stamp \notin S}}
  BY <1>5, <1>6
<1>8. \A j : j \in Listed(kept[N]) <=> j \in Listed(list) /\ j.stamp \notin S
  BY <1>7 DEF Listed
<1> QED BY <1>1, <1>5, <1>8

-----------------------------------------------------------------------------
(* Giving out job ids                                                       *)

(* The k-th id after the last one, which goes round at most once.           *)
LEMMA NextIdIs ==
  ASSUME NEW last \in 0..MaxJobId, NEW k \in 1..MaxJobId
  PROVE  /\ NextId(last, k) \in JobId
         /\ last # 0 => NextId(last, k) = IF last + k <= MaxJobId THEN last + k
                                         ELSE last + k - MaxJobId
<1> DEFINE x == last - 1 + k
<1>1. MaxJobId \in Nat \ {0} /\ x \in Int
  BY QueueConstants
<1>2. x % MaxJobId \in 0..(MaxJobId - 1)
  <2> HIDE DEF x
  <2> QED BY <1>1
<1>3. CASE last # 0 /\ last + k <= MaxJobId
  <2>1. x \in 0..(MaxJobId - 1)
    BY <1>1, <1>3
  <2>2. x % MaxJobId = x
    <3> HIDE DEF x
    <3> QED BY <1>1, <2>1
  <2> QED BY <1>1, <1>2, <1>3, <2>2 DEF NextId, JobId
<1>4. CASE last # 0 /\ ~(last + k <= MaxJobId)
  <2>1. x \in MaxJobId..(2 * MaxJobId - 1)
    BY <1>1, <1>4
  <2>2. x % MaxJobId = x - MaxJobId
    <3> HIDE DEF x
    <3> QED BY <1>1, <2>1
  <2> QED BY <1>1, <1>2, <1>4, <2>2 DEF NextId, JobId
<1>5. CASE last = 0
  BY <1>1, <1>2, <1>5 DEF NextId, JobId
<1> QED BY <1>3, <1>4, <1>5

(* The search visits every id but the last one given.                       *)
LEMMA SearchVisits ==
  ASSUME NEW last \in JobId, NEW id \in JobId, id # last
  PROVE  \E k \in 1..MaxJobId - 1 : NextId(last, k) = id
<1>1. MaxJobId \in Nat \ {0}
  BY QueueConstants
<1>2. CASE id > last
  <2>1. id - last \in 1..MaxJobId - 1 /\ id - last \in 1..MaxJobId
    BY <1>1, <1>2 DEF JobId
  <2>2. last \in 0..MaxJobId /\ last # 0 /\ last + (id - last) = id /\ id <= MaxJobId
    BY <1>1 DEF JobId
  <2>3. NextId(last, id - last) = id
    BY <2>1, <2>2, NextIdIs
  <2> QED BY <2>1, <2>3
<1>3. CASE ~(id > last)
  <2> DEFINE k == id - last + MaxJobId
  <2>1. k \in 1..MaxJobId - 1 /\ k \in 1..MaxJobId
    BY <1>1, <1>3 DEF JobId
  <2>2. /\ last \in 0..MaxJobId /\ last # 0 /\ ~(last + k <= MaxJobId)
        /\ last + k - MaxJobId = id
    BY <1>1, <1>3 DEF JobId
  <2>3. NextId(last, k) = id
    <3> HIDE DEF k
    <3> QED BY <2>1, <2>2, NextIdIs
  <2> QED BY <2>1, <2>3
<1> QED BY <1>2, <1>3

(* The list without a number: a job is added at its end, under its own id   *)
(* or a free one, or, when every id is taken, not at all.                   *)
LEMMA AddedIs ==
  ASSUME NEW list \in Seq(Job), NEW last \in 0..MaxJobId, NEW j \in Fields
  PROVE  \/ /\ add_queue_job([list |-> list, last |-> last], j)
                  = [list |-> list, last |-> last]
            /\ list # <<>> /\ FreeIds(list, last) = {}
         \/ \E id, new \in JobId :
              /\ add_queue_job([list |-> list, last |-> last], j)
                   = [list |-> Append(list, [j EXCEPT !.id = id]), last |-> new]
              /\ IF j.id = 0 THEN id = new /\ id \notin Ids(list) ELSE id = j.id
<1> DEFINE q == [list |-> list, last |-> last]
           k == IF list = <<>> THEN 1 ELSE Min(FreeIds(list, last))
           new == NextId(last, k)
           id == IF j.id = 0 THEN new ELSE j.id
<1>1. MaxJobId \in Nat \ {0} /\ q.list = list /\ q.last = last
  BY QueueConstants
<1>2. CASE list # <<>> /\ FreeIds(list, last) = {}
  BY <1>1, <1>2 DEF add_queue_job
<1>3. CASE ~(list # <<>> /\ FreeIds(list, last) = {})
  <2>1. k \in 1..MaxJobId /\ (list # <<>> => NextId(last, k) \notin Ids(list))
    <3>1. CASE list = <<>>
      BY <3>1, <1>1
    <3>2. CASE list # <<>>
      <4>1. FreeIds(list, last) \in SUBSET Nat /\ FreeIds(list, last) # {}
        BY <1>3, <3>2 DEF FreeIds
      <4>2. k \in FreeIds(list, last)
        BY <3>2, <4>1, MinIs
      <4> QED BY <4>2, <3>2, <1>1 DEF FreeIds
    <3> QED BY <3>1, <3>2
  <2>2. new \in JobId /\ (list # <<>> => new \notin Ids(list))
    <3> HIDE DEF k
    <3> QED BY <2>1, NextIdIs
  <2>3. list = <<>> => Ids(list) = {}
    BY DEF Ids
  <2>4. j.id \in 0..MaxJobId
    BY DEF Fields
  <2>5. id \in JobId /\ IF j.id = 0 THEN id = new /\ id \notin Ids(list) ELSE id = j.id
    <3> HIDE DEF new
    <3> QED BY <2>2, <2>3, <2>4 DEF JobId
  <2>6. add_queue_job(q, j) = [list |-> Append(list, [j EXCEPT !.id = id]), last |-> new]
    <3>1. add_queue_job(q, j) =
            [list |-> Append(q.list, [j EXCEPT !.id = IF @ = 0 THEN new ELSE @]),
             last |-> new]
      BY <1>1, <1>3 DEF add_queue_job
    <3>2. [j EXCEPT !.id = IF @ = 0 THEN new ELSE @] = [j EXCEPT !.id = id]
      OBVIOUS
    <3> HIDE DEF q, id, new
    <3> QED BY <3>1, <3>2, <1>1
  <2> HIDE DEF q, id, new
  <2> QED BY <2>2, <2>5, <2>6 DEF q
<1> QED BY <1>2, <1>3

(* A job with another number.                                               *)
LEMMA NumberedIs ==
  ASSUME NEW j \in Fields, NEW id \in JobId, NEW x, x = [j EXCEPT !.id = id]
  PROVE  /\ x \in Job /\ x.id = id /\ x.stamp = j.stamp
         /\ x.conn = j.conn /\ x.task = j.task /\ x.held = j.held
         /\ x.server = j.server /\ x.station = j.station
<1>1. id \in 0..MaxJobId /\ id # 0
  BY QueueConstants DEF JobId
<1> QED BY <1>1 DEF Fields, Job

(* CreateJob: the new job goes to the end of the list under an id that no   *)
(* job of the list has, or the list is full.                                *)
LEMMA NewJobIs ==
  ASSUME NEW list \in Seq(Job), Distinct(list), NEW last \in 0..MaxJobId,
         NEW j \in Fields, j.id = 0, \A x \in Listed(list) : x.stamp # j.stamp,
         NEW r, r = add_queue_job([list |-> list, last |-> last], j)
  PROVE  \/ r.list = list /\ r.last = last
         \/ /\ r.list \in Seq(Job) /\ Distinct(r.list) /\ r.list # list
            /\ r.last \in JobId /\ r.last \notin Ids(list)
            /\ \E new \in Job :
                 /\ new.id = r.last /\ new.stamp = j.stamp
                 /\ new.conn = j.conn /\ new.task = j.task /\ new.held = j.held
                 /\ new.server = j.server /\ new.station = j.station
                 /\ \A x : x \in Listed(r.list) <=> x \in Listed(list) \/ x = new
<1>1. CASE r = [list |-> list, last |-> last]
  BY <1>1
<1>2. ASSUME NEW id \in JobId, id \notin Ids(list),
             r = [list |-> Append(list, [j EXCEPT !.id = id]), last |-> id]
      PROVE  /\ r.list \in Seq(Job) /\ Distinct(r.list) /\ r.list # list
             /\ r.last \in JobId /\ r.last \notin Ids(list)
             /\ \E new \in Job :
                  /\ new.id = r.last /\ new.stamp = j.stamp
                  /\ new.conn = j.conn /\ new.task = j.task /\ new.held = j.held
                  /\ new.server = j.server /\ new.station = j.station
                  /\ \A x : x \in Listed(r.list) <=> x \in Listed(list) \/ x = new
  <2>1. PICK new : new = [j EXCEPT !.id = id]
    OBVIOUS
  <2>2. /\ new \in Job /\ new.id = id /\ new.stamp = j.stamp
        /\ new.conn = j.conn /\ new.task = j.task /\ new.held = j.held
        /\ new.server = j.server /\ new.station = j.station
    BY <2>1, NumberedIs
  <2>3. r.list = Append(list, new) /\ r.last = id
    BY <1>2, <2>1
  <2>4. \A x \in Listed(list) : x.id # new.id /\ x.stamp # new.stamp
    BY <1>2, <2>2 DEF Listed, Ids
  <2>5. /\ Append(list, new) \in Seq(Job) /\ Distinct(Append(list, new))
        /\ Append(list, new) # list
        /\ \A x : x \in Listed(Append(list, new)) <=> x \in Listed(list) \/ x = new
    BY <2>2, <2>4, AppendIs
  <2> QED BY <1>2, <2>2, <2>3, <2>5
<1>3. \/ r = [list |-> list, last |-> last]
      \/ \E id \in JobId : /\ id \notin Ids(list)
                           /\ r = [list |-> Append(list, [j EXCEPT !.id = id]), last |-> id]
  <2>1. \/ /\ r = [list |-> list, last |-> last]
           /\ list # <<>> /\ FreeIds(list, last) = {}
        \/ \E id, new \in JobId :
             /\ r = [list |-> Append(list, [j EXCEPT !.id = id]), last |-> new]
             /\ IF j.id = 0 THEN id = new /\ id \notin Ids(list) ELSE id = j.id
    BY AddedIs, Zenon
  <2> QED BY <2>1, Zenon
<1> QED BY <1>1, <1>2, <1>3

-----------------------------------------------------------------------------
(* Writing a list and reading it back                                       *)

(* A job as it is read back.                                                *)
SavedJob(j) == [j EXCEPT !.held = FALSE, !.server = NoUser, !.station = NoConn]

(* A job that is read back is the same one, released and without a server.  *)
LEMMA SavedIs ==
  ASSUME NEW j \in Job, NEW x, x = SavedJob(j)
  PROVE  /\ x \in Job /\ x.id = j.id /\ x.stamp = j.stamp
         /\ x.held = FALSE /\ x.server = NoUser /\ x.station = NoConn
<1>1. PICK h : h = [j EXCEPT !.held = FALSE]
  OBVIOUS
<1>2. h \in Job /\ h.id = j.id /\ h.stamp = j.stamp /\ h.held = FALSE
  BY <1>1 DEF Job, Fields
<1>3. PICK s : s = [h EXCEPT !.server = NoUser]
  OBVIOUS
<1>4. s \in Job /\ s.id = j.id /\ s.stamp = j.stamp /\ s.held = FALSE /\ s.server = NoUser
  BY <1>2, <1>3 DEF Job, Fields
<1>5. x = [s EXCEPT !.station = NoConn]
  BY <1>1, <1>3 DEF SavedJob
<1> QED BY <1>4, <1>5 DEF Job, Fields

(* A list without a free id has all ids.                                    *)
LEMMA AllIds ==
  ASSUME NEW list \in Seq(Job), NEW last \in JobId, FreeIds(list, last) = {},
         NEW id \in JobId, id # last
  PROVE  id \in Ids(list)
<1>1. PICK k \in 1..MaxJobId - 1 : NextId(last, k) = id
  BY SearchVisits
<1>2. k \notin FreeIds(list, last)
  OBVIOUS
<1> QED BY <1>1, <1>2 DEF FreeIds

(* A list of jobs with every id there is is full.                           *)
LEMMA FullList ==
  ASSUME NEW list \in Seq(Job), Distinct(list),
         \A id \in JobId : \E i \in DOMAIN list : list[i].id = id
  PROVE  Len(list) = MaxJobId
<1> DEFINE f == [i \in DOMAIN list |-> list[i].id]
<1>1. MaxJobId \in Nat \ {0} /\ DOMAIN list = 1..Len(list) /\ Len(list) \in Nat
  BY QueueConstants
<1>2. \A i \in DOMAIN list : list[i] \in Job /\ list[i].id \in JobId
  BY <1>1 DEF Job, Fields, JobId
<1>3. f \in [DOMAIN list -> JobId]
  BY <1>2
<1>4. f \in Bijection(DOMAIN list, JobId)
  <2>1. \A i, k \in DOMAIN list : f[i] = f[k] => i = k
    BY DEF Distinct
  <2>2. \A id \in JobId : \E i \in DOMAIN list : f[i] = id
    OBVIOUS
  <2> HIDE DEF f
  <2> QED BY <1>3, <2>1, <2>2 DEF Bijection, Injection, Surjection, IsInjective
<1>5. IsFiniteSet(DOMAIN list) /\ Cardinality(DOMAIN list) = Len(list)
  BY <1>1, FS_Interval
<1>6. Cardinality(JobId) = MaxJobId
  BY <1>1, FS_Interval DEF JobId
<1>7. ExistsBijection(DOMAIN list, JobId)
  BY <1>4 DEF ExistsBijection
<1> QED BY <1>5, <1>6, <1>7, FS_Bijection

(* What add_queue_job takes and gives is a list with its last id.           *)
LEMMA AddedType ==
  ASSUME NEW q \in [list : Seq(Job), last : 0..MaxJobId], NEW j \in Fields
  PROVE  add_queue_job(q, j) \in [list : Seq(Job), last : 0..MaxJobId]
<1>1. PICK list \in Seq(Job), last \in 0..MaxJobId : q = [list |-> list, last |-> last]
  OBVIOUS
<1>2. CASE add_queue_job(q, j) = q
  BY <1>2
<1>3. ASSUME NEW id \in JobId, NEW new \in JobId,
             add_queue_job(q, j)
               = [list |-> Append(list, [j EXCEPT !.id = id]), last |-> new]
      PROVE  add_queue_job(q, j) \in [list : Seq(Job), last : 0..MaxJobId]
  <2>1. PICK x : x = [j EXCEPT !.id = id]
    OBVIOUS
  <2>2. x \in Job
    BY <2>1, NumberedIs
  <2>3. Append(list, x) \in Seq(Job)
    BY <2>2
  <2>4. new \in 0..MaxJobId
    BY QueueConstants DEF JobId
  <2> QED BY <1>3, <2>1, <2>3, <2>4
<1>4. \/ /\ add_queue_job(q, j) = q
         /\ list # <<>> /\ FreeIds(list, last) = {}
      \/ \E id, new \in JobId :
           /\ add_queue_job(q, j)
                = [list |-> Append(list, [j EXCEPT !.id = id]), last |-> new]
           /\ IF j.id = 0 THEN id = new /\ id \notin Ids(list) ELSE id = j.id
  <2>1. \/ /\ add_queue_job([list |-> list, last |-> last], j)
                 = [list |-> list, last |-> last]
           /\ list # <<>> /\ FreeIds(list, last) = {}
        \/ \E id, new \in JobId :
             /\ add_queue_job([list |-> list, last |-> last], j)
                  = [list |-> Append(list, [j EXCEPT !.id = id]), last |-> new]
             /\ IF j.id = 0 THEN id = new /\ id \notin Ids(list) ELSE id = j.id
    BY AddedIs, Zenon
  <2> QED BY <1>1, <2>1, Zenon
<1> QED BY <1>2, <1>3, <1>4

(* The recursion of r_w_queue_jobs, and that it has a solution.             *)
LEMMA RereadRec ==
  ASSUME NEW list \in Seq(Job)
  PROVE  \E read : /\ r_w_queue_jobs(list) = read[Len(list)]
                   /\ read[0] = [list |-> <<>>, last |-> 0]
                   /\ \A n \in 1..Len(list) :
                        read[n] = add_queue_job(read[n - 1], SavedJob(list[n]))
<1> DEFINE L == Len(list)
           Q == [list : Seq(Job), last : 0..MaxJobId]
           empty == [list |-> <<>>, last |-> 0]
           add == [n \in 1..L |-> [x \in Q |-> add_queue_job(x, SavedJob(list[n]))]]
           Is(g) == g = [n \in 0..L |->
                        IF n = 0 THEN [list |-> <<>>, last |-> 0]
                        ELSE add_queue_job(g[n - 1], Saved(list)[n])]
<1>1. L \in Nat /\ empty \in Q
  BY QueueConstants
<1>2. \A n \in 1..L : Saved(list)[n] = SavedJob(list[n])
  <2>1. SUFFICES ASSUME NEW n \in DOMAIN list PROVE Saved(list)[n] = SavedJob(list[n])
    OBVIOUS
  <2> QED BY DEF Saved, SavedJob
<1>3. add \in [1..L -> [Q -> Q]]
  <2>1. ASSUME NEW n \in 1..L, NEW x \in Q
        PROVE  add_queue_job(x, SavedJob(list[n])) \in Q
    <3>1. list[n] \in Job
      OBVIOUS
    <3>2. PICK y : y = SavedJob(list[n])
      OBVIOUS
    <3>3. y \in Fields
      BY <3>1, <3>2, SavedIs DEF Job
    <3>4. add_queue_job(x, y) \in Q
      BY <3>3, AddedType
    <3> QED BY <3>2, <3>4
  <2> HIDE DEF Q, L
  <2> QED BY <2>1
<1>4. PICK f \in [0..L -> Q] : Iterates(f, L, empty, add)
  <2> HIDE DEF Q, empty, add, L
  <2> QED BY <1>1, <1>3, Recursion
<1>5. Is(f)
  <2>1. ASSUME NEW n \in 0..L
        PROVE  f[n] = IF n = 0 THEN [list |-> <<>>, last |-> 0]
                      ELSE add_queue_job(f[n - 1], Saved(list)[n])
    <3>1. CASE n = 0
      <4>1. f[0] = empty
        <5> HIDE DEF Q, empty, add, L
        <5> QED BY <1>4, <3>1 DEF Iterates
      <4> QED BY <4>1, <3>1
    <3>2. CASE n # 0
      <4>1. n \in 1..L /\ n - 1 \in 0..L
        BY <3>2, <1>1
      <4>2. f[n - 1] \in Q
        <5> HIDE DEF Q
        <5> QED BY <4>1
      <4>3. f[n] = add[n][f[n - 1]]
        <5> HIDE DEF Q, empty, add, L
        <5> QED BY <1>4, <3>2 DEF Iterates
      <4>4. add[n][f[n - 1]] = add_queue_job(f[n - 1], SavedJob(list[n]))
        <5> HIDE DEF Q
        <5> QED BY <4>1, <4>2
      <4> HIDE DEF add, L
      <4> QED BY <4>1, <4>3, <4>4, <1>2, <3>2
    <3> QED BY <3>1, <3>2
  <2>2. f = [n \in 0..L |-> f[n]]
    BY <1>4
  <2> HIDE DEF L
  <2> QED BY <2>1, <2>2
<1>6. Is(CHOOSE g : Is(g))
  <2> HIDE DEF Is
  <2> QED BY <1>5
<1>7. r_w_queue_jobs(list) = (CHOOSE g : Is(g))[L]
  BY DEF r_w_queue_jobs
<1> DEFINE h == CHOOSE g : Is(g)
<1>8. \A n \in 0..L : h[n] = IF n = 0 THEN [list |-> <<>>, last |-> 0]
                             ELSE add_queue_job(h[n - 1], Saved(list)[n])
  <2> HIDE DEF h
  <2>1. Is(h)
    BY <1>6 DEF h
  <2> QED BY <2>1
<1> HIDE DEF h
<1>9. h[0] = [list |-> <<>>, last |-> 0]
  BY <1>8, <1>1
<1>10. ASSUME NEW n \in 1..L
       PROVE  h[n] = add_queue_job(h[n - 1], SavedJob(list[n]))
  <2>1. n \in 0..L /\ n # 0
    BY <1>1
  <2> QED BY <1>8, <1>2, <2>1
<1> QED BY <1>7, <1>9, <1>10 DEF h

(* What is read back of the first n jobs of a list: the jobs themselves,    *)
(* released, and all of them unless the list had every id there is.         *)
ReadUpTo(r, list, n) ==
  /\ r \in [list : Seq(Job), last : 0..MaxJobId] /\ Distinct(r.list)
  /\ r.list # <<>> => r.last # 0
  /\ \A x \in Listed(r.list) : \E i \in 1..n : x = SavedJob(list[i])
  /\ \/ \A i \in 1..n : SavedJob(list[i]) \in Listed(r.list)
     \/ \A id \in JobId : \E i \in DOMAIN list : list[i].id = id

(* One more job is read back.                                               *)
LEMMA ReadStep ==
  ASSUME NEW list \in Seq(Job), Distinct(list), NEW n \in 1..Len(list),
         NEW q, ReadUpTo(q, list, n - 1),
         NEW r, r = add_queue_job(q, SavedJob(list[n]))
  PROVE  ReadUpTo(r, list, n)
<1>1. PICK j : j = SavedJob(list[n])
  OBVIOUS
<1>2. /\ n \in DOMAIN list /\ list[n] \in Job /\ n \in 1..n
      /\ \A i \in 1..(n - 1) : i \in 1..n /\ i \in DOMAIN list /\ i # n
      /\ \A i \in 1..n : i \in DOMAIN list /\ (i = n \/ i \in 1..(n - 1))
  OBVIOUS
<1>3. j \in Job /\ j.id = list[n].id /\ j.stamp = list[n].stamp
  BY <1>1, <1>2, SavedIs
<1>4. PICK old \in Seq(Job), last \in 0..MaxJobId : q = [list |-> old, last |-> last]
  BY DEF ReadUpTo
<1>5. /\ Distinct(old) /\ (old # <<>> => last # 0)
      /\ \A x \in Listed(old) : \E i \in 1..(n - 1) : x = SavedJob(list[i])
      /\ \/ \A i \in 1..(n - 1) : SavedJob(list[i]) \in Listed(old)
         \/ \A id \in JobId : \E i \in DOMAIN list : list[i].id = id
  BY <1>4 DEF ReadUpTo
<1>6. \A x \in Listed(old) : \E i \in 1..(n - 1) :
         x = SavedJob(list[i]) /\ x.id = list[i].id /\ x.stamp = list[i].stamp
  <2>1. TAKE x \in Listed(old)
  <2>2. PICK i \in 1..(n - 1) : x = SavedJob(list[i])
    BY <1>5
  <2>3. list[i] \in Job
    BY <1>2
  <2>4. x.id = list[i].id /\ x.stamp = list[i].stamp
    BY <2>2, <2>3, SavedIs
  <2> QED BY <2>2, <2>4
<1>7. \A x \in Listed(old) : x.id # j.id /\ x.stamp # j.stamp
  BY <1>2, <1>3, <1>6 DEF Distinct
<1>8. CASE r = q /\ old # <<>> /\ FreeIds(old, last) = {}
  <2>1. last \in JobId
    BY <1>5, <1>8, QueueConstants DEF JobId
  <2>2. ASSUME NEW id \in JobId PROVE \E i \in DOMAIN list : list[i].id = id
    <3>1. CASE id # last
      <4>1. id \in Ids(old)
        BY <1>8, <2>1, <3>1, AllIds
      <4>2. PICK x \in Listed(old) : x.id = id
        BY <4>1 DEF Ids, Listed
      <4> QED BY <4>2, <1>2, <1>6
    <3>2. CASE id = last
      <4>1. j.id \in JobId
        BY <1>3 DEF Job, Fields, JobId
      <4>2. j.id \notin Ids(old)
        BY <1>7 DEF Ids, Listed
      <4>3. j.id = last
        BY <1>8, <2>1, <4>1, <4>2, AllIds
      <4> QED BY <3>2, <4>3, <1>2, <1>3
    <3> QED BY <3>1, <3>2
  <2>3. \A x \in Listed(r.list) : \E i \in 1..n : x = SavedJob(list[i])
    BY <1>2, <1>4, <1>5, <1>8
  <2> QED BY <1>4, <1>5, <1>8, <2>2, <2>3 DEF ReadUpTo
<1>9. ASSUME NEW new \in JobId, r = [list |-> Append(old, j), last |-> new]
      PROVE  ReadUpTo(r, list, n)
  <2>1. /\ Append(old, j) \in Seq(Job) /\ Distinct(Append(old, j))
        /\ \A x : x \in Listed(Append(old, j)) <=> x \in Listed(old) \/ x = j
    BY <1>3, <1>5, <1>7, AppendIs
  <2>2. new \in 0..MaxJobId /\ new # 0
    BY QueueConstants DEF JobId
  <2>3. r \in [list : Seq(Job), last : 0..MaxJobId] /\ Distinct(r.list) /\ r.last # 0
    BY <1>9, <2>1, <2>2
  <2>4. \A x : x \in Listed(r.list) <=> x \in Listed(old) \/ x = j
    BY <1>9, <2>1
  <2>5. \A x \in Listed(r.list) : \E i \in 1..n : x = SavedJob(list[i])
    BY <1>1, <1>2, <1>5, <2>4
  <2>6. \/ \A i \in 1..n : SavedJob(list[i]) \in Listed(r.list)
        \/ \A id \in JobId : \E i \in DOMAIN list : list[i].id = id
    BY <1>1, <1>2, <1>5, <2>4
  <2> QED BY <2>3, <2>5, <2>6 DEF ReadUpTo
<1>10. \/ r = q /\ old # <<>> /\ FreeIds(old, last) = {}
       \/ \E new \in JobId : r = [list |-> Append(old, j), last |-> new]
  <2>1. j \in Fields /\ j.id # 0
    BY <1>3 DEF Job
  <2>2. \/ /\ add_queue_job([list |-> old, last |-> last], j)
                 = [list |-> old, last |-> last]
           /\ old # <<>> /\ FreeIds(old, last) = {}
        \/ \E id, new \in JobId :
             /\ add_queue_job([list |-> old, last |-> last], j)
                  = [list |-> Append(old, [j EXCEPT !.id = id]), last |-> new]
             /\ IF j.id = 0 THEN id = new /\ id \notin Ids(old) ELSE id = j.id
    BY <2>1, AddedIs, Zenon
  <2>3. [j EXCEPT !.id = j.id] = j
    BY <2>1 DEF Fields
  <2> QED BY <1>1, <1>4, <2>1, <2>2, <2>3, Zenon
<1> QED BY <1>8, <1>9, <1>10

(* A list that is read back has distinct ids and files again, and a job is  *)
(* missing from it only when the list was full.                             *)
LEMMA RereadIs ==
  ASSUME NEW list \in Seq(Job), Distinct(list), NEW r, r = r_w_queue_jobs(list)
  PROVE  /\ r.list \in Seq(Job) /\ Distinct(r.list) /\ r.last \in 0..MaxJobId
         /\ r.list # <<>> => r.last # 0
         /\ \A x \in Listed(r.list) : \E j \in Listed(list) : x = SavedJob(j)
         /\ \/ \A j \in Listed(list) : SavedJob(j) \in Listed(r.list)
            \/ Len(list) = MaxJobId
<1>1. PICK read : /\ r = read[Len(list)]
                  /\ read[0] = [list |-> <<>>, last |-> 0]
                  /\ \A n \in 1..Len(list) :
                       read[n] = add_queue_job(read[n - 1], SavedJob(list[n]))
  BY RereadRec
<1> DEFINE G == {n \in 0..Len(list) : ReadUpTo(read[n], list, n)}
<1>2. Len(list) \in Nat /\ DOMAIN list = 1..Len(list)
  OBVIOUS
<1>3. 0 \in G
  <2>1. 0 \in 0..MaxJobId
    BY QueueConstants
  <2>2. ReadUpTo(read[0], list, 0)
    BY <1>1, <2>1 DEF ReadUpTo, Distinct, Listed
  <2> QED BY <1>2, <2>2
<1>4. ASSUME NEW n \in 1..Len(list), n - 1 \in G PROVE n \in G
  <2>1. ReadUpTo(read[n], list, n)
    BY <1>1, <1>4, ReadStep
  <2> QED BY <1>2, <2>1
<1>5. Len(list) \in G
  <2> HIDE DEF G
  <2>1. \A n \in 0..Len(list) : n \in G
    BY <1>2, <1>3, <1>4, Induction
  <2> QED BY <1>2, <2>1
<1>6. ReadUpTo(r, list, Len(list))
  BY <1>1, <1>5
<1>7. (\A id \in JobId : \E i \in DOMAIN list : list[i].id = id) => Len(list) = MaxJobId
  BY FullList
<1> QED BY <1>2, <1>6, <1>7 DEF ReadUpTo, Listed

-----------------------------------------------------------------------------
(* The lists of the queues and what the connection processes hold           *)

Entry == [q : Queue, id : JobId, task : Task, stamp : Stamp,
          mode : {"write", "read", "closed"}]

Request ==
  {NoRequest}
  \cup [op : {"create", "service"}, q : Queue, id : JobId, task : Task, stamp : Stamp]
  \cup [op : {"close"}, q : Queue, id : JobId]
  \cup [op : {"print"}, q : Queue, id : JobId, direct : BOOLEAN]
  \cup [op : {"finish"}, q : Queue, id : JobId, abort : BOOLEAN]
  \cup [op : {"end"}, tasks : SUBSET Task]

TypeOK ==
  /\ jobs \in [Queue -> Seq(Job)]
  /\ lastId \in [Queue -> 0..MaxJobId]
  /\ clock \in 0..MaxClock
  /\ user \in [Conn -> User \cup {NoUser}]
  /\ local \in [Conn -> SUBSET Entry]
  /\ pend \in [Conn -> Request]

(* The jobs of a queue are told apart by id and by file, their files are of *)
(* the queue, and a destroyed queue has none.                               *)
Lists ==
  \A q \in Queue :
    /\ Distinct(jobs[q])
    /\ jobs[q] # <<>> => lastId[q] # 0
    /\ qstate[q] = "off" => jobs[q] = <<>>
    /\ \A j \in Listed(jobs[q]) : j.stamp[1] = q /\ j.stamp[2] <= clock

Requests(p) == p.op \in {"create", "service"}

(* A connection process knows only files that were made, and sends requests *)
(* only for a user.                                                         *)
Holdings ==
  \A c \in Conn :
    /\ \A e \in local[c] : e.stamp[2] <= clock
    /\ Requests(pend[c]) => pend[c].stamp[2] <= clock
    /\ pend[c] # NoRequest => user[c] # NoUser

ListInv == TypeOK /\ Lists /\ Holdings

(* The fields of the requests.                                              *)
LEMMA RequestIs ==
  ASSUME NEW p \in Request
  PROVE  /\ Requests(p) => /\ p.q \in Queue /\ p.id \in JobId
                           /\ p.task \in Task /\ p.stamp \in Stamp
         /\ p.op \in {"close", "print", "finish"} => p.q \in Queue /\ p.id \in JobId
         /\ p.op = "end" => p.tasks \in SUBSET Task
         /\ p.op # "none" => p # NoRequest
         /\ ~Requests(NoRequest) /\ NoRequest.op = "none" /\ NoRequest \in Request
  BY DEF Request, Requests, NoRequest

(* What a step other than the creation of a job does to a list: the jobs    *)
(* that stay keep their id and their file.                                  *)
Follows(new, old) ==
  /\ new \in Seq(Job) /\ Distinct(new)
  /\ \A x \in Listed(new) : \E j \in Listed(old) : x.id = j.id /\ x.stamp = j.stamp

(* A list follows itself.                                                   *)
LEMMA FollowsSelf ==
  ASSUME NEW list \in Seq(Job), Distinct(list)
  PROVE  Follows(list, list)
  BY DEF Follows

(* A list follows a list without some of its jobs.                          *)
LEMMA FollowsWithout ==
  ASSUME NEW old, NEW list, Follows(list, old), NEW S
  PROVE  Follows(Without(list, S), old)
  BY WithoutIs DEF Follows

Replaced(list, i, y) == [list EXCEPT ![i] = y]

(* One job of a list is replaced by another one with its id and its file.   *)
LEMMA ReplaceIs ==
  ASSUME NEW list \in Seq(Job), Distinct(list), NEW i \in DOMAIN list,
         NEW y \in Job, y.id = list[i].id, y.stamp = list[i].stamp,
         NEW new, new = Replaced(list, i, y)
  PROVE  /\ Follows(new, list)
         /\ \A x : x \in Listed(new) <=> x = y \/ (x \in Listed(list) /\ x # list[i])
<1>1. /\ new \in Seq(Job) /\ DOMAIN new = DOMAIN list /\ new[i] = y
      /\ \A k \in DOMAIN list : k # i => new[k] = list[k]
  BY DEF Replaced
<1>2. \A k \in DOMAIN new : new[k].id = list[k].id /\ new[k].stamp = list[k].stamp
  BY <1>1
<1>3. Distinct(new)
  BY <1>1, <1>2 DEF Distinct
<1>4. \A x : x \in Listed(new) <=> x = y \/ (x \in Listed(list) /\ x # list[i])
  <2>1. ASSUME NEW x \in Listed(new) PROVE x = y \/ (x \in Listed(list) /\ x # list[i])
    <3>1. PICK k \in DOMAIN list : x = new[k]
      BY <1>1 DEF Listed
    <3>2. CASE k = i
      BY <1>1, <3>1, <3>2
    <3>3. CASE k # i
      <4>1. x = list[k]
        BY <1>1, <3>1, <3>3
      <4>2. list[k] # list[i]
        BY <3>3 DEF Distinct
      <4> QED BY <4>1, <4>2 DEF Listed
    <3> QED BY <3>2, <3>3
  <2>2. ASSUME NEW x \in Listed(list), x # list[i] PROVE x \in Listed(new)
    BY <1>1, <2>2 DEF Listed
  <2>3. y \in Listed(new)
    BY <1>1 DEF Listed
  <2> QED BY <2>1, <2>2, <2>3
<1>5. \A x \in Listed(new) : \E j \in Listed(list) : x.id = j.id /\ x.stamp = j.stamp
  BY <1>1, <1>2 DEF Listed
<1> QED BY <1>1, <1>3, <1>4, <1>5 DEF Follows

(* A job that is released, and one that gets a queue server.                *)
LEMMA ReleasedIs ==
  ASSUME NEW j \in Job, NEW x, x = [j EXCEPT !.held = FALSE]
  PROVE  /\ x \in Job /\ x.id = j.id /\ x.stamp = j.stamp /\ x.conn = j.conn
         /\ x.task = j.task /\ x.server = j.server /\ x.station = j.station
         /\ x.held = FALSE
  BY DEF Job, Fields

(* A job at a queue server, or taken from it.                               *)
Placed(j, u, c) == [j EXCEPT !.server = u, !.station = c]

(* Only the server and the station of the job change.                       *)
LEMMA ServerIs ==
  ASSUME NEW j \in Job, NEW u \in User \cup {NoUser}, NEW c \in Conn \cup {NoConn},
         NEW x, x = Placed(j, u, c)
  PROVE  /\ x \in Job /\ x.id = j.id /\ x.stamp = j.stamp /\ x.conn = j.conn
         /\ x.task = j.task /\ x.server = u /\ x.station = c
         /\ x.held = j.held
<1>1. PICK s : s = [j EXCEPT !.server = u]
  OBVIOUS
<1>2. s \in Job /\ s.id = j.id /\ s.stamp = j.stamp /\ s.held = j.held
      /\ s.conn = j.conn /\ s.task = j.task /\ s.server = u
  BY <1>1 DEF Job, Fields
<1>3. x = [s EXCEPT !.station = c]
  BY <1>1 DEF Placed
<1> QED BY <1>2, <1>3 DEF Job, Fields

(* The parts of a job that never change.                                    *)
Alike(x, j) ==
  x.id = j.id /\ x.stamp = j.stamp /\ x.conn = j.conn /\ x.task = j.task

(* A step on the list of one queue.                                         *)
LEMMA OneListStep ==
  ASSUME TypeOK, Lists, NEW q \in Queue, NEW new, Follows(new, jobs[q]),
         jobs' = [jobs EXCEPT ![q] = new]
  PROVE  /\ jobs' \in [Queue -> Seq(Job)]
         /\ \A r \in Queue : Follows(jobs'[r], jobs[r])
         /\ jobs'[q] = new /\ \A r \in Queue : r # q => jobs'[r] = jobs[r]
<1>1. new \in Seq(Job)
  BY DEF Follows
<1>2. \A r \in Queue : Follows(jobs[r], jobs[r])
  BY FollowsSelf DEF TypeOK, Lists
<1> QED BY <1>1, <1>2 DEF TypeOK

(* CloseJob: the job is released or taken from the list.                    *)
LEMMA CloseJobEffect ==
  ASSUME TypeOK, Lists, NEW c \in Conn, NEW direct \in BOOLEAN, CloseJob(c, direct)
  PROVE  /\ jobs' \in [Queue -> Seq(Job)]
         /\ \A r \in Queue : Follows(jobs'[r], jobs[r])
         /\ \A r \in Queue : \A x \in Listed(jobs'[r]) :
              \/ x \in Listed(jobs[r])
              \/ /\ r = pend[c].q /\ x.id = pend[c].id /\ pend'[c].op = "print"
                 /\ x.held = FALSE
                 /\ \E j \in Listed(jobs[r]) :
                      Alike(x, j) /\ x.server = j.server /\ x.station = j.station
         /\ \/ pend' = [pend EXCEPT ![c] = NoRequest]
            \/ pend' = [pend EXCEPT ![c] = [op |-> "print", q |-> pend[c].q,
                                           id |-> pend[c].id, direct |-> direct]]
         /\ pend'[c].op = "print" \/ jobs' = jobs
<1> DEFINE q == pend[c].q
           found == {i \in DOMAIN jobs[q] : jobs[q][i].id = pend[c].id}
           print == [op |-> "print", q |-> pend[c].q, id |-> pend[c].id, direct |-> direct]
<1>1. pend[c].op = "close" /\ q \in Queue /\ c \in DOMAIN pend
  <2>1. pend[c].op = "close" /\ pend[c] \in Request /\ c \in DOMAIN pend
    BY DEF CloseJob, TypeOK
  <2> QED BY <2>1, RequestIs
<1>2. CASE found = {} \/ qstate[q] = "off"
  <2>1. pend' = [pend EXCEPT ![c] = NoRequest] /\ jobs' = jobs
    BY <1>2 DEF CloseJob, Sends
  <2>2. \A r \in Queue : Follows(jobs[r], jobs[r])
    BY FollowsSelf DEF TypeOK, Lists
  <2> QED BY <2>1, <2>2 DEF TypeOK
<1>3. CASE ~(found = {} \/ qstate[q] = "off")
  <2> DEFINE i == Min(found)
  <2>1. found \in SUBSET Nat /\ found # {}
    BY <1>1, <1>3 DEF TypeOK
  <2>2. i \in found
    <3> HIDE DEF found
    <3> QED BY <2>1, MinIs
  <2>3. /\ jobs' = [jobs EXCEPT ![q] = IF direct THEN Without(@, {@[i].stamp})
                                       ELSE [@ EXCEPT ![i].held = FALSE]]
        /\ pend' = [pend EXCEPT ![c] = print]
    BY <1>3 DEF CloseJob, Sends
  <2> HIDE DEF i
  <2>4. i \in DOMAIN jobs[q] /\ jobs[q][i].id = pend[c].id
    BY <2>2
  <2>5. jobs[q] \in Seq(Job) /\ Distinct(jobs[q])
    BY <1>1 DEF TypeOK, Lists
  <2>6. pend'[c].op = "print"
    BY <1>1, <2>3
  <2> HIDE DEF found, print
  <2>7. CASE direct
    <3>1. PICK new : new = Without(jobs[q], {jobs[q][i].stamp})
      OBVIOUS
    <3>2. jobs' = [jobs EXCEPT ![q] = new]
      BY <2>3, <2>7, <3>1
    <3>3. Follows(new, jobs[q]) /\ \A x \in Listed(new) : x \in Listed(jobs[q])
      BY <2>5, <3>1, WithoutIs, FollowsSelf, FollowsWithout
    <3>4. /\ jobs' \in [Queue -> Seq(Job)]
          /\ \A r \in Queue : Follows(jobs'[r], jobs[r])
          /\ jobs'[q] = new /\ \A r \in Queue : r # q => jobs'[r] = jobs[r]
      BY <1>1, <3>2, <3>3, OneListStep
    <3> QED BY <2>3, <2>6, <3>3, <3>4 DEF print
  <2>8. CASE ~direct
    <3>1. PICK y : y = [jobs[q][i] EXCEPT !.held = FALSE]
      OBVIOUS
    <3>2. PICK new : new = Replaced(jobs[q], i, y)
      OBVIOUS
    <3>3. jobs' = [jobs EXCEPT ![q] = new]
      BY <2>3, <2>8, <3>1, <3>2 DEF Replaced
    <3>4. jobs[q][i] \in Job /\ jobs[q][i] \in Listed(jobs[q])
      BY <2>4, <2>5 DEF Listed
    <3>5. /\ y \in Job /\ Alike(y, jobs[q][i]) /\ y.held = FALSE
          /\ y.server = jobs[q][i].server /\ y.station = jobs[q][i].station
      BY <3>1, <3>4, ReleasedIs DEF Alike
    <3>6. /\ Follows(new, jobs[q])
          /\ \A x \in Listed(new) : x = y \/ x \in Listed(jobs[q])
      BY <2>4, <2>5, <3>2, <3>5, ReplaceIs DEF Alike
    <3>7. /\ jobs' \in [Queue -> Seq(Job)]
          /\ \A r \in Queue : Follows(jobs'[r], jobs[r])
          /\ jobs'[q] = new /\ \A r \in Queue : r # q => jobs'[r] = jobs[r]
      BY <1>1, <3>3, <3>6, OneListStep
    <3>8. y.id = pend[c].id
      BY <2>4, <3>5 DEF Alike
    <3>9. ASSUME NEW r \in Queue, NEW x \in Listed(jobs'[r])
          PROVE  \/ x \in Listed(jobs[r])
                 \/ /\ r = q /\ x.id = pend[c].id /\ pend'[c].op = "print"
                    /\ x.held = FALSE
                    /\ \E j \in Listed(jobs[r]) :
                         Alike(x, j) /\ x.server = j.server /\ x.station = j.station
      BY <2>6, <3>4, <3>5, <3>6, <3>7, <3>8
    <3> QED BY <2>3, <2>6, <3>7, <3>9 DEF print
  <2> QED BY <2>7, <2>8
<1> QED BY <1>2, <1>3

(* FinishJob: the job its queue server is done with waits again or is       *)
(* removed.                                                                 *)
LEMMA FinishJobEffect ==
  ASSUME TypeOK, Lists, NEW c \in Conn, FinishJob(c)
  PROVE  /\ jobs' \in [Queue -> Seq(Job)]
         /\ \A r \in Queue : Follows(jobs'[r], jobs[r])
         /\ \A r \in Queue : \A x \in Listed(jobs'[r]) :
              \/ x \in Listed(jobs[r])
              \/ /\ r = pend[c].q /\ x.id = pend[c].id /\ x.server = NoUser
                 /\ \E j \in Listed(jobs[r]) :
                      Alike(x, j) /\ x.held = j.held /\ Serves(c, j)
         /\ \A r \in Queue : \A j \in Listed(jobs[r]) :
              \/ \E x \in Listed(jobs'[r]) : x.stamp = j.stamp
              \/ Serves(c, j)
<1> DEFINE q == pend[c].q
           found == {i \in DOMAIN jobs[q] : jobs[q][i].id = pend[c].id}
<1>1. pend[c].op = "finish" /\ q \in Queue
  <2>1. pend[c].op = "finish" /\ pend[c] \in Request
    BY DEF FinishJob, TypeOK
  <2> QED BY <2>1, RequestIs
<1>2. CASE ~\E i \in found : Serves(c, jobs[q][i])
  <2>1. jobs' = jobs
    BY <1>2 DEF FinishJob
  <2>2. \A r \in Queue : Follows(jobs[r], jobs[r])
    BY FollowsSelf DEF TypeOK, Lists
  <2> QED BY <2>1, <2>2 DEF TypeOK
<1>3. CASE \E i \in found : Serves(c, jobs[q][i])
  <2>1. PICK i \in found :
          IF pend[c].abort /\ jobs[q][i].restart
          THEN jobs' = [jobs EXCEPT ![q][i].server = NoUser, ![q][i].station = NoConn]
          ELSE jobs' = [jobs EXCEPT ![q] = Without(@, {@[i].stamp})]
    BY <1>3 DEF FinishJob
  <2>2. jobs[q] \in Seq(Job) /\ Distinct(jobs[q]) /\ q \in DOMAIN jobs
    BY <1>1 DEF TypeOK, Lists
  <2>3. i \in DOMAIN jobs[q] /\ jobs[q][i].id = pend[c].id
    BY <2>1
  <2>4. Serves(c, jobs[q][i])
    BY <1>3, <2>2, <2>3 DEF Distinct
  <2>5. jobs[q][i] \in Job /\ jobs[q][i] \in Listed(jobs[q])
    BY <2>2, <2>3 DEF Listed
  <2> HIDE DEF found
  <2>6. CASE pend[c].abort /\ jobs[q][i].restart
    <3>1. PICK y : y = [jobs[q][i] EXCEPT !.server = NoUser, !.station = NoConn]
      OBVIOUS
    <3>2. PICK new : new = Replaced(jobs[q], i, y)
      OBVIOUS
    <3>3. jobs' = [jobs EXCEPT ![q] = new]
      BY <2>1, <2>2, <2>3, <2>6, <3>1, <3>2 DEF Replaced
    <3>4. /\ y \in Job /\ Alike(y, jobs[q][i]) /\ y.held = jobs[q][i].held
          /\ y.server = NoUser
      <4>1. PICK j \in Job : j = jobs[q][i]
        BY <2>5
      <4>2. NoUser \in User \cup {NoUser} /\ NoConn \in Conn \cup {NoConn}
        OBVIOUS
      <4>3. y = Placed(j, NoUser, NoConn)
        BY <3>1, <4>1 DEF Placed
      <4>4. /\ y \in Job /\ y.id = j.id /\ y.stamp = j.stamp /\ y.conn = j.conn
            /\ y.task = j.task /\ y.server = NoUser /\ y.held = j.held
        BY <4>2, <4>3, ServerIs
      <4> QED BY <4>1, <4>4 DEF Alike
    <3>5. /\ Follows(new, jobs[q])
          /\ \A x : x \in Listed(new) <=>
                     x = y \/ (x \in Listed(jobs[q]) /\ x # jobs[q][i])
      BY <2>2, <2>3, <3>2, <3>4, ReplaceIs DEF Alike
    <3>6. /\ jobs' \in [Queue -> Seq(Job)]
          /\ \A r \in Queue : Follows(jobs'[r], jobs[r])
          /\ jobs'[q] = new /\ \A r \in Queue : r # q => jobs'[r] = jobs[r]
      BY <1>1, <3>3, <3>5, OneListStep
    <3>7. y.id = pend[c].id /\ y.stamp = jobs[q][i].stamp
      BY <2>3, <3>4 DEF Alike
    <3>8. ASSUME NEW r \in Queue, NEW x \in Listed(jobs'[r])
          PROVE  \/ x \in Listed(jobs[r])
                 \/ /\ r = pend[c].q /\ x.id = pend[c].id /\ x.server = NoUser
                    /\ \E j \in Listed(jobs[r]) :
                         Alike(x, j) /\ x.held = j.held /\ Serves(c, j)
      BY <2>4, <2>5, <3>4, <3>5, <3>6, <3>7
    <3>9. ASSUME NEW r \in Queue, NEW j \in Listed(jobs[r])
          PROVE  \E x \in Listed(jobs'[r]) : x.stamp = j.stamp
      BY <3>5, <3>6, <3>7
    <3> QED BY <3>6, <3>8, <3>9
  <2>7. CASE ~(pend[c].abort /\ jobs[q][i].restart)
    <3>1. PICK new : new = Without(jobs[q], {jobs[q][i].stamp})
      OBVIOUS
    <3>2. jobs' = [jobs EXCEPT ![q] = new]
      BY <2>1, <2>7, <3>1
    <3>3. /\ Follows(new, jobs[q])
          /\ \A x : x \in Listed(new) <=>
                     x \in Listed(jobs[q]) /\ x.stamp # jobs[q][i].stamp
      BY <2>2, <3>1, WithoutIs, FollowsSelf, FollowsWithout
    <3>4. /\ jobs' \in [Queue -> Seq(Job)]
          /\ \A r \in Queue : Follows(jobs'[r], jobs[r])
          /\ jobs'[q] = new /\ \A r \in Queue : r # q => jobs'[r] = jobs[r]
      BY <1>1, <3>2, <3>3, OneListStep
    <3>5. ASSUME NEW r \in Queue, NEW j \in Listed(jobs[r])
          PROVE  \/ \E x \in Listed(jobs'[r]) : x.stamp = j.stamp
                 \/ Serves(c, j)
      <4>1. CASE r = q /\ j.stamp = jobs[q][i].stamp
        <5>1. j = jobs[q][i]
          BY <2>2, <2>3, <4>1 DEF Distinct, Listed
        <5> QED BY <2>4, <5>1
      <4>2. CASE ~(r = q /\ j.stamp = jobs[q][i].stamp)
        BY <3>3, <3>4, <4>2
      <4> QED BY <4>1, <4>2
    <3> QED BY <3>3, <3>4, <3>5
  <2> QED BY <2>6, <2>7
<1> QED BY <1>2, <1>3

(* A job a queue server has begun to serve: the request for it, and the job.*)
Serving(c, q, j, t) ==
  [op |-> "service", q |-> q, id |-> j.id, task |-> t, stamp |-> j.stamp]

(* ServiceJob: a job that waits gets the queue server; only jobs without    *)
(* data are removed.                                                        *)
LEMMA ServiceJobEffect ==
  ASSUME TypeOK, Lists, NEW c \in Conn, NEW q \in Queue,
         NEW suits, NEW aged \in BOOLEAN, ServiceJob(c, q, suits, aged)
  PROVE  /\ jobs' \in [Queue -> Seq(Job)]
         /\ \A r \in Queue : Follows(jobs'[r], jobs[r])
         /\ \A r \in Queue : \A j \in Listed(jobs[r]) :
              HasData(j.stamp) => \E x \in Listed(jobs'[r]) : x.stamp = j.stamp
         /\ \/ /\ pend' = pend
               /\ \A r \in Queue : \A x \in Listed(jobs'[r]) : x \in Listed(jobs[r])
            \/ \E t \in Task, j \in Listed(jobs[q]) :
                 /\ ~j.held /\ j.server = NoUser
                 /\ pend' = [pend EXCEPT ![c] = Serving(c, q, j, t)]
                 /\ \A r \in Queue : \A x \in Listed(jobs'[r]) :
                      \/ x \in Listed(jobs[r]) /\ (r = q => x.stamp # j.stamp)
                      \/ /\ r = q /\ Alike(x, j) /\ ~x.held
                         /\ x.server = user[c] /\ x.station = c
<1> DEFINE list == jobs[q]
           full  == {i \in DOMAIN list : Servable(list[i], suits) /\ HasData(list[i].stamp)}
           upto  == IF full = {} THEN Len(list) + 1 ELSE Min(full)
           drop  == {k \in DOMAIN list : /\ aged /\ k < upto /\ Servable(list[k], suits)
                                         /\ ~HasData(list[k].stamp)}
           gone  == {list[i].stamp : i \in drop}
           taken == IF full = {} THEN list
                    ELSE [list EXCEPT ![upto].server = user[c], ![upto].station = c]
<1>1. /\ user[c] # NoUser
      /\ jobs' = [jobs EXCEPT ![q] = Without(taken, gone)]
      /\ \E t \in Task :
           IF full = {} THEN pend' = pend
           ELSE pend' = [pend EXCEPT ![c] =
                  [op |-> "service", q |-> q, id |-> list[upto].id,
                   task |-> t, stamp |-> list[upto].stamp]]
  BY DEF ServiceJob, Idle, Sends
<1>2. list \in Seq(Job) /\ Distinct(list) /\ q \in DOMAIN jobs
  BY DEF TypeOK, Lists
<1>3. ASSUME NEW s \in gone PROVE ~HasData(s)
  <2> HIDE DEF full, upto, taken
  <2>1. PICK i \in drop : s = list[i].stamp
    OBVIOUS
  <2> QED BY <2>1
<1>4. PICK new : new = Without(taken, gone)
  OBVIOUS
<1>5. jobs' = [jobs EXCEPT ![q] = new]
  <2> HIDE DEF full, upto, gone, taken
  <2> QED BY <1>1, <1>4
<1>6. CASE full = {}
  <2>1. taken = list
    BY <1>6
  <2> HIDE DEF full, gone, taken
  <2>2. /\ Follows(new, list)
        /\ \A x : x \in Listed(new) <=> x \in Listed(list) /\ x.stamp \notin gone
    BY <1>2, <1>4, <2>1, WithoutIs, FollowsSelf, FollowsWithout
  <2>3. /\ jobs' \in [Queue -> Seq(Job)]
        /\ \A r \in Queue : Follows(jobs'[r], jobs[r])
        /\ jobs'[q] = new /\ \A r \in Queue : r # q => jobs'[r] = jobs[r]
    BY <1>5, <2>2, OneListStep
  <2>4. \A r \in Queue : \A x \in Listed(jobs'[r]) : x \in Listed(jobs[r])
    BY <2>2, <2>3
  <2>5. \A r \in Queue : \A j \in Listed(jobs[r]) :
          HasData(j.stamp) => \E x \in Listed(jobs'[r]) : x.stamp = j.stamp
    BY <1>3, <2>2, <2>3
  <2>6. pend' = pend
    BY <1>1, <1>6
  <2> QED BY <2>3, <2>4, <2>5, <2>6
<1>7. CASE full # {}
  <2>1. upto \in full
    <3>1. full \in SUBSET Nat /\ upto = Min(full)
      BY <1>2, <1>7
    <3> HIDE DEF full, upto
    <3> QED BY <1>7, <3>1, MinIs
  <2>2. upto \in DOMAIN list /\ Servable(list[upto], suits)
    BY <2>1
  <2>3. PICK t \in Task : pend' = [pend EXCEPT ![c] =
                  [op |-> "service", q |-> q, id |-> list[upto].id,
                   task |-> t, stamp |-> list[upto].stamp]]
    BY <1>1, <1>7
  <2>4. taken = [list EXCEPT ![upto].server = user[c], ![upto].station = c]
    BY <1>7
  <2> HIDE DEF full, upto, gone, taken
  <2>5. PICK j \in Job : j = list[upto] /\ j \in Listed(list)
    BY <1>2, <2>2 DEF Listed
  <2>6. PICK y : y = Placed(j, user[c], c)
    OBVIOUS
  <2>7. /\ y \in Job /\ Alike(y, j) /\ y.held = j.held
        /\ y.server = user[c] /\ y.station = c
    <3>1. user[c] \in User \cup {NoUser} /\ c \in Conn \cup {NoConn}
      BY DEF TypeOK
    <3> QED BY <2>6, <3>1, ServerIs DEF Alike
  <2>8. taken = Replaced(list, upto, y)
    BY <1>2, <2>2, <2>4, <2>5, <2>6 DEF Placed, Replaced
  <2>9. /\ Follows(taken, list)
        /\ \A x : x \in Listed(taken) <=> x = y \/ (x \in Listed(list) /\ x # j)
    <3>1. y.id = list[upto].id /\ y.stamp = list[upto].stamp
      BY <2>5, <2>7 DEF Alike
    <3> HIDE DEF list
    <3>2. /\ Follows(taken, list)
          /\ \A x : x \in Listed(taken) <=> x = y \/ (x \in Listed(list) /\ x # list[upto])
      BY <1>2, <2>2, <2>7, <2>8, <3>1, ReplaceIs
    <3> QED BY <2>5, <3>2
  <2>10. /\ Follows(new, list)
         /\ \A x : x \in Listed(new) <=> x \in Listed(taken) /\ x.stamp \notin gone
    BY <1>4, <2>9, WithoutIs, FollowsWithout DEF Follows
  <2>11. /\ jobs' \in [Queue -> Seq(Job)]
         /\ \A r \in Queue : Follows(jobs'[r], jobs[r])
         /\ jobs'[q] = new /\ \A r \in Queue : r # q => jobs'[r] = jobs[r]
    BY <1>5, <2>10, OneListStep
  <2>12. ~j.held /\ j.server = NoUser
    BY <2>2, <2>5 DEF Servable
  <2>13. pend' = [pend EXCEPT ![c] = Serving(c, q, j, t)]
    BY <2>3, <2>5 DEF Serving
  <2>14. ASSUME NEW r \in Queue, NEW x \in Listed(jobs'[r])
         PROVE  \/ x \in Listed(jobs[r]) /\ (r = q => x.stamp # j.stamp)
                \/ /\ r = q /\ Alike(x, j) /\ ~x.held
                   /\ x.server = user[c] /\ x.station = c
    <3>1. CASE r # q
      BY <2>11, <3>1
    <3>2. CASE r = q
      <4>1. x = y \/ (x \in Listed(list) /\ x # j)
        BY <2>9, <2>10, <2>11, <3>2
      <4>2. x \in Listed(list) /\ x # j => x.stamp # j.stamp
        BY <1>2, <2>5 DEF Distinct, Listed
      <4> QED BY <2>7, <2>12, <3>2, <4>1, <4>2
    <3> QED BY <3>1, <3>2
  <2>15. ASSUME NEW r \in Queue, NEW k \in Listed(jobs[r]), HasData(k.stamp)
         PROVE  \E x \in Listed(jobs'[r]) : x.stamp = k.stamp
    BY <1>3, <2>7, <2>9, <2>10, <2>11, <2>15 DEF Alike
  <2> QED BY <2>5, <2>11, <2>12, <2>13, <2>14, <2>15
<1> QED BY <1>6, <1>7

(* Jobs of a list are replaced by jobs with their ids and files.            *)
LEMMA MapIs ==
  ASSUME NEW list \in Seq(Job), Distinct(list), NEW new,
         new = [i \in DOMAIN list |-> new[i]],
         \A i \in DOMAIN list :
           new[i] \in Job /\ new[i].id = list[i].id /\ new[i].stamp = list[i].stamp
  PROVE  Follows(new, list)
<1>1. DOMAIN new = DOMAIN list /\ new \in Seq(Job)
  OBVIOUS
<1>2. Distinct(new)
  BY <1>1 DEF Distinct
<1>3. \A x \in Listed(new) : \E j \in Listed(list) : x.id = j.id /\ x.stamp = j.stamp
  BY <1>1 DEF Listed
<1> QED BY <1>1, <1>2, <1>3 DEF Follows

(* EndJobs: held jobs of the connection's tasks are released or, without    *)
(* data, removed.                                                           *)
LEMMA EndJobsEffect ==
  ASSUME TypeOK, Lists, NEW c \in Conn, NEW ts, nw_close_connection_jobs(c, ts)
  PROVE  /\ jobs' \in [Queue -> Seq(Job)]
         /\ \A r \in Queue : Follows(jobs'[r], jobs[r])
         /\ \A r \in Queue : \A j \in Listed(jobs[r]) :
              HasData(j.stamp) => \E x \in Listed(jobs'[r]) : x.stamp = j.stamp
         /\ \A r \in Queue : \A x \in Listed(jobs'[r]) :
              \/ x \in Listed(jobs[r])
              \/ /\ x.held = FALSE
                 /\ \E j \in Listed(jobs[r]) :
                      /\ Alike(x, j) /\ x.server = j.server /\ x.station = j.station
                      /\ j.held /\ j.conn = c /\ j.task \in ts
<1> DEFINE rel(r) == [i \in DOMAIN jobs[r] |->
              IF jobs[r][i].stamp \in PendingJobs(c, ts, r).keep
              THEN [jobs[r][i] EXCEPT !.held = FALSE] ELSE jobs[r][i]]
<1>1. jobs' = [r \in Queue |-> Without(rel(r), PendingJobs(c, ts, r).drop)]
  BY DEF nw_close_connection_jobs
<1>2. ASSUME NEW r \in Queue
      PROVE  /\ Follows(jobs'[r], jobs[r])
             /\ \A j \in Listed(jobs[r]) :
                  HasData(j.stamp) => \E x \in Listed(jobs'[r]) : x.stamp = j.stamp
             /\ \A x \in Listed(jobs'[r]) :
                  \/ x \in Listed(jobs[r])
                  \/ /\ x.held = FALSE
                     /\ \E j \in Listed(jobs[r]) :
                          /\ Alike(x, j) /\ x.server = j.server /\ x.station = j.station
                          /\ j.held /\ j.conn = c /\ j.task \in ts
  <2> DEFINE list == jobs[r]
             keep == PendingJobs(c, ts, r).keep
             drop == PendingJobs(c, ts, r).drop
             mine(k) == list[k].conn = c /\ list[k].task \in ts /\ list[k].held
  <2>1. list \in Seq(Job) /\ Distinct(list) /\ (\A i \in DOMAIN list : list[i] \in Job)
    BY DEF TypeOK, Lists
  <2>2. PICK new : new = rel(r)
    OBVIOUS
  <2>3. jobs'[r] = Without(new, drop)
    BY <1>1, <2>2
  <2>4. \A i \in DOMAIN list : new[i] = IF list[i].stamp \in keep
                                      THEN [list[i] EXCEPT !.held = FALSE] ELSE list[i]
    BY <2>2
  <2>5. new = [i \in DOMAIN list |-> new[i]]
    BY <2>2
  <2>6. \A s \in keep : \E k \in DOMAIN list : mine(k) /\ s = list[k].stamp
    BY DEF PendingJobs
  <2>7. \A s \in drop : ~HasData(s)
    BY DEF PendingJobs
  <2> HIDE DEF keep, drop, rel
  <2>8. ASSUME NEW i \in DOMAIN list
        PROVE  /\ new[i] \in Job /\ Alike(new[i], list[i])
               /\ \/ new[i] = list[i]
                  \/ /\ mine(i) /\ new[i].held = FALSE
                     /\ new[i].server = list[i].server /\ new[i].station = list[i].station
    <3>1. CASE list[i].stamp \in keep
      <4>1. mine(i)
        <5>1. PICK k \in DOMAIN list : mine(k) /\ list[i].stamp = list[k].stamp
          BY <2>6, <3>1
        <5> QED BY <2>1, <5>1 DEF Distinct
      <4>2. new[i] = [list[i] EXCEPT !.held = FALSE]
        BY <2>4, <3>1
      <4>3. PICK j \in Job : j = list[i]
        BY <2>1
      <4>4. PICK y : y = new[i]
        OBVIOUS
      <4>5. y = [j EXCEPT !.held = FALSE]
        BY <4>2, <4>3, <4>4
      <4>6. /\ y \in Job /\ Alike(y, j) /\ y.held = FALSE
            /\ y.server = j.server /\ y.station = j.station
        BY <4>5, ReleasedIs DEF Alike
      <4> QED BY <4>1, <4>3, <4>4, <4>6
    <3>2. CASE list[i].stamp \notin keep
      BY <2>1, <2>4, <3>2 DEF Alike
    <3> QED BY <3>1, <3>2
  <2> HIDE DEF mine
  <2>9. Follows(new, list)
    BY <2>1, <2>5, <2>8, MapIs DEF Alike
  <2>10. Follows(jobs'[r], list)
    BY <2>3, <2>9, FollowsWithout
  <2>11. \A x : x \in Listed(jobs'[r]) <=> x \in Listed(new) /\ x.stamp \notin drop
    BY <2>3, <2>9, WithoutIs DEF Follows
  <2>12. DOMAIN new = DOMAIN list
    BY <2>5
  <2>13. ASSUME NEW x \in Listed(jobs'[r])
         PROVE  \/ x \in Listed(list)
                \/ /\ x.held = FALSE
                   /\ \E j \in Listed(list) :
                        /\ Alike(x, j) /\ x.server = j.server /\ x.station = j.station
                        /\ j.held /\ j.conn = c /\ j.task \in ts
    <3>1. PICK i \in DOMAIN list : x = new[i]
      BY <2>11, <2>12 DEF Listed
    <3>2. list[i] \in Listed(list)
      BY DEF Listed
    <3> QED BY <2>8, <3>1, <3>2 DEF mine
  <2>14. ASSUME NEW j \in Listed(list), HasData(j.stamp)
         PROVE  \E x \in Listed(jobs'[r]) : x.stamp = j.stamp
    <3>1. PICK i \in DOMAIN list : j = list[i]
      BY DEF Listed
    <3>2. new[i] \in Listed(new) /\ new[i].stamp = j.stamp
      BY <2>8, <2>12, <3>1 DEF Listed, Alike
    <3> QED BY <2>7, <2>11, <2>14, <3>2
  <2> QED BY <2>10, <2>13, <2>14
<1>3. jobs' \in [Queue -> Seq(Job)]
  BY <1>1, <1>2 DEF Follows
<1> QED BY <1>2, <1>3

-----------------------------------------------------------------------------
(* ListInv is inductive                                                     *)

(* A list without members is empty.                                         *)
LEMMA EmptyIs ==
  ASSUME NEW list \in Seq(Job)
  PROVE  list = <<>> <=> Listed(list) = {}
<1>1. list # <<>> => list[1] \in Listed(list)
  BY DEF Listed
<1>2. list = <<>> => Listed(list) = {}
  BY DEF Listed
<1> QED BY <1>1, <1>2

(* The lists after a step that creates no job.                              *)
LEMMA ListsStep ==
  ASSUME ListInv, jobs' \in [Queue -> Seq(Job)],
         \A r \in Queue : Follows(jobs'[r], jobs[r]),
         lastId' = lastId, clock' = clock,
         \A r \in Queue : qstate'[r] = "off" => qstate[r] = "off" \/ jobs'[r] = <<>>
  PROVE  Lists'
<1>1. SUFFICES ASSUME NEW r \in Queue
               PROVE  /\ Distinct(jobs'[r])
                      /\ jobs'[r] # <<>> => lastId[r] # 0
                      /\ qstate'[r] = "off" => jobs'[r] = <<>>
                      /\ \A j \in Listed(jobs'[r]) : j.stamp[1] = r /\ j.stamp[2] <= clock
  BY DEF Lists
<1>2. /\ jobs[r] \in Seq(Job) /\ jobs'[r] \in Seq(Job)
      /\ jobs[r] # <<>> => lastId[r] # 0
      /\ qstate[r] = "off" => jobs[r] = <<>>
      /\ \A j \in Listed(jobs[r]) : j.stamp[1] = r /\ j.stamp[2] <= clock
  BY DEF ListInv, TypeOK, Lists
<1>3. /\ Distinct(jobs'[r])
      /\ \A x \in Listed(jobs'[r]) : \E j \in Listed(jobs[r]) :
           x.id = j.id /\ x.stamp = j.stamp
  BY DEF Follows
<1>4. jobs[r] = <<>> => jobs'[r] = <<>>
  BY <1>2, <1>3, EmptyIs
<1> QED BY <1>2, <1>3, <1>4

(* The holdings after a step of one connection.                             *)
LEMMA HoldingsStep ==
  ASSUME ListInv, NEW c \in Conn, NEW E \in SUBSET Entry, NEW p \in Request,
         local' = [local EXCEPT ![c] = E], pend' = [pend EXCEPT ![c] = p],
         clock' \in 0..MaxClock, clock <= clock',
         \A e \in E : e.stamp[2] <= clock', Requests(p) => p.stamp[2] <= clock',
         p # NoRequest => user'[c] # NoUser, \A d \in Conn : d # c => user'[d] = user[d]
  PROVE  Holdings' /\ local' \in [Conn -> SUBSET Entry] /\ pend' \in [Conn -> Request]
<1>1. local \in [Conn -> SUBSET Entry] /\ pend \in [Conn -> Request] /\ clock \in Int
  BY DEF ListInv, TypeOK
<1>2. local' \in [Conn -> SUBSET Entry] /\ pend' \in [Conn -> Request]
  BY <1>1
<1>3. ASSUME NEW d \in Conn
      PROVE  /\ \A e \in local'[d] : e.stamp[2] <= clock'
             /\ Requests(pend'[d]) => pend'[d].stamp[2] <= clock'
             /\ pend'[d] # NoRequest => user'[d] # NoUser
  <2>1. CASE d = c
    BY <1>1, <2>1
  <2>2. CASE d # c
    <3>1. local'[d] = local[d] /\ pend'[d] = pend[d] /\ user'[d] = user[d]
      BY <1>1, <2>2
    <3>2. /\ \A e \in local[d] : e.stamp[2] <= clock
          /\ Requests(pend[d]) => pend[d].stamp[2] <= clock
          /\ pend[d] # NoRequest => user[d] # NoUser
      BY DEF ListInv, Holdings
    <3>3. \A e \in local[d] : e.stamp[2] \in Int
      BY <1>1, QueueConstants DEF Entry, Stamp
    <3>4. Requests(pend[d]) => pend[d].stamp[2] \in Int
      BY <1>1, QueueConstants DEF Request, Requests, Stamp, NoRequest
    <3> HIDE DEF NoRequest, Requests
    <3> QED BY <1>1, <3>1, <3>2, <3>3, <3>4
  <2> QED BY <2>1, <2>2
<1> QED BY <1>2, <1>3 DEF Holdings

(* The holdings after a step that leaves them alone.                        *)
LEMMA HoldingsSame ==
  ASSUME ListInv, local' = local, pend' = pend, clock' = clock,
         \A d \in Conn : user[d] # NoUser => user'[d] # NoUser
  PROVE  Holdings' /\ local' \in [Conn -> SUBSET Entry] /\ pend' \in [Conn -> Request]
  BY DEF ListInv, TypeOK, Holdings

(* A step that touches only who is logged in, the state of the queues or    *)
(* the files.                                                               *)
LEMMA SmallStep ==
  ASSUME ListInv, NEW u \in User,
         \/ user' = user
         \/ \E c \in Conn : user[c] = NoUser /\ user' = [user EXCEPT ![c] = u],
         UNCHANGED <<jobs, lastId, clock, local, pend>>,
         \A r \in Queue : qstate'[r] = "off" => qstate[r] = "off"
  PROVE  ListInv'
<1>1. jobs' \in [Queue -> Seq(Job)] /\ \A r \in Queue : Follows(jobs'[r], jobs[r])
  BY FollowsSelf DEF ListInv, TypeOK, Lists
<1>2. Lists'
  BY <1>1, ListsStep
<1>3. \A d \in Conn : user[d] # NoUser => user'[d] # NoUser
  BY QueueConstants DEF ListInv, TypeOK
<1>4. Holdings'
  BY <1>3, HoldingsSame
<1>5. TypeOK'
  BY DEF ListInv, TypeOK
<1> QED BY <1>2, <1>4, <1>5 DEF ListInv

(* Login, WriteFile, SetQueueStatus, AttachServer, DetachServer.            *)
LEMMA SmallActions ==
  ASSUME ListInv, NEW c \in Conn,
         \/ \E u \in LoginAs[c] : Login(c, u)
         \/ \E e \in local[c] : WriteFile(c, e)
         \/ \E q \in Queue : \/ \E st \in {"on", "stopped"} : SetQueueStatus(c, q, st)
                             \/ AttachServer(c, q) \/ DetachServer(c, q)
  PROVE  ListInv' /\ UNCHANGED <<jobs, local, pend, reused>>
<1>1. ASSUME NEW u \in LoginAs[c], Login(c, u)
      PROVE  ListInv' /\ UNCHANGED <<jobs, local, pend, reused>>
  <2>1. u \in User
    BY QueueConstants
  <2> QED BY <1>1, <2>1, SmallStep DEF Login
<1>2. ASSUME NEW e \in local[c], WriteFile(c, e)
      PROVE  ListInv' /\ UNCHANGED <<jobs, local, pend, reused>>
  BY <1>2, SmallStep, QueueConstants DEF WriteFile
<1>3. ASSUME NEW q \in Queue, NEW st \in {"on", "stopped"}, SetQueueStatus(c, q, st)
      PROVE  ListInv' /\ UNCHANGED <<jobs, local, pend, reused>>
  <2>1. \A r \in Queue : qstate'[r] = "off" => qstate[r] = "off"
    BY <1>3 DEF SetQueueStatus
  <2> QED BY <1>3, <2>1, SmallStep, QueueConstants DEF SetQueueStatus
<1>4. ASSUME NEW q \in Queue, AttachServer(c, q) \/ DetachServer(c, q)
      PROVE  ListInv' /\ UNCHANGED <<jobs, local, pend, reused>>
  BY <1>4, SmallStep, QueueConstants DEF AttachServer, DetachServer
<1> QED BY <1>1, <1>2, <1>3, <1>4

(* A step of one connection process: what it holds and asks for afterwards. *)
Acts(c, E, p) ==
  /\ E \in SUBSET Entry /\ p \in Request
  /\ local' = [local EXCEPT ![c] = E]
  /\ pend' = [pend EXCEPT ![c] = p]

(* A step of one connection process that leaves the lists alone.            *)
LEMMA LocalStep ==
  ASSUME ListInv, NEW c \in Conn, NEW E, NEW p, Acts(c, E, p),
         \A e \in E : e.stamp[2] <= clock, Requests(p) => p.stamp[2] <= clock,
         p # NoRequest => user'[c] # NoUser, \A d \in Conn : d # c => user'[d] = user[d],
         user' \in [Conn -> User \cup {NoUser}],
         UNCHANGED <<jobs, lastId, qstate, clock>>
  PROVE  ListInv'
<1>1. jobs' \in [Queue -> Seq(Job)] /\ \A r \in Queue : Follows(jobs'[r], jobs[r])
  BY FollowsSelf DEF ListInv, TypeOK, Lists
<1>2. Lists'
  BY <1>1, ListsStep
<1>3. clock \in 0..MaxClock /\ clock' \in 0..MaxClock /\ clock <= clock'
  BY QueueConstants DEF ListInv, TypeOK
<1>4. Holdings' /\ local' \in [Conn -> SUBSET Entry] /\ pend' \in [Conn -> Request]
  BY <1>3, HoldingsStep DEF Acts
<1>5. TypeOK'
  BY <1>1, <1>4 DEF ListInv, TypeOK
<1> QED BY <1>2, <1>4, <1>5 DEF ListInv

(* The file a connection process has made, or begins to read.               *)
Opened(p, mode) ==
  [q |-> p.q, id |-> p.id, task |-> p.task, stamp |-> p.stamp, mode |-> mode]

(* The entry that stands for a request.                                     *)
LEMMA OpenedIs ==
  ASSUME NEW p \in Request, Requests(p), NEW mode \in {"write", "read", "closed"},
         NEW f, f = Opened(p, mode)
  PROVE  /\ f \in Entry /\ f.q = p.q /\ f.id = p.id /\ f.task = p.task
         /\ f.stamp = p.stamp /\ f.mode = mode
  BY RequestIs DEF Opened, Entry

(* CreateFile and OpenServed: the entry is made, or not.                    *)
LEMMA OpenActions ==
  ASSUME ListInv, NEW c \in Conn, NEW ok \in BOOLEAN, NEW mode,
         \/ CreateFile(c, ok) /\ mode = "write"
         \/ OpenServed(c, ok) /\ mode = "read"
  PROVE  /\ ListInv' /\ jobs' = jobs /\ reused' = reused
         /\ IF mode = "write" THEN pend[c].op = "create" ELSE pend[c].op = "service"
         /\ Acts(c, IF ok THEN local[c] \cup {Opened(pend[c], mode)} ELSE local[c], NoRequest)
<1>1. /\ IF mode = "write" THEN pend[c].op = "create" ELSE pend[c].op = "service"
      /\ mode \in {"write", "read", "closed"}
      /\ pend' = [pend EXCEPT ![c] = NoRequest]
      /\ UNCHANGED <<jobs, lastId, qstate, clock, user, reused>>
  BY DEF CreateFile, OpenServed, Sends
<1>2. Requests(pend[c]) /\ pend[c] \in Request /\ local[c] \in SUBSET Entry
  BY <1>1 DEF Requests, ListInv, TypeOK
<1> DEFINE f == Opened(pend[c], mode)
           E == IF ok THEN local[c] \cup {f} ELSE local[c]
<1>3. f \in Entry /\ f.stamp = pend[c].stamp
  BY <1>1, <1>2, OpenedIs
<1>4. local' = [local EXCEPT ![c] = E]
  <2>1. CASE ok
    BY <2>1 DEF CreateFile, OpenServed, Opened
  <2>2. CASE ~ok
    <3>1. local' = local \/ local' = [local EXCEPT ![c] = local[c]]
      BY <2>2 DEF CreateFile, OpenServed
    <3> QED BY <2>2, <3>1 DEF ListInv, TypeOK
  <2> QED BY <2>1, <2>2
<1>5. Acts(c, E, NoRequest)
  BY <1>1, <1>2, <1>3, <1>4, RequestIs DEF Acts
<1>6. \A e \in E : e.stamp[2] <= clock
  <2> HIDE DEF f
  <2>1. \A e \in local[c] : e.stamp[2] <= clock
    BY DEF ListInv, Holdings
  <2>2. f.stamp[2] <= clock
    BY <1>2, <1>3 DEF ListInv, Holdings
  <2> QED BY <2>1, <2>2
<1>7. ListInv'
  <2> HIDE DEF E
  <2>1. user \in [Conn -> User \cup {NoUser}] /\ ~Requests(NoRequest)
    BY <1>2, RequestIs DEF ListInv, TypeOK
  <2> QED BY <1>1, <1>5, <1>6, <2>1, LocalStep
<1> QED BY <1>1, <1>5, <1>7

(* The entry of a file that is closed.                                      *)
LEMMA ClosedIs ==
  ASSUME NEW e \in Entry, NEW f, f = [e EXCEPT !.mode = "closed"]
  PROVE  /\ f \in Entry /\ f.q = e.q /\ f.id = e.id /\ f.task = e.task
         /\ f.stamp = e.stamp /\ f.mode = "closed"
  BY DEF Entry

(* CloseFile: the entries of the job are closed, the others stay.           *)
LEMMA CloseFileAction ==
  ASSUME ListInv, NEW c \in Conn, NEW q \in Queue, NEW id \in JobId, CloseFile(c, q, id)
  PROVE  /\ ListInv' /\ jobs' = jobs /\ reused' = reused
         /\ pend[c] = NoRequest
         /\ Acts(c, close_queue_job(c, q, id), [op |-> "close", q |-> q, id |-> id])
         /\ \A f \in close_queue_job(c, q, id) : \E e \in local[c] :
              /\ f.q = e.q /\ f.id = e.id /\ f.task = e.task /\ f.stamp = e.stamp
              /\ \/ f = e /\ ~(e.q = q /\ e.id = id)
                 \/ f = [e EXCEPT !.mode = "closed"] /\ f.mode = "closed"
                    /\ e.q = q /\ e.id = id
         /\ \E f \in close_queue_job(c, q, id) : f.mode = "closed" /\ f.q = q /\ f.id = id
<1> DEFINE E == close_queue_job(c, q, id)
           p == [op |-> "close", q |-> q, id |-> id]
<1>1. /\ user[c] # NoUser /\ pend[c] = NoRequest /\ find_queue_job(c, q, id) # {}
      /\ local' = [local EXCEPT ![c] = E] /\ pend' = [pend EXCEPT ![c] = p]
      /\ UNCHANGED <<jobs, lastId, qstate, clock, user, reused>>
  BY DEF CloseFile, Idle, Sends
<1>2. local[c] \in SUBSET Entry /\ user \in [Conn -> User \cup {NoUser}]
  BY DEF ListInv, TypeOK
<1>3. ASSUME NEW e \in local[c]
      PROVE  LET f == IF e \in find_queue_job(c, q, id) THEN [e EXCEPT !.mode = "closed"]
                      ELSE e
             IN  /\ f \in Entry /\ f.q = e.q /\ f.id = e.id /\ f.task = e.task
                 /\ f.stamp = e.stamp
                 /\ \/ f = e /\ ~(e.q = q /\ e.id = id)
                    \/ f = [e EXCEPT !.mode = "closed"] /\ f.mode = "closed"
                       /\ e.q = q /\ e.id = id
  BY <1>2, ClosedIs DEF find_queue_job
<1>4. ASSUME NEW f \in E
      PROVE  f \in Entry /\ \E e \in local[c] :
              /\ f.q = e.q /\ f.id = e.id /\ f.task = e.task /\ f.stamp = e.stamp
              /\ \/ f = e /\ ~(e.q = q /\ e.id = id)
                 \/ f = [e EXCEPT !.mode = "closed"] /\ f.mode = "closed"
                    /\ e.q = q /\ e.id = id
  <2>1. PICK e \in local[c] :
          f = IF e \in find_queue_job(c, q, id) THEN [e EXCEPT !.mode = "closed"] ELSE e
    BY DEF close_queue_job
  <2> QED BY <1>3, <2>1
<1>5. \E f \in E : f.mode = "closed" /\ f.q = q /\ f.id = id
  <2>1. PICK e \in local[c] : e \in find_queue_job(c, q, id) /\ e.q = q /\ e.id = id
    BY <1>1 DEF find_queue_job
  <2>2. PICK f : f = [e EXCEPT !.mode = "closed"]
    OBVIOUS
  <2>3. f \in E
    BY <2>1, <2>2 DEF close_queue_job
  <2> QED BY <1>2, <2>1, <2>2, <2>3, ClosedIs
<1>6. p \in Request /\ ~Requests(p)
  BY DEF Request, Requests
<1>7. Acts(c, E, p)
  BY <1>1, <1>4, <1>6 DEF Acts
<1>8. \A e \in E : e.stamp[2] <= clock
  BY <1>4 DEF ListInv, Holdings
<1>9. ListInv'
  <2> HIDE DEF E, p
  <2> QED BY <1>1, <1>2, <1>6, <1>7, <1>8, LocalStep
<1> QED BY <1>1, <1>4, <1>5, <1>7, <1>9

(* PrintFile, FinishAbort, EndOfJob, ClearConnection: entries are freed.    *)
LEMMA FreeActions ==
  ASSUME ListInv, NEW c \in Conn, NEW E, NEW p,
         \/ /\ \E ok \in BOOLEAN : PrintFile(c, ok)
            /\ p = NoRequest
            /\ \E e \in find_queue_job(c, pend[c].q, pend[c].id) : E = local[c] \ {e}
                                         /\ local' = [local EXCEPT ![c] = E]
         \/ \E e \in local[c], a \in BOOLEAN :
              /\ FinishAbort(c, e, a) /\ E = local[c] \ {e}
              /\ p = [op |-> "finish", q |-> e.q, id |-> e.id, abort |-> a]
         \/ \E ts \in SUBSET Task :
              /\ EndOfJob(c, ts) /\ E = {e \in local[c] : e.task \notin ts}
              /\ p = [op |-> "end", tasks |-> ts]
         \/ ClearConnection(c) /\ E = {} /\ p = NoRequest
  PROVE  ListInv' /\ jobs' = jobs /\ reused' = reused /\ Acts(c, E, p)
<1>1. local[c] \in SUBSET Entry /\ user \in [Conn -> User \cup {NoUser}]
  BY DEF ListInv, TypeOK
<1>2. E \subseteq local[c] /\ local' = [local EXCEPT ![c] = E]
  BY DEF FinishAbort, EndOfJob, ClearConnection
<1>3. /\ pend' = [pend EXCEPT ![c] = p]
      /\ UNCHANGED <<jobs, lastId, qstate, clock, reused>>
  BY DEF PrintFile, FinishAbort, EndOfJob, ClearConnection, Sends
<1>4. p \in Request /\ ~Requests(p)
  <2>1. NoRequest \in Request /\ ~Requests(NoRequest)
    BY RequestIs DEF Request
  <2>2. ASSUME NEW e \in local[c], NEW a \in BOOLEAN,
               p = [op |-> "finish", q |-> e.q, id |-> e.id, abort |-> a]
        PROVE  p \in Request /\ ~Requests(p)
    <3>1. e.q \in Queue /\ e.id \in JobId
      BY <1>1 DEF Entry
    <3> QED BY <2>2, <3>1 DEF Request, Requests
  <2>3. ASSUME NEW ts \in SUBSET Task, p = [op |-> "end", tasks |-> ts]
        PROVE  p \in Request /\ ~Requests(p)
    BY <2>3 DEF Request, Requests
  <2> QED BY <2>1, <2>2, <2>3
<1>5. Acts(c, E, p)
  BY <1>1, <1>2, <1>3, <1>4 DEF Acts
<1>6. /\ p # NoRequest => user'[c] # NoUser
      /\ \A d \in Conn : d # c => user'[d] = user[d]
      /\ user' \in [Conn -> User \cup {NoUser}]
  <2>1. CASE p = NoRequest /\ (user' = user \/ user' = [user EXCEPT ![c] = NoUser])
    BY <1>1, <2>1
  <2>2. CASE user' = user /\ user[c] # NoUser
    BY <1>1, <2>2
  <2> QED BY <2>1, <2>2 DEF PrintFile, FinishAbort, EndOfJob, ClearConnection, Idle
<1>7. \A e \in E : e.stamp[2] <= clock
  BY <1>2 DEF ListInv, Holdings
<1>8. ListInv'
  BY <1>3, <1>4, <1>5, <1>6, <1>7, LocalStep
<1> QED BY <1>3, <1>5, <1>8

(* A step of nwbind on the lists that ends, or goes on, with a request.     *)
LEMMA JobsStep ==
  ASSUME ListInv, NEW c \in Conn, NEW p \in Request,
         jobs' \in [Queue -> Seq(Job)],
         \A r \in Queue : Follows(jobs'[r], jobs[r]),
         pend' = [pend EXCEPT ![c] = p], local' = local,
         Requests(p) => p.stamp[2] <= clock,
         p # NoRequest => user'[c] # NoUser, \A d \in Conn : d # c => user'[d] = user[d],
         user' \in [Conn -> User \cup {NoUser}],
         UNCHANGED <<lastId, clock>>,
         \A r \in Queue : qstate'[r] = "off" => qstate[r] = "off" \/ jobs'[r] = <<>>
  PROVE  ListInv' /\ Acts(c, local[c], p)
<1>1. Lists'
  BY ListsStep
<1>2. clock \in 0..MaxClock /\ clock' \in 0..MaxClock /\ clock <= clock'
  BY QueueConstants DEF ListInv, TypeOK
<1>3. Acts(c, local[c], p)
  BY DEF Acts, ListInv, TypeOK
<1>4. \A e \in local[c] : e.stamp[2] <= clock
  BY DEF ListInv, Holdings
<1>5. Holdings' /\ local' \in [Conn -> SUBSET Entry] /\ pend' \in [Conn -> Request]
  BY <1>2, <1>3, <1>4, HoldingsStep DEF Acts
<1>6. TypeOK'
  BY <1>5 DEF ListInv, TypeOK
<1> QED BY <1>1, <1>3, <1>5, <1>6 DEF ListInv

(* The same, for a step without a request.                                  *)
LEMMA JobsStepAlone ==
  ASSUME ListInv, jobs' \in [Queue -> Seq(Job)],
         \A r \in Queue : Follows(jobs'[r], jobs[r]),
         UNCHANGED <<pend, local, user, lastId, clock>>,
         \A r \in Queue : qstate'[r] = "off" => qstate[r] = "off" \/ jobs'[r] = <<>>
  PROVE  ListInv'
<1>1. Lists'
  BY ListsStep
<1>2. Holdings'
  BY HoldingsSame
<1>3. TypeOK'
  BY DEF ListInv, TypeOK
<1> QED BY <1>1, <1>2, <1>3 DEF ListInv

(* CloseJob.                                                                *)
LEMMA CloseJobAction ==
  ASSUME ListInv, NEW c \in Conn, NEW direct \in BOOLEAN, CloseJob(c, direct)
  PROVE  /\ ListInv' /\ Acts(c, local[c], pend'[c])
         /\ pend[c].op = "close" /\ local' = local /\ reused' = reused
         /\ \/ pend'[c] = NoRequest
            \/ /\ pend'[c].op = "print" /\ pend'[c].q = pend[c].q
               /\ pend'[c].id = pend[c].id
<1> DEFINE print == [op |-> "print", q |-> pend[c].q, id |-> pend[c].id, direct |-> direct]
<1>1. /\ pend[c].op = "close" /\ pend[c] \in Request /\ c \in DOMAIN pend
      /\ UNCHANGED <<lastId, qstate, clock, user, local, reused>>
  BY DEF CloseJob, ListInv, TypeOK
<1>2. /\ jobs' \in [Queue -> Seq(Job)]
      /\ \A r \in Queue : Follows(jobs'[r], jobs[r])
      /\ \/ pend' = [pend EXCEPT ![c] = NoRequest]
         \/ pend' = [pend EXCEPT ![c] = print]
  BY CloseJobEffect DEF ListInv
<1>3. NoRequest \in Request /\ ~Requests(NoRequest)
  BY RequestIs DEF Request
<1>4. print \in Request /\ ~Requests(print)
  <2>1. pend[c].q \in Queue /\ pend[c].id \in JobId
    BY <1>1, RequestIs
  <2> QED BY <2>1 DEF Request, Requests
<1>5. user[c] # NoUser
  BY <1>1, RequestIs DEF ListInv, Holdings
<1>6. PICK p \in Request : /\ pend' = [pend EXCEPT ![c] = p] /\ ~Requests(p)
                           /\ p = NoRequest \/ p = print
  <2> HIDE DEF print
  <2> QED BY <1>2, <1>3, <1>4
<1>7. p = pend'[c]
  BY <1>1, <1>6
<1>8. user' \in [Conn -> User \cup {NoUser}]
  BY <1>1 DEF ListInv, TypeOK
<1>9. ListInv' /\ Acts(c, local[c], p)
  BY <1>1, <1>2, <1>5, <1>6, <1>8, JobsStep
<1>10. \/ p = NoRequest
       \/ p.op = "print" /\ p.q = pend[c].q /\ p.id = pend[c].id
  BY <1>6
<1> QED BY <1>1, <1>7, <1>9, <1>10

(* FinishJob.                                                               *)
LEMMA FinishJobAction ==
  ASSUME ListInv, NEW c \in Conn, FinishJob(c)
  PROVE  /\ ListInv' /\ Acts(c, local[c], NoRequest)
         /\ pend[c].op = "finish" /\ user[c] # NoUser
         /\ local' = local /\ reused' = reused
<1>1. /\ pend[c].op = "finish" /\ pend[c] \in Request
      /\ pend' = [pend EXCEPT ![c] = NoRequest]
      /\ UNCHANGED <<lastId, qstate, clock, user, local, reused>>
  BY DEF FinishJob, Sends, ListInv, TypeOK
<1>2. /\ jobs' \in [Queue -> Seq(Job)]
      /\ \A r \in Queue : Follows(jobs'[r], jobs[r])
  BY FinishJobEffect DEF ListInv
<1>3. NoRequest \in Request /\ ~Requests(NoRequest) /\ user[c] # NoUser
  BY <1>1, RequestIs DEF ListInv, Holdings, Request
<1>4. user' \in [Conn -> User \cup {NoUser}]
  BY <1>1 DEF ListInv, TypeOK
<1>5. ListInv' /\ Acts(c, local[c], NoRequest)
  BY <1>1, <1>2, <1>3, <1>4, JobsStep
<1> QED BY <1>1, <1>3, <1>5

(* EndJobs.                                                                 *)
LEMMA EndJobsAction ==
  ASSUME ListInv, NEW c \in Conn, EndJobs(c)
  PROVE  /\ ListInv' /\ Acts(c, local[c], NoRequest)
         /\ pend[c].op = "end" /\ local' = local /\ reused' = reused
<1>1. /\ pend[c].op = "end" /\ pend[c] \in Request
      /\ nw_close_connection_jobs(c, pend[c].tasks)
      /\ pend' = [pend EXCEPT ![c] = NoRequest]
      /\ UNCHANGED <<lastId, qstate, clock, local, reused>>
      /\ user' = [user EXCEPT ![c] = IF pend[c].tasks = Task THEN NoUser ELSE @]
  BY DEF EndJobs, Sends, ListInv, TypeOK
<1>2. /\ jobs' \in [Queue -> Seq(Job)]
      /\ \A r \in Queue : Follows(jobs'[r], jobs[r])
  BY <1>1, EndJobsEffect DEF ListInv
<1>3. NoRequest \in Request /\ ~Requests(NoRequest)
  BY RequestIs DEF Request
<1>4. /\ user' \in [Conn -> User \cup {NoUser}]
      /\ \A d \in Conn : d # c => user'[d] = user[d]
  BY <1>1 DEF ListInv, TypeOK
<1>5. ListInv' /\ Acts(c, local[c], NoRequest)
  BY <1>1, <1>2, <1>3, <1>4, JobsStep
<1> QED BY <1>1, <1>5

(* ServiceJob.                                                              *)
LEMMA ServiceJobAction ==
  ASSUME ListInv, NEW c \in Conn, NEW q \in Queue, NEW suits, NEW aged \in BOOLEAN,
         ServiceJob(c, q, suits, aged)
  PROVE  /\ ListInv' /\ Acts(c, local[c], pend'[c])
         /\ pend[c] = NoRequest /\ user[c] # NoUser
         /\ local' = local /\ reused' = reused
<1>1. /\ pend[c] = NoRequest /\ user[c] # NoUser
      /\ UNCHANGED <<lastId, qstate, clock, user, local, reused>>
  BY DEF ServiceJob, Idle
<1>2. /\ jobs' \in [Queue -> Seq(Job)]
      /\ \A r \in Queue : Follows(jobs'[r], jobs[r])
      /\ \/ pend' = pend
         \/ \E t \in Task, j \in Listed(jobs[q]) :
              pend' = [pend EXCEPT ![c] = Serving(c, q, j, t)]
  BY ServiceJobEffect DEF ListInv
<1>3. /\ user' \in [Conn -> User \cup {NoUser}] /\ pend \in [Conn -> Request]
      /\ \A r \in Queue : qstate'[r] = "off" => qstate[r] = "off" \/ jobs'[r] = <<>>
  BY <1>1 DEF ListInv, TypeOK
<1>4. CASE pend' = pend
  <2>1. pend' = [pend EXCEPT ![c] = NoRequest] /\ pend'[c] = NoRequest
    BY <1>1, <1>3, <1>4
  <2>2. NoRequest \in Request /\ ~Requests(NoRequest)
    BY RequestIs DEF Request
  <2>3. ListInv' /\ Acts(c, local[c], NoRequest)
    BY <1>1, <1>2, <1>3, <2>1, <2>2, JobsStep
  <2> QED BY <1>1, <2>1, <2>3
<1>5. ASSUME NEW t \in Task, NEW j \in Listed(jobs[q]),
             pend' = [pend EXCEPT ![c] = Serving(c, q, j, t)]
      PROVE  ListInv' /\ Acts(c, local[c], pend'[c])
  <2>1. j \in Job /\ j.stamp[2] <= clock
    BY DEF ListInv, TypeOK, Lists, Listed
  <2>2. j.id \in JobId /\ j.stamp \in Stamp
    BY <2>1 DEF Job, Fields, JobId
  <2>3. PICK p : p = Serving(c, q, j, t)
    OBVIOUS
  <2>4. p \in Request /\ p.stamp = j.stamp
    BY <2>2, <2>3 DEF Serving, Request
  <2>5. pend' = [pend EXCEPT ![c] = p] /\ pend'[c] = p
    BY <1>3, <1>5, <2>3
  <2>6. ListInv' /\ Acts(c, local[c], p)
    BY <1>1, <1>2, <1>3, <2>1, <2>4, <2>5, JobsStep
  <2> QED BY <2>5, <2>6
<1> QED BY <1>1, <1>2, <1>4, <1>5

(* RemoveJob takes one job from its list.                                   *)
LEMMA RemoveJobAction ==
  ASSUME ListInv, NEW c \in Conn, NEW q \in Queue, NEW i \in DOMAIN jobs[q],
         RemoveJob(c, q, i)
  PROVE  /\ ListInv' /\ UNCHANGED <<local, pend, user, reused>>
         /\ \A r \in Queue : \A x : x \in Listed(jobs'[r]) <=>
              x \in Listed(jobs[r]) /\ ~(r = q /\ x = jobs[q][i])
<1>1. /\ jobs' = [jobs EXCEPT ![q] = Without(@, {@[i].stamp})]
      /\ UNCHANGED <<lastId, qstate, clock, user, local, pend, reused>>
  BY DEF RemoveJob
<1>2. jobs[q] \in Seq(Job) /\ Distinct(jobs[q]) /\ q \in DOMAIN jobs
  BY DEF ListInv, TypeOK, Lists
<1>3. PICK new : new = Without(jobs[q], {jobs[q][i].stamp})
  OBVIOUS
<1>4. jobs' = [jobs EXCEPT ![q] = new]
  BY <1>1, <1>3
<1>5. /\ Follows(new, jobs[q])
      /\ \A x : x \in Listed(new) <=> x \in Listed(jobs[q]) /\ x.stamp # jobs[q][i].stamp
  BY <1>2, <1>3, WithoutIs, FollowsSelf, FollowsWithout
<1>6. \A x \in Listed(jobs[q]) : x.stamp = jobs[q][i].stamp <=> x = jobs[q][i]
  BY <1>2 DEF Distinct, Listed
<1>7. /\ jobs' \in [Queue -> Seq(Job)]
      /\ \A r \in Queue : Follows(jobs'[r], jobs[r])
      /\ jobs'[q] = new /\ \A r \in Queue : r # q => jobs'[r] = jobs[r]
  BY <1>4, <1>5, OneListStep DEF ListInv
<1>8. ListInv'
  BY <1>1, <1>7, JobsStepAlone
<1> QED BY <1>1, <1>5, <1>6, <1>7, <1>8

(* DestroyQueue empties one list.                                           *)
LEMMA DestroyQueueAction ==
  ASSUME ListInv, NEW c \in Conn, NEW q \in Queue, DestroyQueue(c, q)
  PROVE  /\ ListInv' /\ UNCHANGED <<local, pend, user, reused>>
         /\ \A r \in Queue : \A x \in Listed(jobs'[r]) : x \in Listed(jobs[r])
<1>1. /\ jobs' = [jobs EXCEPT ![q] = <<>>] /\ qstate' = [qstate EXCEPT ![q] = "off"]
      /\ UNCHANGED <<lastId, clock, user, local, pend, reused>>
  BY DEF DestroyQueue
<1>2. Follows(<<>>, jobs[q]) /\ Listed(<<>>) = {}
  BY DEF Follows, Distinct, Listed
<1>3. /\ jobs' \in [Queue -> Seq(Job)]
      /\ \A r \in Queue : Follows(jobs'[r], jobs[r])
      /\ jobs'[q] = <<>> /\ \A r \in Queue : r # q => jobs'[r] = jobs[r]
  BY <1>1, <1>2, OneListStep DEF ListInv
<1>4. \A r \in Queue : qstate'[r] = "off" => qstate[r] = "off" \/ jobs'[r] = <<>>
  BY <1>1, <1>3
<1>5. ListInv'
  BY <1>1, <1>3, <1>4, JobsStepAlone
<1> QED BY <1>1, <1>2, <1>3, <1>5

(* CreateQueue starts the ids of an empty list anew.                        *)
LEMMA CreateQueueAction ==
  ASSUME ListInv, NEW c \in Conn, NEW q \in Queue, CreateQueue(c, q)
  PROVE  ListInv' /\ UNCHANGED <<jobs, local, pend, user, reused>>
<1>1. /\ qstate[q] = "off" /\ qstate' = [qstate EXCEPT ![q] = "on"]
      /\ lastId' = [lastId EXCEPT ![q] = 0]
      /\ UNCHANGED <<jobs, clock, user, local, pend, reused>>
  BY DEF CreateQueue
<1>2. jobs[q] = <<>>
  BY <1>1 DEF ListInv, Lists
<1>3. \A r \in Queue : jobs[r] # <<>> => lastId'[r] # 0
  BY <1>1, <1>2 DEF ListInv, TypeOK, Lists
<1>4. \A r \in Queue : qstate'[r] = "off" => qstate[r] = "off"
  BY <1>1
<1>5. Lists'
  BY <1>1, <1>3, <1>4 DEF ListInv, Lists
<1>6. Holdings'
  BY <1>1, HoldingsSame
<1>7. TypeOK'
  BY <1>1, QueueConstants DEF ListInv, TypeOK
<1> QED BY <1>1, <1>5, <1>6, <1>7 DEF ListInv

(* The jobs of the lists, and the times in the names of their files.        *)
LEMMA ListedIs ==
  ASSUME ListInv, NEW q \in Queue, NEW x \in Listed(jobs[q])
  PROVE  /\ x \in Job /\ x.id \in JobId /\ x.stamp \in Stamp
         /\ x.stamp[2] \in Int
<1>1. jobs[q] \in Seq(Job)
  BY DEF ListInv, TypeOK
<1>2. x \in Job
  BY <1>1 DEF Listed
<1>3. x.id \in JobId /\ x.stamp \in Queue \X (1..MaxClock)
  BY <1>2 DEF Job, Fields, JobId, Stamp
<1>4. x.stamp[2] \in 1..MaxClock
  BY <1>3
<1> QED BY <1>2, <1>3, <1>4, QueueConstants DEF Stamp

(* CreateJob adds a job with a new file and an id no job of the list has,   *)
(* and asks the connection process to make the file; or the queue is full.  *)
LEMMA CreateJobAction ==
  ASSUME ListInv, NEW c \in Conn, NEW q \in Queue, NEW t \in Task,
         NEW restart \in Restarts, CreateJob(c, q, t, restart)
  PROVE  /\ ListInv' /\ local' = local /\ user' = user /\ pend[c] = NoRequest
         /\ \/ UNCHANGED <<jobs, pend, reused>>
            \/ \E new \in Job, p \in Request :
                 /\ reused' = (reused \/ Known(q, new.id))
                 /\ new.stamp = <<q, clock + 1>> /\ new.conn = c /\ new.task = t
                 /\ new.held /\ new.server = NoUser
                 /\ Acts(c, local[c], p)
                 /\ p.op = "create" /\ p.q = q /\ p.id = new.id /\ p.task = t
                 /\ p.stamp = new.stamp
                 /\ \A r \in Queue : \A x : x \in Listed(jobs'[r]) <=>
                      x \in Listed(jobs[r]) \/ (r = q /\ x = new)
                 /\ \A x \in Listed(jobs[q]) : x.id # new.id
<1> DEFINE j == NewJob(c, q, t, restart)
           list == jobs[q]
           last == lastId[q]
           s == <<q, clock + 1>>
<1>1. PICK r : r = add_queue_job([list |-> list, last |-> last], j)
  OBVIOUS
<1>2. /\ user[c] # NoUser /\ pend[c] = NoRequest /\ qstate[q] # "off" /\ clock < MaxClock
      /\ jobs' = [jobs EXCEPT ![q] = r.list] /\ lastId' = [lastId EXCEPT ![q] = r.last]
      /\ clock' = clock + 1
      /\ IF r.list = list THEN UNCHANGED <<pend, reused>>
         ELSE /\ pend' = [pend EXCEPT ![c] = [op |-> "create", q |-> q, id |-> r.last,
                                            task |-> t, stamp |-> s]]
              /\ reused' = (reused \/ Known(q, r.last))
      /\ UNCHANGED <<qstate, user, local>>
  BY <1>1 DEF CreateJob, Idle, Sends
<1>3. /\ list \in Seq(Job) /\ Distinct(list) /\ last \in 0..MaxJobId
      /\ (list # <<>> => last # 0) /\ q \in DOMAIN jobs /\ q \in DOMAIN lastId
      /\ clock \in Nat /\ clock' \in 0..MaxClock /\ clock <= clock'
  BY <1>2, QueueConstants DEF ListInv, TypeOK, Lists
<1>4. s \in Stamp /\ s[1] = q /\ s[2] = clock + 1
  BY <1>2, <1>3, QueueConstants DEF Stamp
<1>5. /\ j \in Fields /\ j.id = 0 /\ j.stamp = s /\ j.conn = c /\ j.task = t /\ j.held = TRUE
      /\ j.server = NoUser
  <2>1. user[c] \in User /\ restart \in BOOLEAN /\ 0 \in 0..MaxJobId
    BY <1>2, QueueConstants DEF ListInv, TypeOK
  <2> QED BY <1>4, <2>1 DEF NewJob, Fields
<1>6. \A x \in Listed(list) : x.stamp[2] <= clock
  BY DEF ListInv, Lists
<1>7. \A x \in Listed(list) : x.stamp # j.stamp
  BY <1>3, <1>4, <1>5, <1>6
<1> HIDE DEF j, s
<1>8. CASE r.list = list /\ r.last = last
  <2>1. /\ UNCHANGED <<jobs, lastId, qstate, user, local, pend, reused>>
        /\ clock' = clock + 1
    BY <1>2, <1>3, <1>8 DEF ListInv, TypeOK
  <2>2. TypeOK'
    BY <1>3, <2>1 DEF ListInv, TypeOK
  <2>3. Lists'
    <3>1. \A r1 \in Queue : \A x \in Listed(jobs[r1]) : x.stamp[2] \in Int
      BY ListedIs
    <3> QED BY <1>3, <2>1, <3>1 DEF ListInv, Lists
  <2>4. Holdings'
    <3>1. /\ local' = [local EXCEPT ![c] = local[c]] /\ pend' = [pend EXCEPT ![c] = pend[c]]
          /\ local[c] \in SUBSET Entry /\ pend[c] \in Request
      BY <2>1 DEF ListInv, TypeOK
    <3>2. \A e \in local[c] : e.stamp[2] <= clock'
      <4>1. \A e \in local[c] : e.stamp[2] <= clock /\ e.stamp[2] \in Int
        BY <3>1, QueueConstants DEF ListInv, Holdings, Entry, Stamp
      <4> QED BY <1>3, <2>1, <4>1
    <3>3. ~Requests(pend[c])
      BY <1>2 DEF Requests, NoRequest
    <3> QED BY <1>2, <1>3, <2>1, <3>1, <3>2, <3>3, HoldingsStep
  <2> QED BY <1>2, <2>1, <2>2, <2>3, <2>4 DEF ListInv
<1>9. ASSUME NEW new \in Job,
             r.list \in Seq(Job), Distinct(r.list), r.list # list, r.last \in JobId,
             r.last \notin Ids(list),
             new.id = r.last, new.stamp = j.stamp, new.conn = j.conn, new.task = j.task,
             new.held = j.held, new.server = j.server,
             \A x : x \in Listed(r.list) <=> x \in Listed(list) \/ x = new
      PROVE  /\ ListInv'
             /\ \E p \in Request :
                 /\ reused' = (reused \/ Known(q, new.id))
                 /\ new.stamp = <<q, clock + 1>> /\ new.conn = c /\ new.task = t
                 /\ new.held /\ new.server = NoUser
                 /\ Acts(c, local[c], p)
                 /\ p.op = "create" /\ p.q = q /\ p.id = new.id /\ p.task = t
                 /\ p.stamp = new.stamp
                 /\ \A r1 \in Queue : \A x : x \in Listed(jobs'[r1]) <=>
                      x \in Listed(jobs[r1]) \/ (r1 = q /\ x = new)
                 /\ \A x \in Listed(jobs[q]) : x.id # new.id
  <2>1. PICK p : p = [op |-> "create", q |-> q, id |-> r.last, task |-> t, stamp |-> s]
    OBVIOUS
  <2>2. /\ p \in Request /\ p.op = "create" /\ p.q = q /\ p.id = r.last /\ p.task = t
        /\ p.stamp = s
    BY <1>4, <1>9, <2>1 DEF Request
  <2>3. pend' = [pend EXCEPT ![c] = p] /\ reused' = (reused \/ Known(q, r.last))
    BY <1>2, <1>9, <2>1
  <2>4. local[c] \in SUBSET Entry /\ local' = [local EXCEPT ![c] = local[c]]
    BY <1>2 DEF ListInv, TypeOK
  <2>5. \A e \in local[c] : e.stamp[2] <= clock'
    <3>1. \A e \in local[c] : e.stamp[2] <= clock /\ e.stamp[2] \in Int
      BY <2>4, QueueConstants DEF ListInv, Holdings, Entry, Stamp
    <3> QED BY <1>2, <1>3, <3>1
  <2>6. p.stamp[2] <= clock'
    BY <1>2, <1>3, <1>4, <2>2
  <2>7. Holdings' /\ local' \in [Conn -> SUBSET Entry] /\ pend' \in [Conn -> Request]
    BY <1>2, <1>3, <2>2, <2>3, <2>4, <2>5, <2>6, HoldingsStep
  <2>8. /\ jobs' \in [Queue -> Seq(Job)] /\ jobs'[q] = r.list
        /\ \A r1 \in Queue : r1 # q => jobs'[r1] = jobs[r1]
    BY <1>2, <1>9 DEF ListInv, TypeOK
  <2>9. r.last \in 0..MaxJobId /\ r.last # 0
    BY <1>9, QueueConstants DEF JobId
  <2>10. /\ lastId' \in [Queue -> 0..MaxJobId] /\ lastId'[q] = r.last
         /\ \A r1 \in Queue : r1 # q => lastId'[r1] = lastId[r1]
    BY <1>2, <2>9 DEF ListInv, TypeOK
  <2>11. TypeOK'
    BY <1>2, <1>3, <2>7, <2>8, <2>10 DEF ListInv, TypeOK
  <2>12. ASSUME NEW r1 \in Queue
         PROVE  /\ Distinct(jobs'[r1])
                /\ jobs'[r1] # <<>> => lastId'[r1] # 0
                /\ qstate[r1] = "off" => jobs'[r1] = <<>>
                /\ \A x \in Listed(jobs'[r1]) : x.stamp[1] = r1 /\ x.stamp[2] <= clock'
    <3>1. /\ Distinct(jobs[r1]) /\ (jobs[r1] # <<>> => lastId[r1] # 0)
          /\ (qstate[r1] = "off" => jobs[r1] = <<>>)
          /\ \A x \in Listed(jobs[r1]) : x.stamp[1] = r1 /\ x.stamp[2] <= clock
      BY DEF ListInv, Lists
    <3>2. \A x \in Listed(jobs[r1]) : x.stamp[2] <= clock'
      <4>1. \A x \in Listed(jobs[r1]) : x.stamp[2] \in Int
        BY ListedIs
      <4> QED BY <1>2, <1>3, <3>1, <4>1
    <3>3. CASE r1 # q
      BY <2>8, <2>10, <3>1, <3>2, <3>3
    <3>4. CASE r1 = q
      <4>1. new.stamp[1] = q /\ new.stamp[2] <= clock'
        BY <1>4, <1>5, <1>9, <2>2, <2>6
      <4> QED BY <1>2, <1>9, <2>8, <2>9, <2>10, <3>1, <3>2, <3>4, <4>1
    <3> QED BY <3>3, <3>4
  <2>13. Lists'
    BY <1>2, <2>12 DEF Lists
  <2>14. Acts(c, local[c], p)
    BY <2>2, <2>3, <2>4 DEF Acts
  <2>15. \A x \in Listed(list) : x.id # new.id
    BY <1>9 DEF Ids, Listed
  <2>16. new.stamp = s /\ s = <<q, clock + 1>> /\ new.conn = c /\ new.task = t /\ new.held
         /\ new.server = NoUser
    BY <1>5, <1>9 DEF s
  <2>17. \A r1 \in Queue : \A x : x \in Listed(jobs'[r1]) <=>
           x \in Listed(jobs[r1]) \/ (r1 = q /\ x = new)
    BY <1>9, <2>8
  <2>18. ListInv'
    BY <2>7, <2>11, <2>13 DEF ListInv
  <2> QED BY <1>9, <2>2, <2>3, <2>14, <2>15, <2>16, <2>17, <2>18
<1>10. \/ r.list = list /\ r.last = last
       \/ /\ r.list \in Seq(Job) /\ Distinct(r.list) /\ r.list # list
          /\ r.last \in JobId /\ r.last \notin Ids(list)
          /\ \E new \in Job :
               /\ new.id = r.last /\ new.stamp = j.stamp
               /\ new.conn = j.conn /\ new.task = j.task /\ new.held = j.held
               /\ new.server = j.server /\ new.station = j.station
               /\ \A x : x \in Listed(r.list) <=> x \in Listed(list) \/ x = new
  BY <1>1, <1>3, <1>5, <1>7, NewJobIs
<1> QED BY <1>2, <1>8, <1>9, <1>10

(* Restart: what is read back was in the lists.                             *)
LEMMA RestartAction ==
  ASSUME ListInv, Restart
  PROVE  /\ ListInv' /\ reused' = reused
         /\ local' = [c \in Conn |-> {}] /\ pend' = [c \in Conn |-> NoRequest]
         /\ \A r \in Queue : \A x \in Listed(jobs'[r]) : x.held = FALSE /\ x.server = NoUser
         /\ \A r \in Queue : \A j \in Listed(jobs[r]) :
              \/ \E x \in Listed(jobs'[r]) : x.stamp = j.stamp
              \/ Len(jobs[r]) = MaxJobId
<1>1. /\ jobs' = [q \in Queue |-> r_w_queue_jobs(jobs[q]).list]
      /\ lastId' = [q \in Queue |-> r_w_queue_jobs(jobs[q]).last]
      /\ qstate' = [q \in Queue |-> IF qstate[q] = "off" THEN "off" ELSE "on"]
      /\ user' = [c \in Conn |-> NoUser]
      /\ local' = [c \in Conn |-> {}] /\ pend' = [c \in Conn |-> NoRequest]
      /\ UNCHANGED <<clock, reused>>
  BY DEF Restart
<1>2. ASSUME NEW q \in Queue
      PROVE  /\ jobs'[q] \in Seq(Job) /\ Distinct(jobs'[q]) /\ lastId'[q] \in 0..MaxJobId
             /\ jobs'[q] # <<>> => lastId'[q] # 0
             /\ qstate'[q] = "off" => jobs'[q] = <<>>
             /\ \A x \in Listed(jobs'[q]) :
                  /\ x.held = FALSE /\ x.server = NoUser
                  /\ x.stamp[1] = q /\ x.stamp[2] <= clock
             /\ \A j \in Listed(jobs[q]) :
                  \/ \E x \in Listed(jobs'[q]) : x.stamp = j.stamp
                  \/ Len(jobs[q]) = MaxJobId
  <2>1. PICK r : r = r_w_queue_jobs(jobs[q])
    OBVIOUS
  <2>2. jobs'[q] = r.list /\ lastId'[q] = r.last
    BY <1>1, <2>1
  <2>3. /\ jobs[q] \in Seq(Job) /\ Distinct(jobs[q]) /\ (qstate[q] = "off" => jobs[q] = <<>>)
        /\ \A j \in Listed(jobs[q]) : j.stamp[1] = q /\ j.stamp[2] <= clock
    BY DEF ListInv, TypeOK, Lists
  <2>4. /\ r.list \in Seq(Job) /\ Distinct(r.list) /\ r.last \in 0..MaxJobId
        /\ r.list # <<>> => r.last # 0
        /\ \A x \in Listed(r.list) : \E j \in Listed(jobs[q]) : x = SavedJob(j)
        /\ \/ \A j \in Listed(jobs[q]) : SavedJob(j) \in Listed(r.list)
           \/ Len(jobs[q]) = MaxJobId
    BY <2>1, <2>3, RereadIs
  <2>5. \A j \in Listed(jobs[q]) :
          SavedJob(j).stamp = j.stamp /\ SavedJob(j).held = FALSE /\ SavedJob(j).server = NoUser
    BY ListedIs, SavedIs
  <2>6. qstate'[q] = "off" => r.list = <<>>
    <3>1. qstate'[q] = "off" => Listed(jobs[q]) = {}
      BY <1>1, <2>3 DEF Listed
    <3> QED BY <2>4, <3>1, EmptyIs
  <2> QED BY <2>2, <2>3, <2>4, <2>5, <2>6
<1>3. Lists'
  BY <1>1, <1>2 DEF Lists
<1>4. ~Requests(NoRequest) /\ NoRequest \in Request
  BY RequestIs DEF Request
<1>5. Holdings'
  BY <1>1, <1>4 DEF Holdings
<1>6. TypeOK'
  <2>1. jobs' \in [Queue -> Seq(Job)] /\ lastId' \in [Queue -> 0..MaxJobId]
    BY <1>1, <1>2
  <2> QED BY <1>1, <1>4, <2>1 DEF ListInv, TypeOK
<1>7. ListInv'
  BY <1>3, <1>5, <1>6 DEF ListInv
<1>8. \A r \in Queue : \A x \in Listed(jobs'[r]) : x.held = FALSE /\ x.server = NoUser
  BY <1>2
<1>9. \A r \in Queue : \A j \in Listed(jobs[r]) :
        \/ \E x \in Listed(jobs'[r]) : x.stamp = j.stamp
        \/ Len(jobs[r]) = MaxJobId
  BY <1>2
<1> QED BY <1>1, <1>7, <1>8, <1>9

(* At first the lists are empty.                                            *)
LEMMA ListInvInit ==
  ASSUME Init PROVE ListInv
<1>1. /\ jobs = [q \in Queue |-> <<>>] /\ lastId = [q \in Queue |-> 0] /\ clock = 0
      /\ qstate = [q \in Queue |-> "on"]
      /\ user = [c \in Conn |-> NoUser] /\ local = [c \in Conn |-> {}]
      /\ pend = [c \in Conn |-> NoRequest]
  BY DEF Init
<1>2. ~Requests(NoRequest) /\ NoRequest \in Request
  BY RequestIs DEF Request
<1>3. 0 \in 0..MaxJobId /\ 0 \in 0..MaxClock /\ <<>> \in Seq(Job)
  BY QueueConstants
<1>4. TypeOK
  BY <1>1, <1>2, <1>3 DEF TypeOK
<1>5. Lists
  BY <1>1 DEF Lists, Distinct, Listed
<1>6. Holdings
  BY <1>1, <1>2 DEF Holdings
<1> QED BY <1>4, <1>5, <1>6 DEF ListInv

(* Every step keeps the lists in order.                                     *)
LEMMA ListInvStep ==
  ASSUME ListInv, [Next]_vars
  PROVE  ListInv'
<1>1. ASSUME NEW c \in Conn, ConnStep(c) PROVE ListInv'
  <2>1. CASE \E u \in LoginAs[c] : Login(c, u)
    BY <2>1, SmallActions
  <2>2. ASSUME NEW ok \in BOOLEAN, CreateFile(c, ok) \/ OpenServed(c, ok) PROVE ListInv'
    BY <2>2, OpenActions
  <2>3. ASSUME NEW ok \in BOOLEAN, CloseJob(c, ok) PROVE ListInv'
    BY <2>3, CloseJobAction
  <2>4. ASSUME NEW ok \in BOOLEAN, PrintFile(c, ok) PROVE ListInv'
    <3>1. PICK e \in find_queue_job(c, pend[c].q, pend[c].id) :
                 local' = [local EXCEPT ![c] = local[c] \ {e}]
      BY <2>4 DEF PrintFile
    <3> QED BY <2>4, <3>1, FreeActions
  <2>5. ASSUME NEW e \in local[c], WriteFile(c, e) PROVE ListInv'
    BY <2>5, SmallActions
  <2>6. ASSUME NEW e \in local[c], NEW a \in BOOLEAN, FinishAbort(c, e, a) PROVE ListInv'
    BY <2>6, FreeActions
  <2>7. CASE FinishJob(c)
    BY <2>7, FinishJobAction
  <2>8. ASSUME NEW ts \in SUBSET Task, EndOfJob(c, ts) PROVE ListInv'
    BY <2>8, FreeActions
  <2>9. CASE EndJobs(c)
    BY <2>9, EndJobsAction
  <2>10. CASE ClearConnection(c)
    BY <2>10, FreeActions
  <2> QED BY <1>1, <2>1, <2>2, <2>3, <2>4, <2>5, <2>6, <2>7, <2>8, <2>9, <2>10 DEF ConnStep
<1>2. ASSUME NEW c \in Conn, NEW q \in Queue, ClientRequest(c, q) PROVE ListInv'
  <2>1. ASSUME NEW t \in Task, NEW r \in Restarts, CreateJob(c, q, t, r) PROVE ListInv'
    BY <2>1, CreateJobAction
  <2>2. ASSUME NEW id \in JobId, CloseFile(c, q, id) PROVE ListInv'
    BY <2>2, CloseFileAction
  <2>3. ASSUME NEW i \in DOMAIN jobs[q], RemoveJob(c, q, i) PROVE ListInv'
    BY <2>3, RemoveJobAction
  <2>4. ASSUME NEW st \in {"on", "stopped"}, SetQueueStatus(c, q, st) PROVE ListInv'
    BY <2>4, SmallActions
  <2>5. CASE DestroyQueue(c, q)
    BY <2>5, DestroyQueueAction
  <2>6. CASE CreateQueue(c, q)
    BY <2>6, CreateQueueAction
  <2> QED BY <1>2, <2>1, <2>2, <2>3, <2>4, <2>5, <2>6 DEF ClientRequest
<1>3. ASSUME NEW c \in Conn, NEW q \in Queue, ServerRequest(c, q) PROVE ListInv'
  <2>1. CASE AttachServer(c, q) \/ DetachServer(c, q)
    BY <2>1, SmallActions
  <2>2. ASSUME NEW suits \in SUBSET StampsOf(q), NEW aged \in BOOLEAN,
               ServiceJob(c, q, suits, aged)
        PROVE  ListInv'
    BY <2>2, ServiceJobAction
  <2> QED BY <1>3, <2>1, <2>2 DEF ServerRequest
<1>4. CASE Restart
  BY <1>4, RestartAction
<1>5. CASE UNCHANGED vars
  BY <1>5 DEF vars, ListInv, TypeOK, Lists, Holdings
<1> QED BY <1>1, <1>2, <1>3, <1>4, <1>5 DEF Next

(* A client that pages through a list has a page for every place in it.     *)
LEMMA PageStart ==
  ASSUME NEW i \in Nat
  PROVE  \E o \in 0..i : o % MaxPage = 0 /\ i - o \in 0..(MaxPage - 1)
<1>1. MaxPage \in Nat \ {0}
  BY QueueConstants
<1>2. i = MaxPage * (i \div MaxPage) + (i % MaxPage) /\ i % MaxPage \in 0..(MaxPage - 1)
      /\ i \div MaxPage \in Nat
  BY <1>1
<1>3. (MaxPage * (i \div MaxPage)) % MaxPage = 0
  BY <1>1, <1>2
<1> DEFINE o == MaxPage * (i \div MaxPage)
<1>4. o \in Int /\ i = o + (i % MaxPage) /\ o % MaxPage = 0 /\ o >= 0
  BY <1>1, <1>2, <1>3
<1> HIDE DEF o
<1>5. o \in 0..i /\ i - o \in 0..(MaxPage - 1)
  BY <1>1, <1>2, <1>4
<1> QED BY <1>4, <1>5

(* The pages hold the ids of the list at their places.                      *)
LEMMA PagesAre ==
  ASSUME NEW list \in Seq(Job)
  PROVE  Pages(list) = {<<i, list[i].id>> : i \in DOMAIN list}
<1> DEFINE page(o) == nw_get_queue_job_list(list, o)
           starts == {o \in 0..Len(list) : o % MaxPage = 0}
           size(o) == Min({MaxPage, Len(list) - o})
<1>1. MaxPage \in Nat \ {0} /\ Len(list) \in Nat /\ DOMAIN list = 1..Len(list)
  BY QueueConstants
<1>2. ASSUME NEW o \in starts
      PROVE  /\ DOMAIN page(o) = 1..size(o)
             /\ \A i \in 1..size(o) : page(o)[i] = list[o + i].id
             /\ size(o) \in Nat /\ size(o) <= MaxPage /\ size(o) <= Len(list) - o
             /\ size(o) = MaxPage \/ size(o) = Len(list) - o
  <2>1. {MaxPage, Len(list) - o} \in SUBSET Nat /\ {MaxPage, Len(list) - o} # {}
    BY <1>1
  <2>2. /\ size(o) \in {MaxPage, Len(list) - o}
        /\ \A u \in {MaxPage, Len(list) - o} : size(o) <= u
    BY <2>1, MinIs
  <2>3. DOMAIN page(o) = 1..size(o) /\ \A i \in 1..size(o) : page(o)[i] = list[o + i].id
    BY DEF nw_get_queue_job_list
  <2> HIDE DEF size, page
  <2> QED BY <2>1, <2>2, <2>3
<1>3. Pages(list) = UNION {{<<o + i, page(o)[i]>> : i \in DOMAIN page(o)} : o \in starts}
  BY DEF Pages
<1> HIDE DEF page, size
<1>4. ASSUME NEW x \in Pages(list) PROVE x \in {<<i, list[i].id>> : i \in DOMAIN list}
  <2>1. PICK o \in starts : x \in {<<o + i, page(o)[i]>> : i \in DOMAIN page(o)}
    BY <1>3, <1>4
  <2>2. PICK i \in 1..size(o) : x = <<o + i, page(o)[i]>>
    BY <1>2, <2>1
  <2>3. page(o)[i] = list[o + i].id /\ o + i \in 1..Len(list)
    BY <1>1, <1>2, <2>1
  <2> QED BY <1>1, <2>2, <2>3
<1>5. ASSUME NEW k \in DOMAIN list PROVE <<k, list[k].id>> \in Pages(list)
  <2>1. k - 1 \in Nat
    BY <1>1
  <2>2. PICK o \in 0..(k - 1) : o % MaxPage = 0 /\ k - 1 - o \in 0..(MaxPage - 1)
    BY <2>1, PageStart
  <2>3. o \in starts
    BY <1>1, <2>2
  <2>7. /\ k \in 1..Len(list) /\ o \in Nat /\ size(o) \in Nat
        /\ size(o) = MaxPage \/ size(o) = Len(list) - o
    BY <1>1, <1>2, <2>2, <2>3
  <2>4. k - o \in 1..size(o) /\ o + (k - o) = k
    BY <1>1, <2>2, <2>7
  <2>5. <<o + (k - o), page(o)[k - o]>> \in {<<o + i, page(o)[i]>> : i \in DOMAIN page(o)}
    BY <1>2, <2>3, <2>4
  <2>6. page(o)[k - o] = list[k].id
    BY <1>2, <2>3, <2>4
  <2> QED BY <1>3, <2>3, <2>4, <2>5, <2>6
<1> QED BY <1>4, <1>5

(* JobIdsUnique follows from ListInv.                                       *)
LEMMA ListInvUnique ==
  ASSUME ListInv PROVE JobIdsUnique
<1>1. SUFFICES ASSUME NEW q \in Queue
               PROVE  /\ \A i, j \in DOMAIN jobs[q] : jobs[q][i].id = jobs[q][j].id => i = j
                      /\ Pages(jobs[q]) = {<<i, jobs[q][i].id>> : i \in DOMAIN jobs[q]}
                      /\ \A i, j \in DOMAIN jobs[q] :
                           fill_q_job_entry(jobs[q], i).record_next = jobs[q][j].id
                             <=> j = i + 1
  BY DEF JobIdsUnique
<1>2. PICK list \in Seq(Job) : list = jobs[q]
  BY DEF ListInv, TypeOK
<1>3. Distinct(list)
  BY <1>2 DEF ListInv, Lists
<1>4. \A i, j \in DOMAIN list : list[i].id = list[j].id => i = j
  BY <1>3 DEF Distinct
<1>5. Pages(list) = {<<i, list[i].id>> : i \in DOMAIN list}
  BY PagesAre
<1>6. ASSUME NEW i \in DOMAIN list, NEW j \in DOMAIN list
      PROVE  fill_q_job_entry(list, i).record_next = list[j].id <=> j = i + 1
  <2>1. list[j].id # 0
    BY DEF Job
  <2>2. fill_q_job_entry(list, i).record_next = IF i < Len(list) THEN list[i + 1].id ELSE 0
    BY DEF fill_q_job_entry
  <2>3. CASE i < Len(list)
    <3>1. i + 1 \in DOMAIN list
      BY <2>3
    <3> QED BY <1>4, <2>2, <2>3, <3>1
  <2>4. CASE ~(i < Len(list))
    BY <2>1, <2>2, <2>4
  <2> QED BY <2>3, <2>4
<1> QED BY <1>2, <1>4, <1>5, <1>6

(* The lists of the queues are always in order.                             *)
LEMMA QueuesListInv == Spec => []ListInv
<1>1. Init => ListInv
  BY ListInvInit
<1>2. ListInv /\ [Next]_vars => ListInv'
  BY ListInvStep
<1> QED BY <1>1, <1>2, PTL DEF Spec

(* For any table size no two jobs of a queue share a job id, also when ids   *)
(* wrap and over a restart, and a client that pages through the list or     *)
(* follows its next ids sees every job once (nwqueue.c, add_queue_job,      *)
(* r_w_queue_jobs, nw_get_queue_job_list, fill_q_job_entry).                *)
THEOREM QueuesIdsUnique == Spec => []JobIdsUnique
<1>1. ListInv => JobIdsUnique
  BY ListInvUnique
<1> QED BY <1>1, QueuesListInv, PTL

-----------------------------------------------------------------------------
(* Jobs with data are kept                                                  *)

(* How a job may leave its queue.                                           *)
MayGo(q, j) ==
  \/ \E c \in Conn : \/ Idle(c) /\ user[c] \in {Sup, j.client} /\ UNCHANGED <<pend, user>>
                     \/ pend[c].op = "finish" /\ j.server = user[c] /\ j.station = c
                     \/ pend[c].op = "close" /\ pend'[c].op = "print"
  \/ Len(jobs[q]) = MaxJobId /\ local' = [c \in Conn |-> {}]

(* Every job with data stays, or may go.                                    *)
Kept ==
  \A q \in Queue : \A j \in Listed(jobs[q]) :
    HasData(j.stamp) => (\E x \in Listed(jobs'[q]) : x.stamp = j.stamp) \/ MayGo(q, j)

(* DataKeptStep in terms of the members of the lists.                       *)
LEMMA KeptIs ==
  ASSUME Kept PROVE DataKeptStep
<1>1. SUFFICES ASSUME NEW q \in Queue, NEW i \in DOMAIN jobs[q],
                      HasData(jobs[q][i].stamp), jobs[q][i].stamp \notin StampsOf(q)'
               PROVE  MayGo(q, jobs[q][i])
  BY DEF DataKeptStep, MayGo
<1>2. jobs[q][i] \in Listed(jobs[q])
  BY DEF Listed
<1>3. \A x \in Listed(jobs'[q]) : x.stamp \in StampsOf(q)'
  BY DEF Listed, StampsOf
<1> QED BY <1>1, <1>2, <1>3 DEF Kept

(* A step that leaves the lists alone.                                      *)
LEMMA KeptSame ==
  ASSUME jobs' = jobs PROVE DataKeptStep
  BY DEF DataKeptStep

(* No step loses a job with data.                                           *)
LEMMA DataKeptAlways ==
  ASSUME ListInv, [Next]_vars
  PROVE  DataKeptStep
<1>1. ASSUME NEW c \in Conn, ConnStep(c) PROVE DataKeptStep
  <2>1. CASE \E u \in LoginAs[c] : Login(c, u)
    BY <2>1, SmallActions, KeptSame
  <2>2. ASSUME NEW ok \in BOOLEAN, CreateFile(c, ok) \/ OpenServed(c, ok) PROVE DataKeptStep
    BY <2>2, OpenActions, KeptSame
  <2>3. ASSUME NEW ok \in BOOLEAN, CloseJob(c, ok) PROVE DataKeptStep
    <3>1. pend[c].op = "close" /\ (pend'[c].op = "print" \/ jobs' = jobs)
      BY <2>3, CloseJobAction, CloseJobEffect DEF ListInv
    <3>2. CASE pend'[c].op = "print"
      BY <3>1, <3>2, KeptIs DEF Kept, MayGo
    <3> QED BY <3>1, <3>2, KeptSame
  <2>4. ASSUME NEW ok \in BOOLEAN, PrintFile(c, ok) PROVE DataKeptStep
    BY <2>4, KeptSame DEF PrintFile
  <2>5. ASSUME NEW e \in local[c], WriteFile(c, e) PROVE DataKeptStep
    BY <2>5, SmallActions, KeptSame
  <2>6. ASSUME NEW e \in local[c], NEW a \in BOOLEAN, FinishAbort(c, e, a) PROVE DataKeptStep
    BY <2>6, KeptSame DEF FinishAbort
  <2>7. CASE FinishJob(c)
    <3>1. pend[c].op = "finish"
      BY <2>7, FinishJobAction
    <3>2. \A r \in Queue : \A j \in Listed(jobs[r]) :
            (\E x \in Listed(jobs'[r]) : x.stamp = j.stamp) \/ Serves(c, j)
      BY <2>7, FinishJobEffect DEF ListInv
    <3> QED BY <3>1, <3>2, KeptIs DEF Kept, MayGo, Serves
  <2>8. ASSUME NEW ts \in SUBSET Task, EndOfJob(c, ts) PROVE DataKeptStep
    BY <2>8, KeptSame DEF EndOfJob
  <2>9. CASE EndJobs(c)
    <3>1. nw_close_connection_jobs(c, pend[c].tasks)
      BY <2>9 DEF EndJobs
    <3>2. \A r \in Queue : \A j \in Listed(jobs[r]) :
            HasData(j.stamp) => \E x \in Listed(jobs'[r]) : x.stamp = j.stamp
      BY <3>1, EndJobsEffect DEF ListInv
    <3> QED BY <3>2, KeptIs DEF Kept
  <2>10. CASE ClearConnection(c)
    BY <2>10, KeptSame DEF ClearConnection
  <2> QED BY <1>1, <2>1, <2>2, <2>3, <2>4, <2>5, <2>6, <2>7, <2>8, <2>9, <2>10 DEF ConnStep
<1>2. ASSUME NEW c \in Conn, NEW q \in Queue, ClientRequest(c, q) PROVE DataKeptStep
  <2>1. ASSUME NEW t \in Task, NEW r \in Restarts, CreateJob(c, q, t, r) PROVE DataKeptStep
    <3>1. \/ jobs' = jobs
          \/ \A r1 \in Queue : \A x \in Listed(jobs[r1]) : x \in Listed(jobs'[r1])
      BY <2>1, CreateJobAction
    <3> QED BY <3>1, KeptSame, KeptIs DEF Kept
  <2>2. ASSUME NEW id \in JobId, CloseFile(c, q, id) PROVE DataKeptStep
    BY <2>2, KeptSame DEF CloseFile
  <2>3. ASSUME NEW i \in DOMAIN jobs[q], RemoveJob(c, q, i) PROVE DataKeptStep
    <3>1. \A r \in Queue : \A x \in Listed(jobs[r]) :
            x \in Listed(jobs'[r]) \/ (r = q /\ x = jobs[q][i])
      BY <2>3, RemoveJobAction
    <3>2. Idle(c) /\ user[c] \in {Sup, jobs[q][i].client} /\ UNCHANGED <<pend, user>>
      BY <2>3 DEF RemoveJob
    <3> QED BY <3>1, <3>2, KeptIs DEF Kept, MayGo
  <2>4. ASSUME NEW st \in {"on", "stopped"}, SetQueueStatus(c, q, st) PROVE DataKeptStep
    BY <2>4, SmallActions, KeptSame
  <2>5. CASE DestroyQueue(c, q)
    <3>1. Idle(c) /\ user[c] = Sup /\ UNCHANGED <<pend, user>>
      BY <2>5 DEF DestroyQueue
    <3> QED BY <3>1, KeptIs DEF Kept, MayGo
  <2>6. CASE CreateQueue(c, q)
    BY <2>6, CreateQueueAction, KeptSame
  <2> QED BY <1>2, <2>1, <2>2, <2>3, <2>4, <2>5, <2>6 DEF ClientRequest
<1>3. ASSUME NEW c \in Conn, NEW q \in Queue, ServerRequest(c, q) PROVE DataKeptStep
  <2>1. CASE AttachServer(c, q) \/ DetachServer(c, q)
    BY <2>1, SmallActions, KeptSame
  <2>2. ASSUME NEW suits \in SUBSET StampsOf(q), NEW aged \in BOOLEAN,
               ServiceJob(c, q, suits, aged)
        PROVE  DataKeptStep
    <3>1. \A r \in Queue : \A j \in Listed(jobs[r]) :
            HasData(j.stamp) => \E x \in Listed(jobs'[r]) : x.stamp = j.stamp
      BY <2>2, ServiceJobEffect DEF ListInv
    <3> QED BY <3>1, KeptIs DEF Kept
  <2> QED BY <1>3, <2>1, <2>2 DEF ServerRequest
<1>4. CASE Restart
  <2>1. /\ local' = [c \in Conn |-> {}]
        /\ \A r \in Queue : \A j \in Listed(jobs[r]) :
             \/ \E x \in Listed(jobs'[r]) : x.stamp = j.stamp
             \/ Len(jobs[r]) = MaxJobId
    BY <1>4, RestartAction
  <2> QED BY <2>1, KeptIs DEF Kept, MayGo
<1>5. CASE UNCHANGED vars
  BY <1>5, KeptSame DEF vars
<1> QED BY <1>1, <1>2, <1>3, <1>4, <1>5 DEF Next

(* For any connections and queues a job with data leaves its queue only by   *)
(* its queue server, its owner, the supervisor, direct printing, or a full   *)
(* list that is read back: the clean-up of an end of job and the walk of a  *)
(* queue server drop only jobs without data (nw_close_connection_jobs,       *)
(* nw_service_queue_job, r_w_queue_jobs).                                   *)
THEOREM QueuesDataKept == Spec => DataKept
<1>1. ListInv /\ [Next]_vars => [DataKeptStep]_vars
  BY DataKeptAlways
<1> QED BY <1>1, QueuesListInv, PTL DEF Spec, DataKept

-----------------------------------------------------------------------------
(* Served jobs: as long as no id was given again while it was in use        *)

(* A connection's entries E and its request p name the job j of queue q by  *)
(* its id exactly when they mean its file.                                  *)
NamedBy(q, j, E, p) ==
  /\ \A e \in E : e.stamp = j.stamp <=> e.q = q /\ e.id = j.id
  /\ Requests(p) => (p.stamp = j.stamp <=> p.q = q /\ p.id = j.id)

(* A connection process has one entry of a job at most, none of a job it is *)
(* about to open or has given back, and a closed one of a job it has closed.*)
OneEntry(E, p) ==
  /\ \A e, f \in E : (e.q = f.q /\ e.id = f.id) \/ e.stamp = f.stamp => e = f
  /\ p.op \in {"create", "service", "finish"} => \A e \in E : ~(e.q = p.q /\ e.id = p.id)
  /\ Requests(p) => \A e \in E : e.stamp # p.stamp
  /\ p.op \in {"close", "print"} => \E e \in E : e.mode = "closed" /\ e.q = p.q /\ e.id = p.id
  /\ p.op = "end" => \A e \in E : e.task \notin p.tasks

(* The client is between its two steps of closing the job.                  *)
Printing(e, p) == e.mode = "closed" /\ p.op = "print" /\ p.q = e.q /\ p.id = e.id

(* The process that has the file of a held job is the one that made it and  *)
(* does not read it; the one that has the file of another job is the one of *)
(* its queue server and does not write it, or has closed it.                *)
OwnedBy(j, c, E, p) ==
  /\ \A e \in E : e.stamp = j.stamp =>
       IF j.held THEN c = j.conn /\ e.task = j.task /\ e.mode # "read"
       ELSE Printing(e, p) \/ (j.server # NoUser /\ c = j.station /\ e.mode # "write")
  /\ Requests(p) /\ p.stamp = j.stamp =>
       IF j.held THEN c = j.conn /\ p.op = "create" /\ p.task = j.task
       ELSE j.server # NoUser /\ c = j.station /\ p.op = "service"

(* The connection reads the file, or is about to.                           *)
Reads(s, E, p) ==
  \/ \E e \in E : e.stamp = s /\ e.mode = "read"
  \/ p.op = "service" /\ p.stamp = s

Sound(q, j) ==
  /\ j.held => j.server = NoUser
  /\ \A c \in Conn : NamedBy(q, j, local[c], pend[c]) /\ OwnedBy(j, c, local[c], pend[c])

Fresh ==
  ~reused =>
    /\ \A c \in Conn : OneEntry(local[c], pend[c])
    /\ \A q \in Queue : \A j \in Listed(jobs[q]) : Sound(q, j)
    /\ \A c, d \in Conn : \A s \in Stamp :
         Reads(s, local[c], pend[c]) /\ Reads(s, local[d], pend[d]) => c = d

QueueInv == ListInv /\ Fresh

(* At first there is nothing to mix up.                                     *)
LEMMA FreshInit ==
  ASSUME Init PROVE Fresh
<1>1. /\ jobs = [q \in Queue |-> <<>>] /\ local = [c \in Conn |-> {}]
      /\ pend = [c \in Conn |-> NoRequest]
  BY DEF Init
<1>2. ~Requests(NoRequest) /\ NoRequest.op = "none"
  BY RequestIs DEF Request
<1>3. \A c \in Conn : OneEntry(local[c], pend[c])
  BY <1>1, <1>2 DEF OneEntry
<1>4. \A c \in Conn : \A s : ~Reads(s, local[c], pend[c])
  BY <1>1, <1>2 DEF Reads
<1>5. \A q \in Queue : Listed(jobs[q]) = {}
  BY <1>1 DEF Listed
<1> QED BY <1>3, <1>4, <1>5 DEF Fresh

(* What a step of connection c has to show, for what it holds and asks for  *)
(* afterwards: the other connections have not moved.                        *)
LEMMA FreshStep ==
  ASSUME ListInv, Fresh, ~reused, NEW c \in Conn, NEW E, NEW p, Acts(c, E, p),
         OneEntry(E, p),
         \A q \in Queue : \A x \in Listed(jobs'[q]) :
           /\ x.held => x.server = NoUser
           /\ NamedBy(q, x, E, p) /\ OwnedBy(x, c, E, p)
           /\ \A d \in Conn : d # c =>
                NamedBy(q, x, local[d], pend[d]) /\ OwnedBy(x, d, local[d], pend[d]),
         \A s \in Stamp : Reads(s, E, p) =>
           \/ Reads(s, local[c], pend[c])
           \/ \A d \in Conn : ~Reads(s, local[d], pend[d])
  PROVE  Fresh'
<1>1. /\ local'[c] = E /\ pend'[c] = p
      /\ \A d \in Conn : d # c => local'[d] = local[d] /\ pend'[d] = pend[d]
  BY DEF Acts, ListInv, TypeOK
<1>2. \A d \in Conn : OneEntry(local'[d], pend'[d])
  <2>1. TAKE d \in Conn
  <2>2. CASE d = c
    BY <1>1, <2>2
  <2>3. CASE d # c
    BY <1>1, <2>3 DEF Fresh
  <2> QED BY <2>2, <2>3
<1>3. ASSUME NEW q \in Queue, NEW x \in Listed(jobs'[q])
      PROVE  /\ x.held => x.server = NoUser
             /\ \A d \in Conn :
                  NamedBy(q, x, local'[d], pend'[d]) /\ OwnedBy(x, d, local'[d], pend'[d])
  <2>1. x.held => x.server = NoUser
    OBVIOUS
  <2>2. ASSUME NEW d \in Conn
        PROVE  NamedBy(q, x, local'[d], pend'[d]) /\ OwnedBy(x, d, local'[d], pend'[d])
    <3>1. CASE d = c
      BY <1>1, <3>1
    <3>2. CASE d # c
      BY <1>1, <3>2
    <3> QED BY <3>1, <3>2
  <2> QED BY <2>1, <2>2
<1>4. ASSUME NEW a \in Conn, NEW b \in Conn, NEW s \in Stamp,
             Reads(s, local'[a], pend'[a]), Reads(s, local'[b], pend'[b])
      PROVE  a = b
  <2>1. CASE a # c /\ b # c
    BY <1>1, <1>4, <2>1 DEF Fresh
  <2>2. CASE a = c /\ b # c
    BY <1>1, <1>4, <2>2 DEF Fresh
  <2>3. CASE a # c /\ b = c
    BY <1>1, <1>4, <2>3 DEF Fresh
  <2> QED BY <2>1, <2>2, <2>3
<1> QED BY <1>2, <1>3, <1>4 DEF Fresh, Sound

(* When nothing of it moves, Fresh stays.                                   *)
LEMMA FreshSame ==
  ASSUME Fresh, UNCHANGED <<local, pend, reused>>,
         \A q \in Queue : \A x \in Listed(jobs'[q]) : x \in Listed(jobs[q])
  PROVE  Fresh'
  BY DEF Fresh, Sound

(* Fresh at one connection and one job.                                     *)
LEMMA FreshIs ==
  ASSUME Fresh, ~reused, NEW c \in Conn
  PROVE  /\ OneEntry(local[c], pend[c])
         /\ \A q \in Queue : \A j \in Listed(jobs[q]) :
              /\ j.held => j.server = NoUser
              /\ NamedBy(q, j, local[c], pend[c]) /\ OwnedBy(j, c, local[c], pend[c])
  BY DEF Fresh, Sound

(* Entries are freed.                                                       *)
LEMMA FreeFresh ==
  ASSUME ListInv, Fresh, ~reused, NEW c \in Conn, NEW E, NEW p, Acts(c, E, p),
         E \subseteq local[c], ~Requests(p), OneEntry(E, p),
         \A e \in E : ~Printing(e, pend[c]), jobs' = jobs
  PROVE  Fresh'
<1>1. ASSUME NEW q \in Queue, NEW x \in Listed(jobs[q])
      PROVE  /\ x.held => x.server = NoUser
             /\ NamedBy(q, x, E, p) /\ OwnedBy(x, c, E, p)
             /\ \A d \in Conn : d # c =>
                  NamedBy(q, x, local[d], pend[d]) /\ OwnedBy(x, d, local[d], pend[d])
  <2>1. /\ x.held => x.server = NoUser
        /\ \A d \in Conn :
             NamedBy(q, x, local[d], pend[d]) /\ OwnedBy(x, d, local[d], pend[d])
    BY FreshIs
  <2>2. NamedBy(q, x, E, p)
    BY <2>1 DEF NamedBy
  <2>3. OwnedBy(x, c, E, p)
    BY <2>1 DEF OwnedBy
  <2> QED BY <2>1, <2>2, <2>3
<1>2. \A s \in Stamp : Reads(s, E, p) => Reads(s, local[c], pend[c])
  BY DEF Reads, Requests
<1> QED BY <1>1, <1>2, FreshStep

(* PrintFile.                                                               *)
LEMMA PrintFileFresh ==
  ASSUME ListInv, Fresh, ~reused, NEW c \in Conn, NEW ok \in BOOLEAN, PrintFile(c, ok)
  PROVE  Fresh'
<1>1. pend[c].op = "print" /\ jobs' = jobs
  BY DEF PrintFile
<1>2. PICK e \in find_queue_job(c, pend[c].q, pend[c].id) :
             local' = [local EXCEPT ![c] = local[c] \ {e}]
  BY DEF PrintFile
<1>3. PICK E : E = local[c] \ {e}
  OBVIOUS
<1>4. Acts(c, E, NoRequest)
  BY <1>2, <1>3, FreeActions
<1>5. OneEntry(local[c], pend[c])
  BY FreshIs
<1>6. ~Requests(NoRequest) /\ NoRequest.op = "none"
  BY RequestIs DEF Request
<1>7. OneEntry(E, NoRequest)
  BY <1>3, <1>5, <1>6 DEF OneEntry
<1>8. \A f \in E : ~Printing(f, pend[c])
  BY <1>2, <1>3, <1>5 DEF OneEntry, Printing, find_queue_job
<1> QED BY <1>1, <1>3, <1>4, <1>6, <1>7, <1>8, FreeFresh

(* FinishAbort: the entry that is given back was the only one of the job.   *)
LEMMA FinishAbortFresh ==
  ASSUME ListInv, Fresh, ~reused, NEW c \in Conn, NEW e \in local[c], NEW a \in BOOLEAN,
         FinishAbort(c, e, a)
  PROVE  Fresh'
<1>1. pend[c] = NoRequest /\ jobs' = jobs
  BY DEF FinishAbort, Idle
<1>2. PICK E, p : /\ E = local[c] \ {e}
                  /\ p = [op |-> "finish", q |-> e.q, id |-> e.id, abort |-> a]
  OBVIOUS
<1>3. Acts(c, E, p)
  BY <1>2, FreeActions
<1>4. p.op = "finish" /\ p.q = e.q /\ p.id = e.id /\ ~Requests(p)
  BY <1>2 DEF Requests
<1>5. OneEntry(local[c], pend[c])
  BY FreshIs
<1>6. OneEntry(E, p)
  BY <1>2, <1>4, <1>5 DEF OneEntry
<1>7. \A f \in E : ~Printing(f, pend[c])
  BY <1>1 DEF Printing, NoRequest
<1> QED BY <1>1, <1>2, <1>3, <1>4, <1>6, <1>7, FreeFresh

(* EndOfJob.                                                                *)
LEMMA EndOfJobFresh ==
  ASSUME ListInv, Fresh, ~reused, NEW c \in Conn, NEW ts \in SUBSET Task, EndOfJob(c, ts)
  PROVE  Fresh'
<1>1. pend[c] = NoRequest /\ jobs' = jobs
  BY DEF EndOfJob, Idle
<1>2. PICK E, p : E = {e \in local[c] : e.task \notin ts} /\ p = [op |-> "end", tasks |-> ts]
  OBVIOUS
<1>3. Acts(c, E, p)
  BY <1>2, FreeActions
<1>4. p.op = "end" /\ p.tasks = ts /\ ~Requests(p)
  BY <1>2 DEF Requests
<1>5. OneEntry(local[c], pend[c])
  BY FreshIs
<1>6. OneEntry(E, p)
  BY <1>2, <1>4, <1>5 DEF OneEntry
<1>7. \A f \in E : ~Printing(f, pend[c])
  BY <1>1 DEF Printing, NoRequest
<1> QED BY <1>1, <1>2, <1>3, <1>4, <1>6, <1>7, FreeFresh

(* ClearConnection.                                                         *)
LEMMA ClearConnectionFresh ==
  ASSUME ListInv, Fresh, ~reused, NEW c \in Conn, ClearConnection(c)
  PROVE  Fresh'
<1>1. Acts(c, {}, NoRequest) /\ jobs' = jobs
  BY FreeActions
<1>2. ~Requests(NoRequest) /\ NoRequest.op = "none"
  BY RequestIs DEF Request
<1>3. OneEntry({}, NoRequest)
  BY <1>2 DEF OneEntry
<1> QED BY <1>1, <1>2, <1>3, FreeFresh

(* CreateFile, OpenServed: the entry stands for the request.                *)
LEMMA OpenFresh ==
  ASSUME ListInv, Fresh, ~reused, NEW c \in Conn, NEW ok \in BOOLEAN, NEW mode,
         \/ CreateFile(c, ok) /\ mode = "write"
         \/ OpenServed(c, ok) /\ mode = "read"
  PROVE  Fresh'
<1>1. PICK f, E : /\ f = Opened(pend[c], mode)
                  /\ E = IF ok THEN local[c] \cup {f} ELSE local[c]
  OBVIOUS
<1>2. /\ jobs' = jobs /\ Acts(c, E, NoRequest)
      /\ IF mode = "write" THEN pend[c].op = "create" ELSE pend[c].op = "service"
      /\ mode \in {"write", "read", "closed"} /\ mode # "closed"
  BY <1>1, OpenActions
<1>3. pend[c] \in Request /\ Requests(pend[c])
  BY <1>2 DEF ListInv, TypeOK, Requests
<1>4. /\ f.q = pend[c].q /\ f.id = pend[c].id /\ f.task = pend[c].task
      /\ f.stamp = pend[c].stamp /\ f.mode = mode
  BY <1>1, <1>2, <1>3, OpenedIs
<1>5. ~Requests(NoRequest) /\ NoRequest.op = "none"
  BY RequestIs DEF Request
<1>6. OneEntry(local[c], pend[c])
  BY FreshIs
<1>7. \A e \in E : e \in local[c] \/ e = f
  BY <1>1
<1>8. OneEntry(E, NoRequest)
  BY <1>3, <1>4, <1>5, <1>6, <1>7 DEF OneEntry, Requests
<1>9. ASSUME NEW q \in Queue, NEW x \in Listed(jobs[q])
      PROVE  /\ x.held => x.server = NoUser
             /\ NamedBy(q, x, E, NoRequest) /\ OwnedBy(x, c, E, NoRequest)
             /\ \A d \in Conn : d # c =>
                  NamedBy(q, x, local[d], pend[d]) /\ OwnedBy(x, d, local[d], pend[d])
  <2>1. /\ x.held => x.server = NoUser
        /\ \A d \in Conn :
             NamedBy(q, x, local[d], pend[d]) /\ OwnedBy(x, d, local[d], pend[d])
    BY FreshIs
  <2>2. NamedBy(q, x, local[c], pend[c]) /\ OwnedBy(x, c, local[c], pend[c])
    BY <2>1
  <2>3. NamedBy(q, x, E, NoRequest)
    BY <1>3, <1>4, <1>5, <1>7, <2>2 DEF NamedBy
  <2>4. ASSUME NEW e \in E, e.stamp = x.stamp
        PROVE  IF x.held THEN c = x.conn /\ e.task = x.task /\ e.mode # "read"
               ELSE Printing(e, NoRequest)
                    \/ (x.server # NoUser /\ c = x.station /\ e.mode # "write")
    <3>1. CASE e \in local[c]
      <4>1. ~Printing(e, pend[c])
        BY <1>2 DEF Printing
      <4> QED BY <2>2, <2>4, <3>1, <4>1 DEF OwnedBy
    <3>2. CASE e = f
      BY <1>2, <1>3, <1>4, <2>2, <2>4, <3>2 DEF OwnedBy
    <3> QED BY <1>7, <3>1, <3>2
  <2>5. OwnedBy(x, c, E, NoRequest)
    BY <1>5, <2>4 DEF OwnedBy
  <2> QED BY <2>1, <2>3, <2>5
<1>10. \A s \in Stamp : Reads(s, E, NoRequest) => Reads(s, local[c], pend[c])
  BY <1>2, <1>4, <1>5, <1>7 DEF Reads
<1> QED BY <1>2, <1>8, <1>9, <1>10, FreshStep

(* CloseFile: entries of the job change to closed.                          *)
LEMMA CloseFileFresh ==
  ASSUME ListInv, Fresh, ~reused, NEW c \in Conn, NEW q \in Queue, NEW id \in JobId,
         CloseFile(c, q, id)
  PROVE  Fresh'
<1>1. PICK E, p : /\ E = close_queue_job(c, q, id)
                  /\ p = [op |-> "close", q |-> q, id |-> id]
  OBVIOUS
<1>2. /\ jobs' = jobs /\ pend[c] = NoRequest /\ Acts(c, E, p)
      /\ \A f \in E : \E e \in local[c] :
           /\ f.q = e.q /\ f.id = e.id /\ f.task = e.task /\ f.stamp = e.stamp
           /\ \/ f = e /\ ~(e.q = q /\ e.id = id)
              \/ f = [e EXCEPT !.mode = "closed"] /\ f.mode = "closed"
                 /\ e.q = q /\ e.id = id
      /\ \E f \in E : f.mode = "closed" /\ f.q = q /\ f.id = id
  BY <1>1, CloseFileAction
<1>3. p.op = "close" /\ p.q = q /\ p.id = id /\ ~Requests(p)
  BY <1>1 DEF Requests
<1>4. OneEntry(local[c], pend[c])
  BY FreshIs
<1>5. ASSUME NEW f \in E, NEW g \in E,
             (f.q = g.q /\ f.id = g.id) \/ f.stamp = g.stamp
      PROVE  f = g
  <2>1. PICK e \in local[c] :
           /\ f.q = e.q /\ f.id = e.id /\ f.stamp = e.stamp
           /\ \/ f = e /\ ~(e.q = q /\ e.id = id)
              \/ f = [e EXCEPT !.mode = "closed"] /\ e.q = q /\ e.id = id
    BY <1>2
  <2>2. PICK h \in local[c] :
           /\ g.q = h.q /\ g.id = h.id /\ g.stamp = h.stamp
           /\ \/ g = h /\ ~(h.q = q /\ h.id = id)
              \/ g = [h EXCEPT !.mode = "closed"] /\ h.q = q /\ h.id = id
    BY <1>2
  <2>3. e = h
    BY <1>4, <1>5, <2>1, <2>2 DEF OneEntry
  <2> QED BY <2>1, <2>2, <2>3
<1>6. OneEntry(E, p)
  BY <1>2, <1>3, <1>5 DEF OneEntry
<1>7. ASSUME NEW r \in Queue, NEW x \in Listed(jobs[r])
      PROVE  /\ x.held => x.server = NoUser
             /\ NamedBy(r, x, E, p) /\ OwnedBy(x, c, E, p)
             /\ \A d \in Conn : d # c =>
                  NamedBy(r, x, local[d], pend[d]) /\ OwnedBy(x, d, local[d], pend[d])
  <2>1. /\ x.held => x.server = NoUser
        /\ \A d \in Conn :
             NamedBy(r, x, local[d], pend[d]) /\ OwnedBy(x, d, local[d], pend[d])
    BY FreshIs
  <2>2. NamedBy(r, x, local[c], pend[c]) /\ OwnedBy(x, c, local[c], pend[c])
    BY <2>1
  <2>3. NamedBy(r, x, E, p)
    BY <1>2, <1>3, <2>2 DEF NamedBy
  <2>4. ASSUME NEW f \in E, f.stamp = x.stamp
        PROVE  IF x.held THEN c = x.conn /\ f.task = x.task /\ f.mode # "read"
               ELSE Printing(f, p) \/ (x.server # NoUser /\ c = x.station /\ f.mode # "write")
    <3>1. PICK e \in local[c] :
             /\ f.task = e.task /\ f.stamp = e.stamp
             /\ f = e \/ f.mode = "closed"
      BY <1>2
    <3>2. ~Printing(e, pend[c])
      BY <1>2 DEF Printing, NoRequest
    <3> QED BY <2>2, <2>4, <3>1, <3>2 DEF OwnedBy
  <2>5. OwnedBy(x, c, E, p)
    BY <1>3, <2>4 DEF OwnedBy
  <2> QED BY <2>1, <2>3, <2>5
<1>8. ASSUME NEW s \in Stamp, Reads(s, E, p) PROVE Reads(s, local[c], pend[c])
  <2>1. PICK f \in E : f.stamp = s /\ f.mode = "read"
    BY <1>3, <1>8 DEF Reads
  <2>2. f \in local[c]
    BY <1>2, <2>1
  <2> QED BY <2>1, <2>2 DEF Reads
<1> QED BY <1>2, <1>6, <1>7, <1>8, FreshStep

(* A job that stays as it is stays sound for the connections that stay.     *)
LEMMA OthersSame ==
  ASSUME Fresh, ~reused, NEW q \in Queue, NEW j \in Listed(jobs[q]), NEW x,
         x.id = j.id, x.stamp = j.stamp
  PROVE  \A d \in Conn : NamedBy(q, x, local[d], pend[d])
<1>1. \A d \in Conn : NamedBy(q, j, local[d], pend[d])
  BY FreshIs
<1> QED BY <1>1 DEF NamedBy

(* CloseJob: the job is released, and its entry is about to be freed.       *)
LEMMA CloseJobFresh ==
  ASSUME ListInv, Fresh, ~reused, NEW c \in Conn, NEW direct \in BOOLEAN, CloseJob(c, direct)
  PROVE  Fresh'
<1>1. PICK E, p : E = local[c] /\ p = pend'[c]
  OBVIOUS
<1>2. /\ Acts(c, E, p) /\ pend[c].op = "close"
      /\ p = NoRequest \/ (p.op = "print" /\ p.q = pend[c].q /\ p.id = pend[c].id)
  BY <1>1, CloseJobAction
<1>3. \A r \in Queue : \A x \in Listed(jobs'[r]) :
        \/ x \in Listed(jobs[r])
        \/ /\ r = pend[c].q /\ x.id = pend[c].id /\ p.op = "print"
           /\ x.held = FALSE
           /\ \E j \in Listed(jobs[r]) :
                Alike(x, j) /\ x.server = j.server /\ x.station = j.station
  BY <1>1, CloseJobEffect DEF ListInv
<1>4. /\ ~Requests(p) /\ p.op \in {"none", "print"}
      /\ p.op = "print" => p.q = pend[c].q /\ p.id = pend[c].id
  BY <1>2 DEF Requests, NoRequest
<1>5. OneEntry(local[c], pend[c])
  BY FreshIs
<1>6. OneEntry(E, p)
  <2>1. \E e \in E : e.mode = "closed" /\ e.q = pend[c].q /\ e.id = pend[c].id
    BY <1>1, <1>2, <1>5 DEF OneEntry
  <2>2. \A e, f \in E : (e.q = f.q /\ e.id = f.id) \/ e.stamp = f.stamp => e = f
    BY <1>1, <1>5 DEF OneEntry
  <2> QED BY <1>4, <2>1, <2>2 DEF OneEntry, Requests
<1>7. ASSUME NEW r \in Queue, NEW x \in Listed(jobs'[r])
      PROVE  /\ x.held => x.server = NoUser
             /\ NamedBy(r, x, E, p) /\ OwnedBy(x, c, E, p)
             /\ \A d \in Conn : d # c =>
                  NamedBy(r, x, local[d], pend[d]) /\ OwnedBy(x, d, local[d], pend[d])
  <2>1. CASE x \in Listed(jobs[r])
    <3>1. /\ x.held => x.server = NoUser
          /\ \A d \in Conn :
               NamedBy(r, x, local[d], pend[d]) /\ OwnedBy(x, d, local[d], pend[d])
      BY <2>1, FreshIs
    <3>2. NamedBy(r, x, local[c], pend[c]) /\ OwnedBy(x, c, local[c], pend[c])
      BY <3>1
    <3>3. NamedBy(r, x, E, p)
      BY <1>1, <1>4, <3>2 DEF NamedBy
    <3>4. \A e \in E : ~Printing(e, pend[c])
      BY <1>2 DEF Printing
    <3>5. OwnedBy(x, c, E, p)
      BY <1>1, <1>4, <3>2, <3>4 DEF OwnedBy
    <3> QED BY <3>1, <3>3, <3>5
  <2>2. CASE x \notin Listed(jobs[r])
    <3>1. PICK j \in Listed(jobs[r]) :
             /\ r = pend[c].q /\ x.id = pend[c].id /\ p.op = "print"
             /\ x.held = FALSE
             /\ Alike(x, j) /\ x.server = j.server /\ x.station = j.station
      BY <1>3, <2>2
    <3>2. /\ j.held => j.server = NoUser
          /\ \A d \in Conn :
               NamedBy(r, j, local[d], pend[d]) /\ OwnedBy(j, d, local[d], pend[d])
      BY FreshIs
    <3>3. NamedBy(r, j, local[c], pend[c]) /\ OwnedBy(j, c, local[c], pend[c])
      BY <3>2
    <3>4. x.id = j.id /\ x.stamp = j.stamp /\ x.conn = j.conn /\ x.task = j.task
      BY <3>1 DEF Alike
    <3>5. PICK f \in local[c] : f.mode = "closed" /\ f.q = r /\ f.id = x.id
      BY <1>2, <1>5, <3>1 DEF OneEntry
    <3>6. f.stamp = j.stamp
      BY <3>3, <3>4, <3>5 DEF NamedBy
    <3>7. j.held => c = j.conn
      BY <3>3, <3>6 DEF OwnedBy
    <3>8. NamedBy(r, x, E, p) /\ \A d \in Conn : NamedBy(r, x, local[d], pend[d])
      BY <1>1, <1>4, <3>3, <3>4, OthersSame DEF NamedBy
    <3>9. OwnedBy(x, c, E, p)
      <4>1. ASSUME NEW e \in E, e.stamp = x.stamp
            PROVE  Printing(e, p) \/ (x.server # NoUser /\ c = x.station /\ e.mode # "write")
        <5>1. e = f
          BY <1>1, <1>5, <3>4, <3>6, <4>1 DEF OneEntry
        <5> QED BY <1>2, <3>1, <3>5, <5>1 DEF Printing, NoRequest
      <4> QED BY <1>4, <3>1, <4>1 DEF OwnedBy
    <3>10. ASSUME NEW d \in Conn, d # c PROVE OwnedBy(x, d, local[d], pend[d])
      <4>1. OwnedBy(j, d, local[d], pend[d])
        BY <3>2
      <4>2. CASE j.held
        BY <3>4, <3>7, <3>10, <4>1, <4>2 DEF OwnedBy
      <4>3. CASE ~j.held
        BY <3>1, <3>4, <4>1, <4>3 DEF OwnedBy
      <4> QED BY <4>2, <4>3
    <3> QED BY <3>1, <3>8, <3>9, <3>10
  <2> QED BY <2>1, <2>2
<1>8. \A s \in Stamp : Reads(s, E, p) => Reads(s, local[c], pend[c])
  BY <1>1, <1>4 DEF Reads
<1> QED BY <1>2, <1>6, <1>7, <1>8, FreshStep

(* The jobs that stay as they are, after a request that was no print.       *)
LEMMA SoundSame ==
  ASSUME Fresh, ~reused, NEW c \in Conn, NEW r \in Queue, NEW x \in Listed(jobs[r]),
         pend[c].op # "print"
  PROVE  /\ x.held => x.server = NoUser
         /\ NamedBy(r, x, local[c], NoRequest) /\ OwnedBy(x, c, local[c], NoRequest)
         /\ \A d \in Conn : d # c =>
              NamedBy(r, x, local[d], pend[d]) /\ OwnedBy(x, d, local[d], pend[d])
<1>1. /\ x.held => x.server = NoUser
      /\ \A d \in Conn :
           NamedBy(r, x, local[d], pend[d]) /\ OwnedBy(x, d, local[d], pend[d])
  BY FreshIs
<1>2. NamedBy(r, x, local[c], pend[c]) /\ OwnedBy(x, c, local[c], pend[c])
  BY <1>1
<1>3. ~Requests(NoRequest) /\ NoRequest.op = "none"
  BY RequestIs DEF Request
<1>4. NamedBy(r, x, local[c], NoRequest)
  BY <1>2, <1>3 DEF NamedBy
<1>5. \A e : ~Printing(e, pend[c])
  BY DEF Printing
<1>6. OwnedBy(x, c, local[c], NoRequest)
  BY <1>2, <1>3, <1>5 DEF OwnedBy
<1> QED BY <1>1, <1>4, <1>6

(* FinishJob: the queue server had given its entry back before.             *)
LEMMA FinishJobFresh ==
  ASSUME ListInv, Fresh, ~reused, NEW c \in Conn, FinishJob(c)
  PROVE  Fresh'
<1>1. /\ Acts(c, local[c], NoRequest) /\ pend[c].op = "finish" /\ user[c] # NoUser
  BY FinishJobAction
<1>2. \A r \in Queue : \A x \in Listed(jobs'[r]) :
        \/ x \in Listed(jobs[r])
        \/ /\ r = pend[c].q /\ x.id = pend[c].id /\ x.server = NoUser
           /\ \E j \in Listed(jobs[r]) :
                Alike(x, j) /\ x.held = j.held /\ Serves(c, j)
  BY FinishJobEffect DEF ListInv
<1>3. ~Requests(NoRequest) /\ NoRequest.op = "none"
  BY RequestIs DEF Request
<1>4. OneEntry(local[c], pend[c])
  BY FreshIs
<1>5. OneEntry(local[c], NoRequest)
  BY <1>3, <1>4 DEF OneEntry
<1>6. ASSUME NEW r \in Queue, NEW x \in Listed(jobs'[r])
      PROVE  /\ x.held => x.server = NoUser
             /\ NamedBy(r, x, local[c], NoRequest) /\ OwnedBy(x, c, local[c], NoRequest)
             /\ \A d \in Conn : d # c =>
                  NamedBy(r, x, local[d], pend[d]) /\ OwnedBy(x, d, local[d], pend[d])
  <2>1. CASE x \in Listed(jobs[r])
    BY <1>1, <2>1, SoundSame
  <2>2. CASE x \notin Listed(jobs[r])
    <3>1. PICK j \in Listed(jobs[r]) :
             /\ r = pend[c].q /\ x.id = pend[c].id /\ x.server = NoUser
             /\ Alike(x, j) /\ x.held = j.held /\ Serves(c, j)
      BY <1>2, <2>2
    <3>2. /\ j.held => j.server = NoUser
          /\ \A d \in Conn :
               NamedBy(r, j, local[d], pend[d]) /\ OwnedBy(j, d, local[d], pend[d])
      BY FreshIs
    <3>3. x.id = j.id /\ x.stamp = j.stamp
      BY <3>1 DEF Alike
    <3>4. ~j.held /\ j.server # NoUser /\ j.station = c
      BY <1>1, <3>1, <3>2 DEF Serves
    <3>5. NamedBy(r, j, local[c], pend[c])
      BY <3>2
    <3>6. \A e \in local[c] : e.stamp # x.stamp
      BY <1>1, <1>4, <3>1, <3>3, <3>5 DEF NamedBy, OneEntry
    <3>7. NamedBy(r, x, local[c], NoRequest)
      BY <1>3, <3>3, <3>5 DEF NamedBy
    <3>8. OwnedBy(x, c, local[c], NoRequest)
      BY <1>3, <3>6 DEF OwnedBy
    <3>9. ASSUME NEW d \in Conn, d # c PROVE OwnedBy(x, d, local[d], pend[d])
      <4>1. OwnedBy(j, d, local[d], pend[d])
        BY <3>2
      <4>2. /\ \A e \in local[d] : e.stamp = x.stamp => Printing(e, pend[d])
            /\ ~(Requests(pend[d]) /\ pend[d].stamp = x.stamp)
        BY <3>3, <3>4, <3>9, <4>1 DEF OwnedBy
      <4>3. ~x.held
        BY <3>1, <3>4
      <4> QED BY <4>2, <4>3 DEF OwnedBy
    <3>10. \A d \in Conn : NamedBy(r, x, local[d], pend[d])
      BY <3>3, OthersSame
    <3> QED BY <3>1, <3>4, <3>7, <3>8, <3>9, <3>10
  <2> QED BY <2>1, <2>2
<1>7. \A s \in Stamp : Reads(s, local[c], NoRequest) => Reads(s, local[c], pend[c])
  BY <1>3 DEF Reads
<1> QED BY <1>1, <1>5, <1>6, <1>7, FreshStep

(* EndJobs: the entries of the tasks were freed before.                     *)
LEMMA EndJobsFresh ==
  ASSUME ListInv, Fresh, ~reused, NEW c \in Conn, EndJobs(c)
  PROVE  Fresh'
<1>1. Acts(c, local[c], NoRequest) /\ pend[c].op = "end"
  BY EndJobsAction
<1>2. nw_close_connection_jobs(c, pend[c].tasks)
  BY DEF EndJobs
<1>3. \A r \in Queue : \A x \in Listed(jobs'[r]) :
        \/ x \in Listed(jobs[r])
        \/ /\ x.held = FALSE
           /\ \E j \in Listed(jobs[r]) :
                /\ Alike(x, j) /\ x.server = j.server /\ x.station = j.station
                /\ j.held /\ j.conn = c /\ j.task \in pend[c].tasks
  BY <1>2, EndJobsEffect DEF ListInv
<1>4. ~Requests(NoRequest) /\ NoRequest.op = "none"
  BY RequestIs DEF Request
<1>5. OneEntry(local[c], pend[c])
  BY FreshIs
<1>6. OneEntry(local[c], NoRequest)
  BY <1>4, <1>5 DEF OneEntry
<1>7. ASSUME NEW r \in Queue, NEW x \in Listed(jobs'[r])
      PROVE  /\ x.held => x.server = NoUser
             /\ NamedBy(r, x, local[c], NoRequest) /\ OwnedBy(x, c, local[c], NoRequest)
             /\ \A d \in Conn : d # c =>
                  NamedBy(r, x, local[d], pend[d]) /\ OwnedBy(x, d, local[d], pend[d])
  <2>1. CASE x \in Listed(jobs[r])
    BY <1>1, <2>1, SoundSame
  <2>2. CASE x \notin Listed(jobs[r])
    <3>1. PICK j \in Listed(jobs[r]) :
             /\ x.held = FALSE
             /\ Alike(x, j) /\ x.server = j.server /\ x.station = j.station
             /\ j.held /\ j.conn = c /\ j.task \in pend[c].tasks
      BY <1>3, <2>2
    <3>2. \A d \in Conn : NamedBy(r, j, local[d], pend[d]) /\ OwnedBy(j, d, local[d], pend[d])
      BY FreshIs
    <3>3. x.id = j.id /\ x.stamp = j.stamp
      BY <3>1 DEF Alike
    <3>4. ASSUME NEW d \in Conn
          PROVE  /\ \A e \in local[d] : e.stamp # x.stamp
                 /\ ~(Requests(pend[d]) /\ pend[d].stamp = x.stamp)
      <4>1. OwnedBy(j, d, local[d], pend[d])
        BY <3>2
      <4>2. \A e \in local[d] : e.stamp = x.stamp => d = c /\ e.task \in pend[c].tasks
        BY <3>1, <3>3, <4>1 DEF OwnedBy
      <4>3. Requests(pend[d]) /\ pend[d].stamp = x.stamp => d = c
        BY <3>1, <3>3, <4>1 DEF OwnedBy
      <4> QED BY <1>1, <1>5, <4>2, <4>3 DEF OneEntry, Requests
    <3>5. \A d \in Conn : OwnedBy(x, d, local[d], pend[d])
      BY <3>4 DEF OwnedBy
    <3>6. OwnedBy(x, c, local[c], NoRequest)
      BY <1>4, <3>4 DEF OwnedBy
    <3>7. \A d \in Conn : NamedBy(r, x, local[d], pend[d])
      BY <3>3, OthersSame
    <3>8. NamedBy(r, x, local[c], NoRequest)
      BY <1>4, <3>7 DEF NamedBy
    <3> QED BY <3>1, <3>5, <3>6, <3>7, <3>8
  <2> QED BY <2>1, <2>2
<1>8. \A s \in Stamp : Reads(s, local[c], NoRequest) => Reads(s, local[c], pend[c])
  BY <1>4 DEF Reads
<1> QED BY <1>1, <1>6, <1>7, <1>8, FreshStep
(* The fields of the request for a job that is served.                      *)
LEMMA ServingIs ==
  ASSUME NEW c, NEW q, NEW j, NEW t, NEW p, p = Serving(c, q, j, t)
  PROVE  /\ p.op = "service" /\ p.q = q /\ p.id = j.id /\ p.task = t
         /\ p.stamp = j.stamp /\ Requests(p)
  BY DEF Serving, Requests

(* ServiceJob: nobody has the file of a job that waits.                     *)
LEMMA ServiceJobFresh ==
  ASSUME ListInv, Fresh, ~reused, NEW c \in Conn, NEW q \in Queue, NEW suits,
         NEW aged \in BOOLEAN, ServiceJob(c, q, suits, aged)
  PROVE  Fresh'
<1>1. /\ Acts(c, local[c], pend'[c]) /\ pend[c] = NoRequest /\ user[c] # NoUser
      /\ local' = local /\ reused' = reused
  BY ServiceJobAction
<1>2. \/ /\ pend' = pend
         /\ \A r \in Queue : \A x \in Listed(jobs'[r]) : x \in Listed(jobs[r])
      \/ \E t \in Task, j \in Listed(jobs[q]) :
           /\ ~j.held /\ j.server = NoUser
           /\ pend' = [pend EXCEPT ![c] = Serving(c, q, j, t)]
           /\ \A r \in Queue : \A x \in Listed(jobs'[r]) :
                \/ x \in Listed(jobs[r]) /\ (r = q => x.stamp # j.stamp)
                \/ /\ r = q /\ Alike(x, j) /\ ~x.held
                   /\ x.server = user[c] /\ x.station = c
  BY ServiceJobEffect DEF ListInv
<1>3. CASE /\ pend' = pend
           /\ \A r \in Queue : \A x \in Listed(jobs'[r]) : x \in Listed(jobs[r])
  BY <1>1, <1>3, FreshSame
<1>4. ASSUME NEW t \in Task, NEW j \in Listed(jobs[q]),
             ~j.held, j.server = NoUser,
             pend' = [pend EXCEPT ![c] = Serving(c, q, j, t)],
             \A r \in Queue : \A x \in Listed(jobs'[r]) :
                \/ x \in Listed(jobs[r]) /\ (r = q => x.stamp # j.stamp)
                \/ /\ r = q /\ Alike(x, j) /\ ~x.held
                   /\ x.server = user[c] /\ x.station = c
      PROVE  Fresh'
  <2>1. PICK p : p = Serving(c, q, j, t)
    OBVIOUS
  <2>2. /\ p.op = "service" /\ p.q = q /\ p.id = j.id /\ p.task = t
        /\ p.stamp = j.stamp /\ Requests(p)
    BY <2>1, ServingIs
  <2>3. Acts(c, local[c], p)
    <3>1. pend'[c] = p
      BY <1>4, <2>1 DEF ListInv, TypeOK
    <3> QED BY <1>1, <3>1
  <2>4. \A d \in Conn : NamedBy(q, j, local[d], pend[d]) /\ OwnedBy(j, d, local[d], pend[d])
    BY FreshIs
  <2>5. ASSUME NEW d \in Conn
        PROVE  /\ \A e \in local[d] : e.stamp = j.stamp => Printing(e, pend[d])
               /\ ~(Requests(pend[d]) /\ pend[d].stamp = j.stamp)
    <3>1. OwnedBy(j, d, local[d], pend[d])
      BY <2>4
    <3> QED BY <1>4, <3>1 DEF OwnedBy
  <2>6. \A e \in local[c] : e.stamp # j.stamp
    <3>1. \A e : ~Printing(e, pend[c])
      BY <1>1 DEF Printing, NoRequest
    <3> QED BY <2>5, <3>1
  <2>7. \A e \in local[c] : ~(e.q = q /\ e.id = j.id)
    <3>1. NamedBy(q, j, local[c], pend[c])
      BY <2>4
    <3> QED BY <2>6, <3>1 DEF NamedBy
  <2>8. OneEntry(local[c], p)
    <3>1. OneEntry(local[c], pend[c])
      BY FreshIs
    <3> QED BY <2>2, <2>6, <2>7, <3>1 DEF OneEntry
  <2>9. ASSUME NEW r \in Queue, NEW x \in Listed(jobs'[r])
        PROVE  /\ x.held => x.server = NoUser
               /\ NamedBy(r, x, local[c], p) /\ OwnedBy(x, c, local[c], p)
               /\ \A d \in Conn : d # c =>
                    NamedBy(r, x, local[d], pend[d]) /\ OwnedBy(x, d, local[d], pend[d])
    <3>1. CASE x \in Listed(jobs[r]) /\ (r = q => x.stamp # j.stamp)
      <4>1. /\ x.held => x.server = NoUser
            /\ NamedBy(r, x, local[c], NoRequest) /\ OwnedBy(x, c, local[c], NoRequest)
            /\ \A d \in Conn : d # c =>
                 NamedBy(r, x, local[d], pend[d]) /\ OwnedBy(x, d, local[d], pend[d])
        <5>1. pend[c].op # "print"
          BY <1>1 DEF NoRequest
        <5> QED BY <3>1, <5>1, SoundSame
      <4>2. x.stamp # j.stamp /\ ~(q = r /\ j.id = x.id)
        <5>1. x.stamp[1] = r /\ j.stamp[1] = q /\ Distinct(jobs[q])
          BY <3>1 DEF ListInv, Lists
        <5>2. x.stamp # j.stamp
          BY <3>1, <5>1
        <5>3. r = q => x.id # j.id
          BY <3>1, <5>1, <5>2 DEF Distinct, Listed
        <5> QED BY <5>2, <5>3
      <4>3. NamedBy(r, x, local[c], p)
        BY <2>2, <4>1, <4>2 DEF NamedBy
      <4>4. \A e : ~Printing(e, NoRequest)
        BY DEF Printing, NoRequest
      <4>5. OwnedBy(x, c, local[c], p)
        BY <2>2, <4>1, <4>2, <4>4 DEF OwnedBy
      <4> QED BY <4>1, <4>3, <4>5
    <3>2. CASE /\ r = q /\ Alike(x, j) /\ ~x.held
               /\ x.server = user[c] /\ x.station = c
      <4>1. x.id = j.id /\ x.stamp = j.stamp
        BY <3>2 DEF Alike
      <4>2. \A d \in Conn : NamedBy(r, x, local[d], pend[d])
        BY <3>2, <4>1, OthersSame
      <4>3. NamedBy(r, x, local[c], p)
        BY <2>2, <3>2, <4>1, <4>2 DEF NamedBy
      <4>4. OwnedBy(x, c, local[c], p)
        BY <1>1, <2>2, <2>6, <3>2, <4>1 DEF OwnedBy
      <4>5. ASSUME NEW d \in Conn PROVE OwnedBy(x, d, local[d], pend[d])
        BY <2>5, <3>2, <4>1 DEF OwnedBy
      <4> QED BY <3>2, <4>2, <4>3, <4>4, <4>5
    <3> QED BY <1>4, <3>1, <3>2
  <2>10. ASSUME NEW s \in Stamp, Reads(s, local[c], p)
         PROVE  \/ Reads(s, local[c], pend[c])
                \/ \A d \in Conn : ~Reads(s, local[d], pend[d])
    <3>1. CASE \E e \in local[c] : e.stamp = s /\ e.mode = "read"
      BY <3>1 DEF Reads
    <3>2. CASE s = j.stamp
      <4>1. ASSUME NEW d \in Conn PROVE ~Reads(s, local[d], pend[d])
        BY <2>5, <3>2 DEF Reads, Printing, Requests
      <4> QED BY <4>1
    <3> QED BY <2>2, <2>10, <3>1, <3>2 DEF Reads
  <2> QED BY <2>3, <2>8, <2>9, <2>10, FreshStep
<1> QED BY <1>2, <1>3, <1>4

(* RestartFresh: nobody has anything any more.                              *)
LEMMA RestartFresh ==
  ASSUME ListInv, Restart
  PROVE  Fresh'
<1>1. /\ local' = [c \in Conn |-> {}] /\ pend' = [c \in Conn |-> NoRequest]
      /\ \A r \in Queue : \A x \in Listed(jobs'[r]) : x.held = FALSE
  BY RestartAction
<1>2. ~Requests(NoRequest) /\ NoRequest.op = "none"
  BY RequestIs DEF Request
<1>3. \A c \in Conn : OneEntry(local'[c], pend'[c])
  BY <1>1, <1>2 DEF OneEntry
<1>4. \A c \in Conn : \A s : ~Reads(s, local'[c], pend'[c])
  BY <1>1, <1>2 DEF Reads
<1>5. \A q \in Queue : \A x \in Listed(jobs'[q]) : \A c \in Conn :
        NamedBy(q, x, local'[c], pend'[c]) /\ OwnedBy(x, c, local'[c], pend'[c])
  BY <1>1, <1>2 DEF NamedBy, OwnedBy
<1> QED BY <1>1, <1>3, <1>4, <1>5 DEF Fresh, Sound
(* CreateJob: nobody has the new file, nor the id unless it is reused.      *)
LEMMA CreateJobFresh ==
  ASSUME ListInv, Fresh, ~reused, NEW c \in Conn, NEW q \in Queue, NEW t \in Task,
         NEW restart \in Restarts, CreateJob(c, q, t, restart)
  PROVE  Fresh'
<1>1. /\ local' = local /\ pend[c] = NoRequest
      /\ \/ UNCHANGED <<jobs, pend, reused>>
         \/ \E new \in Job, p \in Request :
              /\ reused' = (reused \/ Known(q, new.id))
              /\ new.stamp = <<q, clock + 1>> /\ new.conn = c /\ new.task = t
              /\ new.held /\ new.server = NoUser
              /\ Acts(c, local[c], p)
              /\ p.op = "create" /\ p.q = q /\ p.id = new.id /\ p.task = t
              /\ p.stamp = new.stamp
              /\ \A r \in Queue : \A x : x \in Listed(jobs'[r]) <=>
                   x \in Listed(jobs[r]) \/ (r = q /\ x = new)
              /\ \A x \in Listed(jobs[q]) : x.id # new.id
  BY CreateJobAction
<1>2. CASE UNCHANGED <<jobs, pend, reused>>
  BY <1>1, <1>2, FreshSame
<1>3. ASSUME NEW new \in Job, NEW p \in Request,
             reused' = (reused \/ Known(q, new.id)),
             new.stamp = <<q, clock + 1>>, new.conn = c, new.task = t,
             new.held, new.server = NoUser,
             Acts(c, local[c], p),
             p.op = "create", p.q = q, p.id = new.id, p.task = t,
             p.stamp = new.stamp,
             \A r \in Queue : \A x : x \in Listed(jobs'[r]) <=>
               x \in Listed(jobs[r]) \/ (r = q /\ x = new),
             \A x \in Listed(jobs[q]) : x.id # new.id
      PROVE  Fresh'
  <2>1. CASE reused'
    BY <2>1 DEF Fresh
  <2>2. CASE ~reused'
    <3>1. ~Known(q, new.id)
      BY <1>3, <2>2
    <3>2. ASSUME NEW d \in Conn
          PROVE  /\ \A e \in local[d] : ~(e.q = q /\ e.id = new.id)
                 /\ ~(Requests(pend[d]) /\ pend[d].q = q /\ pend[d].id = new.id)
      BY <3>1 DEF Known, Requests
    <3>3. clock \in Int /\ new.stamp[2] = clock + 1
      BY <1>3 DEF ListInv, TypeOK
    <3>4. ASSUME NEW d \in Conn
          PROVE  /\ \A e \in local[d] : e.stamp # new.stamp
                 /\ ~(Requests(pend[d]) /\ pend[d].stamp = new.stamp)
      BY <3>3 DEF ListInv, Holdings
    <3>5. ASSUME NEW r \in Queue, NEW x \in Listed(jobs[r])
          PROVE  x.stamp # new.stamp
      BY <3>3 DEF ListInv, Lists
    <3>6. Requests(p)
      BY <1>3 DEF Requests
    <3>7. OneEntry(local[c], p)
      <4>1. OneEntry(local[c], pend[c])
        BY FreshIs
      <4> QED BY <1>3, <3>2, <3>4, <4>1 DEF OneEntry
    <3>8. ASSUME NEW r \in Queue, NEW x \in Listed(jobs'[r])
          PROVE  /\ x.held => x.server = NoUser
                 /\ NamedBy(r, x, local[c], p) /\ OwnedBy(x, c, local[c], p)
                 /\ \A d \in Conn : d # c =>
                      NamedBy(r, x, local[d], pend[d]) /\ OwnedBy(x, d, local[d], pend[d])
      <4>1. CASE x \in Listed(jobs[r])
        <5>1. /\ x.held => x.server = NoUser
              /\ NamedBy(r, x, local[c], NoRequest) /\ OwnedBy(x, c, local[c], NoRequest)
              /\ \A d \in Conn : d # c =>
                   NamedBy(r, x, local[d], pend[d]) /\ OwnedBy(x, d, local[d], pend[d])
          <6>1. pend[c].op # "print"
            BY <1>1 DEF NoRequest
          <6> QED BY <4>1, <6>1, SoundSame
        <5>2. x.stamp # new.stamp /\ ~(q = r /\ new.id = x.id)
          BY <1>3, <3>5, <4>1
        <5>3. NamedBy(r, x, local[c], p)
          BY <1>3, <5>1, <5>2 DEF NamedBy
        <5>4. \A e : ~Printing(e, NoRequest)
          BY DEF Printing, NoRequest
        <5>5. OwnedBy(x, c, local[c], p)
          BY <1>3, <5>1, <5>2, <5>4 DEF OwnedBy
        <5> QED BY <5>1, <5>3, <5>5
      <4>2. CASE r = q /\ x = new
        <5>1. NamedBy(r, x, local[c], p)
          BY <1>3, <3>2, <3>4, <4>2 DEF NamedBy
        <5>2. OwnedBy(x, c, local[c], p)
          BY <1>3, <3>4, <4>2 DEF OwnedBy
        <5>3. ASSUME NEW d \in Conn
              PROVE  NamedBy(r, x, local[d], pend[d]) /\ OwnedBy(x, d, local[d], pend[d])
          BY <3>2, <3>4, <4>2 DEF NamedBy, OwnedBy
        <5> QED BY <1>3, <4>2, <5>1, <5>2, <5>3
      <4> QED BY <1>3, <4>1, <4>2
    <3>9. \A s \in Stamp : Reads(s, local[c], p) => Reads(s, local[c], pend[c])
      BY <1>3 DEF Reads
    <3> QED BY <1>3, <3>7, <3>8, <3>9, FreshStep
  <2> QED BY <2>1, <2>2
<1> QED BY <1>1, <1>2, <1>3

(* Once an id was given again too early, nothing is claimed any more.       *)
LEMMA ReusedStays ==
  ASSUME Next, reused PROVE reused'
<1>1. ASSUME NEW c \in Conn, ConnStep(c) PROVE reused'
  BY <1>1 DEF ConnStep, Login, CreateFile, CloseJob, PrintFile, OpenServed, WriteFile,
     FinishAbort, FinishJob, EndOfJob, EndJobs, ClearConnection
<1>2. ASSUME NEW c \in Conn, NEW q \in Queue, ClientRequest(c, q) PROVE reused'
  <2>1. ASSUME NEW t, NEW r, CreateJob(c, q, t, r) PROVE reused'
    BY <2>1 DEF CreateJob
  <2> QED BY <1>2, <2>1 DEF ClientRequest, CloseFile, RemoveJob, SetQueueStatus,
          DestroyQueue, CreateQueue
<1>3. ASSUME NEW c \in Conn, NEW q \in Queue, ServerRequest(c, q) PROVE reused'
  BY <1>3 DEF ServerRequest, AttachServer, DetachServer, ServiceJob
<1> QED BY <1>1, <1>2, <1>3 DEF Next, Restart

(* Every step keeps entries, requests and jobs in agreement.                *)
LEMMA FreshInvStep ==
  ASSUME ListInv, Fresh, [Next]_vars
  PROVE  Fresh'
<1>1. CASE UNCHANGED vars
  <2>1. /\ UNCHANGED <<local, pend, reused>>
        /\ \A q \in Queue : \A x \in Listed(jobs'[q]) : x \in Listed(jobs[q])
    BY <1>1 DEF vars
  <2> QED BY <2>1, FreshSame
<1>2. CASE Next /\ reused
  BY <1>2, ReusedStays DEF Fresh
<1>3. ASSUME ~reused, NEW c \in Conn, ConnStep(c) PROVE Fresh'
  <2>1. CASE \/ \E u \in LoginAs[c] : Login(c, u)
             \/ \E e \in local[c] : WriteFile(c, e)
    <3>1. UNCHANGED <<jobs, local, pend, reused>>
      BY <2>1, SmallActions
    <3> QED BY <3>1, FreshSame
  <2>2. ASSUME NEW ok \in BOOLEAN, CreateFile(c, ok) \/ OpenServed(c, ok) PROVE Fresh'
    BY <1>3, <2>2, OpenFresh
  <2>3. ASSUME NEW ok \in BOOLEAN, CloseJob(c, ok) PROVE Fresh'
    BY <1>3, <2>3, CloseJobFresh
  <2>4. ASSUME NEW ok \in BOOLEAN, PrintFile(c, ok) PROVE Fresh'
    BY <1>3, <2>4, PrintFileFresh
  <2>5. ASSUME NEW e \in local[c], NEW a \in BOOLEAN, FinishAbort(c, e, a) PROVE Fresh'
    BY <1>3, <2>5, FinishAbortFresh
  <2>6. CASE FinishJob(c)
    BY <1>3, <2>6, FinishJobFresh
  <2>7. ASSUME NEW ts \in SUBSET Task, EndOfJob(c, ts) PROVE Fresh'
    BY <1>3, <2>7, EndOfJobFresh
  <2>8. CASE EndJobs(c)
    BY <1>3, <2>8, EndJobsFresh
  <2>9. CASE ClearConnection(c)
    BY <1>3, <2>9, ClearConnectionFresh
  <2> QED BY <1>3, <2>1, <2>2, <2>3, <2>4, <2>5, <2>6, <2>7, <2>8, <2>9 DEF ConnStep
<1>4. ASSUME ~reused, NEW c \in Conn, NEW q \in Queue, ClientRequest(c, q) PROVE Fresh'
  <2>1. ASSUME NEW t \in Task, NEW r \in Restarts, CreateJob(c, q, t, r) PROVE Fresh'
    BY <1>4, <2>1, CreateJobFresh
  <2>2. ASSUME NEW id \in JobId, CloseFile(c, q, id) PROVE Fresh'
    BY <1>4, <2>2, CloseFileFresh
  <2>3. ASSUME NEW i \in DOMAIN jobs[q], RemoveJob(c, q, i) PROVE Fresh'
    <3>1. /\ UNCHANGED <<local, pend, reused>>
          /\ \A r \in Queue : \A x \in Listed(jobs'[r]) : x \in Listed(jobs[r])
      BY <2>3, RemoveJobAction
    <3> QED BY <3>1, FreshSame
  <2>4. ASSUME NEW st \in {"on", "stopped"}, SetQueueStatus(c, q, st) PROVE Fresh'
    <3>1. UNCHANGED <<jobs, local, pend, reused>>
      BY <2>4, SmallActions
    <3> QED BY <3>1, FreshSame
  <2>5. CASE DestroyQueue(c, q)
    <3>1. /\ UNCHANGED <<local, pend, reused>>
          /\ \A r \in Queue : \A x \in Listed(jobs'[r]) : x \in Listed(jobs[r])
      BY <2>5, DestroyQueueAction
    <3> QED BY <3>1, FreshSame
  <2>6. CASE CreateQueue(c, q)
    <3>1. UNCHANGED <<jobs, local, pend, reused>>
      BY <2>6, CreateQueueAction
    <3> QED BY <3>1, FreshSame
  <2> QED BY <1>4, <2>1, <2>2, <2>3, <2>4, <2>5, <2>6 DEF ClientRequest
<1>5. ASSUME ~reused, NEW c \in Conn, NEW q \in Queue, ServerRequest(c, q) PROVE Fresh'
  <2>1. CASE AttachServer(c, q) \/ DetachServer(c, q)
    <3>1. UNCHANGED <<jobs, local, pend, reused>>
      BY <2>1, SmallActions
    <3> QED BY <3>1, FreshSame
  <2>2. ASSUME NEW suits \in SUBSET StampsOf(q), NEW aged \in BOOLEAN,
               ServiceJob(c, q, suits, aged)
        PROVE  Fresh'
    BY <1>5, <2>2, ServiceJobFresh
  <2> QED BY <1>5, <2>1, <2>2 DEF ServerRequest
<1>6. CASE Restart
  BY <1>6, RestartFresh
<1> QED BY <1>1, <1>2, <1>3, <1>4, <1>5, <1>6 DEF Next

(* The invariant of the lists, the entries and the requests.                *)
LEMMA QueuesInv == Spec => []QueueInv
<1>1. Init => QueueInv
  BY ListInvInit, FreshInit DEF QueueInv
<1>2. QueueInv /\ [Next]_vars => QueueInv'
  BY ListInvStep, FreshInvStep DEF QueueInv
<1> QED BY <1>1, <1>2, PTL DEF Spec

(* The invariant keeps a served job from being written.                     *)
LEMMA InvNotWritten ==
  ASSUME QueueInv PROVE ServedNotWritten
<1>1. SUFFICES ASSUME ~reused, NEW q \in Queue, NEW i \in DOMAIN jobs[q],
                      jobs[q][i].server # NoUser, NEW c \in Conn, NEW e \in local[c],
                      e.stamp = jobs[q][i].stamp
               PROVE  e.mode # "write"
  BY DEF ServedNotWritten
<1>2. PICK j \in Listed(jobs[q]) : j = jobs[q][i]
  BY DEF Listed
<1>3. (j.held => j.server = NoUser) /\ OwnedBy(j, c, local[c], pend[c])
  BY <1>1, <1>2, FreshIs DEF QueueInv
<1> QED BY <1>1, <1>2, <1>3 DEF OwnedBy, Printing

(* The invariant leaves a job one reader, at the station the list names.    *)
LEMMA InvOneReader ==
  ASSUME QueueInv PROVE OneReader
<1>1. SUFFICES ASSUME ~reused, NEW s \in Stamp
               PROVE  /\ Cardinality(Readers(s)) <= 1
                      /\ \A q \in Queue : \A i \in DOMAIN jobs[q] : jobs[q][i].stamp = s =>
                           \A r \in Readers(s) : jobs[q][i].station = r[1]
  BY DEF OneReader
<1>2. \A r \in Readers(s) : \E c \in Conn :
        \/ r = <<c, "open">> /\ \E e \in local[c] : e.stamp = s /\ e.mode = "read"
        \/ r = <<c, "opening">> /\ pend[c].op = "service" /\ pend[c].stamp = s
  BY DEF Readers
<1>3. \A r, t \in Readers(s) : r = t
  <2>1. SUFFICES ASSUME NEW r \in Readers(s), NEW t \in Readers(s) PROVE r = t
    OBVIOUS
  <2>2. PICK c \in Conn :
          \/ r = <<c, "open">> /\ \E e \in local[c] : e.stamp = s /\ e.mode = "read"
          \/ r = <<c, "opening">> /\ pend[c].op = "service" /\ pend[c].stamp = s
    BY <1>2
  <2>3. PICK d \in Conn :
          \/ t = <<d, "open">> /\ \E e \in local[d] : e.stamp = s /\ e.mode = "read"
          \/ t = <<d, "opening">> /\ pend[d].op = "service" /\ pend[d].stamp = s
    BY <1>2
  <2>4. Reads(s, local[c], pend[c]) /\ Reads(s, local[d], pend[d])
    BY <2>2, <2>3 DEF Reads
  <2>5. c = d
    BY <1>1, <2>4 DEF QueueInv, Fresh
  <2>6. OneEntry(local[c], pend[c])
    BY <1>1, FreshIs DEF QueueInv
  <2>7. ~(/\ \E e \in local[c] : e.stamp = s /\ e.mode = "read"
          /\ pend[c].op = "service" /\ pend[c].stamp = s)
    BY <2>6 DEF OneEntry, Requests
  <2> QED BY <2>2, <2>3, <2>5, <2>7
<1>4. Cardinality(Readers(s)) <= 1
  <2>1. CASE Readers(s) = {}
    BY <2>1, FS_EmptySet
  <2>2. ASSUME NEW r \in Readers(s) PROVE Cardinality(Readers(s)) <= 1
    <3>1. Readers(s) = {r}
      BY <1>3
    <3>2. Cardinality({r}) = 1
      BY FS_Singleton
    <3> QED BY <3>1, <3>2
  <2> QED BY <2>1, <2>2
<1>5. ASSUME NEW q \in Queue, NEW i \in DOMAIN jobs[q], jobs[q][i].stamp = s,
             NEW r \in Readers(s)
      PROVE  jobs[q][i].station = r[1]
  <2>1. PICK j \in Listed(jobs[q]) : j = jobs[q][i]
    BY DEF Listed
  <2>2. PICK c \in Conn :
          \/ r = <<c, "open">> /\ \E e \in local[c] : e.stamp = s /\ e.mode = "read"
          \/ r = <<c, "opening">> /\ pend[c].op = "service" /\ pend[c].stamp = s
    BY <1>2
  <2>3. OwnedBy(j, c, local[c], pend[c]) /\ r[1] = c
    BY <1>1, <2>2, FreshIs DEF QueueInv
  <2>4. j.station = c
    BY <1>5, <2>1, <2>2, <2>3 DEF OwnedBy, Printing, Requests
  <2> QED BY <2>1, <2>3, <2>4
<1> QED BY <1>4, <1>5

(* While no job id is given again to a new job as long as a connection      *)
(* process still has it, no client writes to the file of a job that a queue *)
(* server was given, whatever is closed, ended, cleared or restarted.       *)
THEOREM QueuesServedNotWritten == Spec => []ServedNotWritten
<1>1. QueueInv => ServedNotWritten
  BY InvNotWritten
<1> QED BY <1>1, QueuesInv, PTL

(* Under the same condition a job is printed by one queue server at a time, *)
(* the one whose station nw_service_queue_job has put into the list.        *)
THEOREM QueuesOneReader == Spec => []OneReader
<1>1. QueueInv => OneReader
  BY InvOneReader
<1> QED BY <1>1, QueuesInv, PTL
=============================================================================
