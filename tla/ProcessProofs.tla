---------------------------- MODULE ProcessProofs ----------------------------
(***************************************************************************)
(* Proofs about the processes of the server, in two parts.                 *)
(*                                                                         *)
(* ConnTable, for any number of clients, slots, processes, and packets     *)
(* repeated or given up: a client has one connection, no process is        *)
(* forgotten, nwbind's table follows ncpserv's, and no login is inherited, *)
(* but for what nwserv has given up.                                       *)
(*                                                                         *)
(* Nwserv, for any set of signals and any number of children that end by   *)
(* themselves: waitpid in the main loop never blocks, and when nwserv ends *)
(* no child is left.                                                       *)
(***************************************************************************)
EXTENDS ConnTable, Nwserv, TLAPS, FiniteSetTheorems, SequenceTheorems

-----------------------------------------------------------------------------
(* The largest and the smallest of some numbers, and a set as a sequence.  *)

(* Every set of natural numbers has a least one.                           *)
LEMMA LeastNumber ==
  ASSUME NEW S \in SUBSET Nat, S # {}
  PROVE  \E t \in S : \A u \in S : t <= u
<1>1. PICK t \in S : \A u \in S : <<u, t>> \notin OpToRel(<, Nat)
  BY NatLessThanWellFounded, WFMin
<1>2. \A u \in S : ~(u < t)
  BY <1>1 DEF OpToRel
<1> QED BY <1>2

(* The least element of a set of numbers.                                  *)
LEMMA MinIs ==
  ASSUME NEW S \in SUBSET Nat, S # {}
  PROVE  Min(S) \in S /\ \A u \in S : Min(S) <= u
  BY LeastNumber DEF Min

(* The greatest element of a bounded set of numbers.                       *)
LEMMA MaxIs ==
  ASSUME NEW b \in Nat, NEW S \in SUBSET (0 .. b), S # {}
  PROVE  Max(S) \in S /\ \A u \in S : u <= Max(S)
<1> DEFINE T == {b - x : x \in S}
<1>1. T \in SUBSET Nat /\ T # {}
  <2>1. \A x \in S : b - x \in Nat
    OBVIOUS
  <2> QED BY <2>1
<1>2. PICK t \in T : \A u \in T : t <= u
  BY <1>1, LeastNumber
<1>3. PICK x \in S : t = b - x
  OBVIOUS
<1>4. \A u \in S : b - u \in T
  OBVIOUS
<1>5. \A u \in S : b - x <= b - u
  BY <1>2, <1>3, <1>4
<1>6. \A u \in S : x >= u
  BY <1>5
<1>7. Max(S) \in S /\ \A u \in S : Max(S) >= u
  BY <1>6 DEF Max
<1> QED BY <1>7

(* A finite set as a sequence has its elements and no others.              *)
LEMMA SetAsSeq ==
  ASSUME NEW S, IsFiniteSet(S)
  PROVE  /\ SetToSeq(S) \in Seq(S)
         /\ \A x \in S : \E i \in 1 .. Len(SetToSeq(S)) : SetToSeq(S)[i] = x
<1> DEFINE n == Cardinality(S)
           f == SetToSeq(S)
<1>1. n \in Nat /\ ExistsBijection(1..n, S)
  BY FS_CardinalityType
<1>2. \E g \in [1..n -> S] : IsInjective(g)
  BY <1>1 DEF ExistsBijection, Bijection, Injection
<1>3. f \in [1..n -> S] /\ IsInjective(f)
  BY <1>2 DEF SetToSeq
<1> HIDE DEF f
<1>4. IsFiniteSet(1..n) /\ Cardinality(1..n) = n
  BY <1>1, FS_Interval
<1>5. f \in Injection(1..n, S)
  BY <1>3 DEF Injection
<1>6. f \in Surjection(1..n, S)
  BY <1>4, <1>5, FS_Injection
<1>7. f \in Seq(S) /\ Len(f) = n
  BY <1>1, <1>3
<1>8. \A x \in S : \E i \in 1..n : f[i] = x
  BY <1>6 DEF Surjection
<1> QED BY <1>7, <1>8 DEF f

-----------------------------------------------------------------------------
(* The table of ncpserv and the processes.                                 *)

Address == Client \union {NoClient}
ConnEntry == [fd : BOOLEAN, pid : 0 .. MaxPid, addr : Address]

ServTypes ==
  /\ conns \in [Slot -> ConnEntry] /\ count \in 0 .. MaxConn
  /\ proc \in [Pid -> {"none", "run", "term", "zombie", "gone"}]

(* A slot in use lies below count_connections, and its process exists.     *)
SlotsCounted ==
  \A n \in Slot :
    /\ conns[n].fd \/ conns[n].pid # NoPid => n <= count
    /\ conns[n].fd => conns[n].pid # NoPid /\ conns[n].addr \in Client
    /\ conns[n].pid # NoPid => proc[conns[n].pid] # "none"

(* No two slots share a process.                                           *)
OwnProcess ==
  \A m, n \in Slot : conns[m].pid = conns[n].pid /\ conns[n].pid # NoPid => m = n

(* A process that nobody has told to end belongs to an open connection.    *)
RunsForSlot ==
  \A p \in Pid : proc[p] = "run" => \E n \in Slot : conns[n].fd /\ conns[n].pid = p

ServInv ==
  /\ ServTypes /\ SlotsCounted /\ OwnProcess /\ RunsForSlot /\ OneSlotPerClient

(* What the properties say follows.                                        *)
LEMMA ServImplies == ServInv => NoStrayProcess
<1> SUFFICES ASSUME ServInv, NEW p \in Pid, proc[p] = "run"
             PROVE  \E n \in 1..count : /\ conns[n].fd /\ conns[n].pid = p
                                        /\ \A m \in Slot \ {n} : conns[m].pid # p
  BY DEF NoStrayProcess
<1>1. PICK n \in Slot : conns[n].fd /\ conns[n].pid = p
  BY DEF ServInv, RunsForSlot
<1>2. n \in 1..count
  BY <1>1 DEF ServInv, ServTypes, SlotsCounted, Slot
<1>3. p # NoPid
  BY DEF Pid, NoPid
<1>4. \A m \in Slot \ {n} : conns[m].pid # p
  BY <1>1, <1>3 DEF ServInv, OwnProcess
<1> QED BY <1>1, <1>2, <1>4

(* ncpserv starts with no connection.                                      *)
LEMMA ServInit == Init => ServInv
<1> SUFFICES ASSUME Init PROVE ServInv
  OBVIOUS
<1>1. FreeConn \in ConnEntry /\ ~FreeConn.fd /\ FreeConn.pid = NoPid
  BY ConnConstants DEF FreeConn, ConnEntry, Address, NoPid
<1>2. ServTypes
  BY <1>1, ConnConstants DEF Init, ServTypes
<1>3. SlotsCounted /\ OwnProcess /\ RunsForSlot /\ OneSlotPerClient
  BY <1>1 DEF Init, SlotsCounted, OwnProcess, RunsForSlot, OneSlotPerClient
<1> QED BY <1>2, <1>3 DEF ServInv

(* A free slot is found below the end of the table, and every open         *)
(* connection of an address is found.                                      *)
LEMMA FoundSlots ==
  ASSUME ServInv, NEW a
  PROVE  /\ \A n \in Slot : conns[n].fd /\ conns[n].addr = a => n \in find_conn_nr(a)
         /\ find_conn_nr(a) \subseteq Slot /\ FreeSlots \subseteq Slot
         /\ FreeSlots # {} => Min(FreeSlots) \in FreeSlots
         /\ find_conn_nr(a) # {} => Min(find_conn_nr(a)) \in find_conn_nr(a)
<1>1. find_conn_nr(a) \subseteq Slot /\ FreeSlots \subseteq Slot
  BY ConnConstants DEF ServInv, ServTypes, find_conn_nr, FreeSlots, Slot
<1>2. Slot \subseteq Nat
  BY ConnConstants DEF Slot
<1>3. \A n \in Slot : conns[n].fd /\ conns[n].addr = a => n \in find_conn_nr(a)
  BY ConnConstants DEF ServInv, ServTypes, SlotsCounted, find_conn_nr, Slot
<1> QED BY <1>1, <1>2, <1>3, MinIs

(* A new client gets a slot nobody has, and a process of its own.          *)
LEMMA ServConnectNew ==
  ASSUME ServInv, NEW a \in Client, NEW p \in Pid, ConnectNew(a, p)
  PROVE  ServInv'
<1> DEFINE n == Min(FreeSlots)
           e == [fd |-> TRUE, pid |-> p, addr |-> a]
<1>1. n \in FreeSlots /\ n \in Slot
  BY FoundSlots DEF ConnectNew
<1> HIDE DEF n
<1>2. /\ conns' = [conns EXCEPT ![n] = e] /\ count' = Max({count, n})
      /\ proc[p] = "none" /\ proc' = [proc EXCEPT ![p] = "run"]
  BY DEF ConnectNew, n
<1>3. p # NoPid /\ e \in ConnEntry /\ ~conns[n].fd /\ conns[n].pid = NoPid
  BY <1>1 DEF FreeSlots, Pid, NoPid, ConnEntry, Address
<1>4. count' \in 0 .. MaxConn /\ count <= count' /\ n <= count'
  <2>1. {count, n} \in SUBSET (0 .. MaxConn)
    BY <1>1 DEF ServInv, ServTypes, Slot
  <2>2. Max({count, n}) \in {count, n} /\ \A u \in {count, n} : u <= Max({count, n})
    BY <2>1, ConnConstants, MaxIs
  <2> QED BY <1>2, <2>1, <2>2
<1>5. \A m \in Slot : conns'[m] = IF m = n THEN e ELSE conns[m]
  BY <1>1, <1>2 DEF ServInv, ServTypes
<1>6. \A m \in Slot : conns[m].pid # p
  BY <1>2, <1>3 DEF ServInv, SlotsCounted
<1>7. ServTypes'
  BY <1>2, <1>3, <1>4 DEF ServInv, ServTypes
<1>8. SlotsCounted'
  <2> SUFFICES ASSUME NEW m \in Slot
               PROVE  /\ conns'[m].fd \/ conns'[m].pid # NoPid => m <= count'
                      /\ conns'[m].fd => conns'[m].pid # NoPid /\ conns'[m].addr \in Client
                      /\ conns'[m].pid # NoPid => proc'[conns'[m].pid] # "none"
    BY DEF SlotsCounted
  <2>1. CASE m = n
    BY <1>2, <1>3, <1>4, <1>5, <2>1 DEF ServInv, ServTypes
  <2>2. CASE m # n
    <3>1. conns'[m] = conns[m] /\ conns[m].pid # p /\ conns[m].pid \in 0 .. MaxPid
      BY <1>5, <1>6, <2>2 DEF ServInv, ServTypes, ConnEntry
    <3>2. conns[m].pid # NoPid => proc'[conns[m].pid] = proc[conns[m].pid]
      BY <1>2, <3>1 DEF ServInv, ServTypes, Pid, NoPid
    <3>3. count \in Int /\ count' \in Int /\ m \in Int
      BY <1>4 DEF ServInv, ServTypes, Slot
    <3> QED BY <1>4, <3>1, <3>2, <3>3 DEF ServInv, SlotsCounted
  <2> QED BY <2>1, <2>2
<1>9. OwnProcess'
  BY <1>3, <1>5, <1>6 DEF ServInv, OwnProcess
<1>10. RunsForSlot'
  BY <1>1, <1>2, <1>3, <1>5 DEF ServInv, ServTypes, RunsForSlot
<1>11. OneSlotPerClient'
  <2>1. \A m \in Slot : ~(conns[m].fd /\ conns[m].addr = a)
    BY FoundSlots DEF ConnectNew
  <2> QED BY <1>5, <2>1 DEF ServInv, OneSlotPerClient
<1> QED BY <1>7, <1>8, <1>9, <1>10, <1>11 DEF ServInv

(* Without a process the slot stays free, but counts (free_conn_nr).       *)
LEMMA ServConnectFails ==
  ASSUME ServInv, NEW a \in Client, ConnectFails(a)
  PROVE  ServInv'
<1> DEFINE n == Min(FreeSlots)
<1>1. n \in Slot
  BY FoundSlots DEF ConnectFails
<1> HIDE DEF n
<1>2. count' = Max({count, n}) /\ UNCHANGED <<conns, proc>>
  BY DEF ConnectFails, n
<1>3. count' \in 0 .. MaxConn /\ count <= count'
  <2>1. {count, n} \in SUBSET (0 .. MaxConn)
    BY <1>1 DEF ServInv, ServTypes, Slot
  <2>2. Max({count, n}) \in {count, n} /\ \A u \in {count, n} : u <= Max({count, n})
    BY <2>1, ConnConstants, MaxIs
  <2> QED BY <1>2, <2>1, <2>2
<1>4. ServTypes'
  BY <1>2, <1>3 DEF ServInv, ServTypes
<1>5. SlotsCounted'
  <2>1. \A m \in Slot : m \in Int /\ count \in Int /\ count' \in Int
    BY <1>3 DEF ServInv, ServTypes, Slot
  <2> QED BY <1>2, <1>3, <2>1 DEF ServInv, SlotsCounted
<1>6. OwnProcess' /\ RunsForSlot' /\ OneSlotPerClient'
  BY <1>2 DEF ServInv, OwnProcess, RunsForSlot, OneSlotPerClient
<1> QED BY <1>4, <1>5, <1>6 DEF ServInv

(* A connection is closed and its process told to end; nothing else.       *)
LEMMA ServClear ==
  ASSUME ServInv, NEW n \in Slot, clear_connection(n), count' = count
  PROVE  ServInv'
<1>1. CASE ~(n <= count /\ conns[n].fd)
  <2>1. UNCHANGED <<conns, proc, count>>
    BY <1>1 DEF clear_connection
  <2> QED BY <2>1 DEF ServInv, ServTypes, SlotsCounted, OwnProcess, RunsForSlot, OneSlotPerClient
<1>2. CASE n <= count /\ conns[n].fd
  <2> DEFINE q == conns[n].pid
  <2>1. /\ conns' = [conns EXCEPT ![n].fd = FALSE]
        /\ proc' = [proc EXCEPT ![q] = IF @ = "run" THEN "term" ELSE @]
    BY <1>2 DEF clear_connection
  <2>2. q \in Pid /\ proc[q] # "none"
    BY <1>2 DEF ServInv, ServTypes, SlotsCounted, ConnEntry, Pid, NoPid
  <2>3. \A m \in Slot : /\ conns'[m].pid = conns[m].pid /\ conns'[m].addr = conns[m].addr
                        /\ conns'[m].fd = (m # n /\ conns[m].fd)
    BY <2>1 DEF ServInv, ServTypes, ConnEntry
  <2>4. ServTypes'
    BY <2>1, <2>2 DEF ServInv, ServTypes, ConnEntry
  <2>5. \A p \in Pid : /\ proc'[p] = "none" <=> proc[p] = "none"
                       /\ proc'[p] = "run" <=> proc[p] = "run" /\ p # q
    BY <2>1, <2>2 DEF ServInv, ServTypes
  <2>6. \A m \in Slot : conns[m].pid # NoPid => conns[m].pid \in Pid
    BY DEF ServInv, ServTypes, ConnEntry, Pid, NoPid
  <2> HIDE DEF q
  <2>7. SlotsCounted'
    BY <2>3, <2>5, <2>6, ZenonT(30) DEF ServInv, SlotsCounted
  <2>8. OwnProcess' /\ OneSlotPerClient'
    BY <2>3, ZenonT(30) DEF ServInv, OwnProcess, OneSlotPerClient
  <2>9. RunsForSlot'
    <3> SUFFICES ASSUME NEW p \in Pid, proc'[p] = "run"
                 PROVE  \E m \in Slot : conns'[m].fd /\ conns'[m].pid = p
      BY DEF RunsForSlot
    <3>1. proc[p] = "run" /\ p # q
      BY <2>5
    <3>2. PICK m \in Slot : conns[m].fd /\ conns[m].pid = p
      BY <3>1 DEF ServInv, RunsForSlot
    <3> QED BY <2>3, <3>1, <3>2 DEF q
  <2> QED BY <2>4, <2>7, <2>8, <2>9 DEF ServInv
<1> QED BY <1>1, <1>2

(* The dead are reaped: a slot is freed with its process, which has ended  *)
(* or is told to.                                                          *)
LEMMA ServKill ==
  ASSUME ServInv, KillConnections
  PROVE  ServInv'
<1> DEFINE dead == {p \in Pid : proc[p] = "zombie"}
           closing == {n \in 1..count : conns[n].pid \in dead}
           freed == {n \in 1..count : conns[n].pid # NoPid /\ (~conns[n].fd \/ n \in closing)}
           left == {n \in 1..count : n \notin freed /\ (conns[n].fd \/ conns[n].pid # NoPid)}
<1>1. /\ conns' = [n \in Slot |-> IF n \in freed THEN FreeConn ELSE conns[n]]
      /\ proc' = [p \in Pid |-> IF p \in dead THEN "gone"
                                ELSE IF \E n \in freed : conns[n].pid = p THEN "term"
                                ELSE proc[p]]
      /\ count' = Max({0} \cup left)
  BY DEF KillConnections
<1>2. freed \subseteq Slot /\ left \subseteq Slot
  BY ConnConstants DEF ServInv, ServTypes, Slot
<1>3. \A n \in Slot \ freed : conns[n].fd \/ conns[n].pid # NoPid => n \in left
  BY DEF ServInv, SlotsCounted, Slot
<1>4. \A n \in freed : conns[n].pid # NoPid
  OBVIOUS
<1>5. \A n \in Slot \ freed : conns[n].fd => conns[n].pid \notin dead
  BY ConnConstants DEF ServInv, ServTypes, SlotsCounted, Slot
<1>6. \A p \in dead : p \in Pid /\ proc[p] = "zombie"
  OBVIOUS
<1> HIDE DEF freed, dead
<1>7. count' \in 0 .. MaxConn /\ \A n \in left : n <= count'
  <2>1. {0} \cup left \in SUBSET (0 .. MaxConn) /\ MaxConn \in Nat
    BY <1>2, ConnConstants DEF Slot
  <2> HIDE DEF left
  <2>2. Max({0} \cup left) \in {0} \cup left /\ \A u \in {0} \cup left : u <= Max({0} \cup left)
    BY <2>1, MaxIs
  <2> QED BY <1>1, <2>1, <2>2
<1> HIDE DEF left
<1>8. FreeConn \in ConnEntry /\ ~FreeConn.fd /\ FreeConn.pid = NoPid
  BY ConnConstants DEF FreeConn, ConnEntry, Address, NoPid
<1>9. ServTypes'
  BY <1>1, <1>7, <1>8 DEF ServInv, ServTypes
<1>10. \A n \in Slot : conns'[n] = IF n \in freed THEN FreeConn ELSE conns[n]
  BY <1>1
<1>11. SlotsCounted'
  <2> SUFFICES ASSUME NEW n \in Slot
               PROVE  /\ conns'[n].fd \/ conns'[n].pid # NoPid => n <= count'
                      /\ conns'[n].fd => conns'[n].pid # NoPid /\ conns'[n].addr \in Client
                      /\ conns'[n].pid # NoPid => proc'[conns'[n].pid] # "none"
    BY DEF SlotsCounted
  <2>1. CASE n \in freed
    BY <1>8, <1>10, <2>1
  <2>2. CASE n \notin freed
    <3>1. conns'[n] = conns[n]
      BY <1>10, <2>2
    <3>2. conns[n].pid # NoPid => conns[n].pid \in Pid
      BY DEF ServInv, ServTypes, ConnEntry, Pid, NoPid
    <3>3. \A p \in Pid : proc[p] # "none" => proc'[p] # "none"
      BY <1>1
    <3> QED BY <1>3, <1>7, <2>2, <3>1, <3>2, <3>3 DEF ServInv, SlotsCounted
  <2> QED BY <2>1, <2>2
<1>12. OwnProcess' /\ OneSlotPerClient'
  BY <1>8, <1>10 DEF ServInv, OwnProcess, OneSlotPerClient
<1>13. RunsForSlot'
  <2> SUFFICES ASSUME NEW p \in Pid, proc'[p] = "run"
               PROVE  \E n \in Slot : conns'[n].fd /\ conns'[n].pid = p
    BY DEF RunsForSlot
  <2>1. proc[p] = "run" /\ ~\E n \in freed : conns[n].pid = p
    BY <1>1
  <2>2. PICK n \in Slot : conns[n].fd /\ conns[n].pid = p
    BY <2>1 DEF ServInv, RunsForSlot
  <2> QED BY <1>10, <2>1, <2>2
<1> QED BY <1>9, <1>11, <1>12, <1>13 DEF ServInv

(* A process ends.                                                         *)
LEMMA ServEnds ==
  ASSUME ServInv, NEW p \in Pid, NwconnEnds(p)
  PROVE  ServInv'
<1>1. /\ proc[p] \in {"run", "term"} /\ proc' = [proc EXCEPT ![p] = "zombie"]
      /\ UNCHANGED <<conns, count>>
  BY DEF NwconnEnds
<1>2. ServTypes'
  BY <1>1 DEF ServInv, ServTypes
<1>3. \A n \in Slot : conns[n].pid # NoPid => conns[n].pid \in Pid
  BY DEF ServInv, ServTypes, ConnEntry, Pid, NoPid
<1>4. SlotsCounted'
  BY <1>1, <1>3 DEF ServInv, ServTypes, SlotsCounted
<1>5. OwnProcess' /\ OneSlotPerClient' /\ RunsForSlot'
  BY <1>1 DEF ServInv, ServTypes, OwnProcess, OneSlotPerClient, RunsForSlot
<1> QED BY <1>2, <1>4, <1>5 DEF ServInv

(* What leaves ncpserv's table and the processes alone keeps ServInv.      *)
LEMMA ServSame ==
  ASSUME ServInv, UNCHANGED <<conns, count, proc>>
  PROVE  ServInv'
  BY DEF ServInv, ServTypes, SlotsCounted, OwnProcess, RunsForSlot, OneSlotPerClient

-----------------------------------------------------------------------------
(* The messages.                                                           *)

About2 == {"insert", "close"}
BindMessage == [what : About2, conn : Slot, addr : Address]
Message == BindMessage \union [what : {"reset"}, conn : Slot, addr : Address]
                       \union [what : {"activate"}, conn : {0}, addr : Address]
BindEntry == [active : BOOLEAN, addr : Address, login : Address]

MsgTypes ==
  /\ toNwserv \in Seq(Message) /\ toBind \in Seq(BindMessage) /\ toServ \in Seq(Slot)
  /\ hi_conn \in 0 .. MaxConn /\ binds \in [Slot -> BindEntry]
  /\ missed \in [Slot -> {"nothing", "insert", "close"}]

(* The last message about slot n in q.                                     *)
LastOf(q, n) == q[Max(About(q, n))]

(* Which messages are about a slot, and which of them is the last.         *)
LEMMA LastIs ==
  ASSUME NEW q \in Seq(Message), NEW n
  PROVE  /\ About(q, n) \subseteq 1 .. Len(q)
         /\ About(q, n) # {} =>
              /\ LastOf(q, n) \in BindMessage /\ LastOf(q, n).conn = n
              /\ \E i \in About(q, n) : LastOf(q, n) = q[i]
         /\ \A i \in About(q, n) : (\A j \in About(q, n) : j <= i) => LastOf(q, n) = q[i]
<1>1. About(q, n) \subseteq 1 .. Len(q) /\ Len(q) \in Nat
  BY LenProperties DEF About
<1>2. About(q, n) \in SUBSET (0 .. Len(q))
  BY <1>1
<1>3. About(q, n) # {} => /\ Max(About(q, n)) \in About(q, n)
                          /\ \A u \in About(q, n) : u <= Max(About(q, n))
  BY <1>1, <1>2, MaxIs
<1>4. ASSUME NEW i \in About(q, n) PROVE q[i] \in BindMessage /\ q[i].conn = n
  <2>1. q[i] \in Message /\ q[i].what \in About2 /\ q[i].conn = n
    BY <1>4, <1>1, ElementOfSeq DEF About, About2
  <2> QED BY <2>1 DEF Message, BindMessage, About2
<1>5. ASSUME NEW i \in About(q, n), \A j \in About(q, n) : j <= i
      PROVE  Max(About(q, n)) = i
  <2>1. Max(About(q, n)) <= i /\ i <= Max(About(q, n))
    BY <1>3, <1>5
  <2> QED BY <1>1, <1>3, <2>1
<1> QED BY <1>1, <1>3, <1>4, <1>5 DEF LastOf

(* Two queues one after the other: the last is the one of the second, if   *)
(* that has any.                                                           *)
LEMMA AboutConcat ==
  ASSUME NEW q \in Seq(Message), NEW t \in Seq(Message), NEW n
  PROVE  /\ About(q \o t, n) # {} <=> About(q, n) # {} \/ About(t, n) # {}
         /\ About(t, n) # {} => LastOf(q \o t, n) = LastOf(t, n)
         /\ About(t, n) = {} /\ About(q, n) # {} => LastOf(q \o t, n) = LastOf(q, n)
<1> DEFINE c == q \o t
<1>1. /\ c \in Seq(Message) /\ Len(c) = Len(q) + Len(t)
      /\ \A i \in 1 .. Len(q) + Len(t) : c[i] = IF i <= Len(q) THEN q[i] ELSE t[i - Len(q)]
      /\ Len(q) \in Nat /\ Len(t) \in Nat
  BY ConcatProperties, LenProperties
<1> HIDE DEF c
<1>2. \A i \in About(q, n) : i \in About(c, n)
  BY <1>1 DEF About
<1>3. \A i \in About(t, n) : i + Len(q) \in About(c, n)
  BY <1>1 DEF About
<1>4. \A i \in About(c, n) : \/ i \in About(q, n)
                             \/ i > Len(q) /\ i - Len(q) \in About(t, n)
  BY <1>1 DEF About
<1>5. /\ About(q, n) \subseteq 1 .. Len(q) /\ About(t, n) \subseteq 1 .. Len(t)
      /\ About(c, n) \subseteq 1 .. Len(c)
  BY DEF About
<1>6. ASSUME About(t, n) # {} PROVE LastOf(c, n) = LastOf(t, n)
  <2> DEFINE i == Max(About(t, n))
  <2>1. i \in About(t, n) /\ \A u \in About(t, n) : u <= i
    <3>1. About(t, n) \in SUBSET (0 .. Len(t))
      BY <1>1, <1>5
    <3> QED BY <1>1, <1>6, <3>1, MaxIs
  <2>2. LastOf(t, n) = t[i]
    BY DEF LastOf
  <2> HIDE DEF i
  <2>3. i + Len(q) \in About(c, n) /\ c[i + Len(q)] = t[i]
    BY <1>1, <1>3, <1>5, <2>1
  <2>4. \A j \in About(c, n) : j <= i + Len(q)
    BY <1>1, <1>4, <1>5, <2>1
  <2> QED BY <1>1, <2>2, <2>3, <2>4, LastIs
<1>7. ASSUME About(t, n) = {}, About(q, n) # {} PROVE LastOf(c, n) = LastOf(q, n)
  <2> DEFINE i == Max(About(q, n))
  <2>1. i \in About(q, n) /\ \A u \in About(q, n) : u <= i
    <3>1. About(q, n) \in SUBSET (0 .. Len(q))
      BY <1>1, <1>5
    <3> QED BY <1>1, <1>7, <3>1, MaxIs
  <2>2. LastOf(q, n) = q[i]
    BY DEF LastOf
  <2> HIDE DEF i
  <2>3. i \in About(c, n) /\ c[i] = q[i]
    BY <1>1, <1>2, <1>5, <2>1
  <2>4. \A j \in About(c, n) : j <= i
    BY <1>4, <1>7, <2>1
  <2> QED BY <1>1, <2>2, <2>3, <2>4, LastIs
<1> QED BY <1>2, <1>3, <1>4, <1>6, <1>7 DEF c

(* A queue of messages that are all about slot k, or none of which is.     *)
LEMMA AboutSame ==
  ASSUME NEW q \in Seq(Message), NEW m \in BindMessage, q # << >>,
         \A i \in 1 .. Len(q) : q[i] = m, NEW n
  PROVE  IF m.conn = n THEN About(q, n) # {} /\ LastOf(q, n) = m ELSE About(q, n) = {}
<1>1. Len(q) \in Nat \ {0}
  BY EmptySeq
<1>2. m.what \in {"insert", "close"}
  BY DEF BindMessage, About2
<1>3. About(q, n) = IF m.conn = n THEN 1 .. Len(q) ELSE {}
  BY <1>2 DEF About
<1>4. 1 \in 1 .. Len(q) /\ Len(q) \in 1 .. Len(q)
  BY <1>1
<1>5. ASSUME m.conn = n PROVE LastOf(q, n) = m
  BY <1>1, <1>3, <1>4, <1>5, LastIs
<1> QED BY <1>3, <1>4, <1>5

(* A queue of one message.                                                 *)
LEMMA SingleSeq ==
  ASSUME NEW m \in Message
  PROVE  <<m>> \in Seq(Message) /\ Len(<<m>>) = 1 /\ <<m>>[1] = m /\ <<m>> # << >>
  OBVIOUS

(* What a queue of one message says of a slot.                             *)
LEMMA AboutSingle ==
  ASSUME NEW m \in Message, NEW n
  PROVE  IF m.what \in About2 /\ m.conn = n
         THEN About(<<m>>, n) # {} /\ LastOf(<<m>>, n) = m
         ELSE About(<<m>>, n) = {}
<1>1. <<m>> \in Seq(Message) /\ Len(<<m>>) = 1 /\ <<m>>[1] = m /\ <<m>> # << >>
  BY SingleSeq
<1>2. CASE m.what \notin About2
  BY <1>1, <1>2 DEF About, About2
<1>3. CASE m.what \in About2
  <2>1. m \in BindMessage
    BY <1>3 DEF Message, About2
  <2> DEFINE t == <<m>>
  <2>2. \A i \in 1 .. Len(t) : t[i] = m
    BY <1>1
  <2>3. t \in Seq(Message) /\ t # << >>
    BY <1>1
  <2> HIDE DEF t
  <2>4. IF m.conn = n THEN About(t, n) # {} /\ LastOf(t, n) = m ELSE About(t, n) = {}
    BY <2>1, <2>2, <2>3, AboutSame
  <2> QED BY <1>3, <2>4 DEF t
<1> QED BY <1>2, <1>3

(* A message is appended to a queue.                                       *)
LEMMA AboutAppend ==
  ASSUME NEW q \in Seq(Message), NEW m \in Message, NEW n
  PROVE  /\ Append(q, m) \in Seq(Message)
         /\ IF m.what \in About2 /\ m.conn = n
            THEN About(Append(q, m), n) # {} /\ LastOf(Append(q, m), n) = m
            ELSE /\ About(Append(q, m), n) # {} <=> About(q, n) # {}
                 /\ About(q, n) # {} => LastOf(Append(q, m), n) = LastOf(q, n)
<1>1. Append(q, m) = q \o <<m>> /\ Append(q, m) \in Seq(Message) /\ <<m>> \in Seq(Message)
  BY AppendIsConcat, AppendProperties, SingleSeq
<1> DEFINE t == <<m>>
<1>2. IF m.what \in About2 /\ m.conn = n THEN About(t, n) # {} /\ LastOf(t, n) = m
      ELSE About(t, n) = {}
  BY AboutSingle
<1>3. t \in Seq(Message) /\ Append(q, m) = q \o t
  BY <1>1
<1> HIDE DEF t
<1>4. /\ About(q \o t, n) # {} <=> About(q, n) # {} \/ About(t, n) # {}
      /\ About(t, n) # {} => LastOf(q \o t, n) = LastOf(t, n)
      /\ About(t, n) = {} /\ About(q, n) # {} => LastOf(q \o t, n) = LastOf(q, n)
  BY <1>3, AboutConcat
<1> QED BY <1>1, <1>2, <1>3, <1>4

(* A queue is its head and the rest.                                       *)
LEMMA HeadRest ==
  ASSUME NEW S, NEW q \in Seq(S), q # << >>
  PROVE  Head(q) \in S /\ Tail(q) \in Seq(S) /\ <<Head(q)>> \o Tail(q) = q
<1>1. /\ Head(q) \in S /\ Tail(q) \in Seq(S) /\ Len(Tail(q)) = Len(q) - 1
      /\ \A i \in 1 .. Len(Tail(q)) : Tail(q)[i] = q[i + 1]
      /\ Len(q) \in Nat \ {0}
  BY HeadTailProperties, EmptySeq
<1> DEFINE t == Tail(q)
           h == <<Head(q)>>
<1>2. Head(q) = q[1]
  OBVIOUS
<1>3. h \in Seq(S) /\ Len(h) = 1 /\ h[1] = q[1]
  BY <1>1, <1>2
<1> HIDE DEF t, h
<1>4. /\ h \o t \in Seq(S) /\ Len(h \o t) = 1 + Len(t)
      /\ \A i \in 1 .. 1 + Len(t) : (h \o t)[i] = IF i <= 1 THEN h[i] ELSE t[i - 1]
  <2>1. t \in Seq(S)
    BY <1>1 DEF t
  <2>2. h \in Seq(S)
    BY <1>3
  <2>3. /\ h \o t \in Seq(S) /\ Len(h \o t) = Len(h) + Len(t)
        /\ \A i \in 1 .. Len(h) + Len(t) : (h \o t)[i] =
             IF i <= Len(h) THEN h[i] ELSE t[i - Len(h)]
    BY <2>1, <2>2, ConcatProperties, Zenon
  <2> QED BY <1>3, <2>3
<1>5. Len(h \o t) = Len(q)
  BY <1>1, <1>4 DEF t
<1>6. \A i \in 1 .. Len(q) : (h \o t)[i] = q[i]
  BY <1>1, <1>3, <1>4, <1>5 DEF t
<1>7. h \o t = q
  BY <1>4, <1>5, <1>6, SeqEqual
<1> QED BY <1>1, <1>7 DEF h, t

(* The head of a queue is taken off.                                       *)
LEMMA AboutTail ==
  ASSUME NEW q \in Seq(Message), q # << >>, NEW n
  PROVE  /\ Head(q) \in Message /\ Tail(q) \in Seq(Message)
         /\ About(q, n) # {} <=> \/ About(Tail(q), n) # {}
                                 \/ Head(q).what \in About2 /\ Head(q).conn = n
         /\ About(Tail(q), n) # {} => LastOf(q, n) = LastOf(Tail(q), n)
         /\ About(Tail(q), n) = {} /\ About(q, n) # {} => LastOf(q, n) = Head(q)
<1>1. Head(q) \in Message /\ Tail(q) \in Seq(Message) /\ <<Head(q)>> \o Tail(q) = q
  BY HeadRest
<1>2. <<Head(q)>> \in Seq(Message)
  BY <1>1, SingleSeq
<1> DEFINE h == <<Head(q)>>
           t == Tail(q)
<1>3. IF Head(q).what \in About2 /\ Head(q).conn = n
      THEN About(h, n) # {} /\ LastOf(h, n) = Head(q)
      ELSE About(h, n) = {}
  BY <1>1, AboutSingle
<1>4. h \in Seq(Message) /\ t \in Seq(Message) /\ h \o t = q
  BY <1>1, <1>2
<1> HIDE DEF h, t
<1>5. /\ About(h \o t, n) # {} <=> About(h, n) # {} \/ About(t, n) # {}
      /\ About(t, n) # {} => LastOf(h \o t, n) = LastOf(t, n)
      /\ About(t, n) = {} /\ About(h, n) # {} => LastOf(h \o t, n) = LastOf(h, n)
  BY <1>4, AboutConcat
<1> QED BY <1>1, <1>3, <1>4, <1>5 DEF t

(* The messages that close slot n.                                         *)
Closes(q, n) == {i \in 1 .. Len(q) : q[i].what = "close" /\ q[i].conn = n}

(* The closes of two queues one after the other.                           *)
LEMMA ClosesConcat ==
  ASSUME NEW q \in Seq(Message), NEW t \in Seq(Message), NEW n
  PROVE  Closes(q \o t, n) # {} <=> Closes(q, n) # {} \/ Closes(t, n) # {}
<1> DEFINE c == q \o t
<1>1. /\ Len(c) = Len(q) + Len(t) /\ Len(q) \in Nat /\ Len(t) \in Nat
      /\ \A i \in 1 .. Len(q) + Len(t) : c[i] = IF i <= Len(q) THEN q[i] ELSE t[i - Len(q)]
  BY ConcatProperties, LenProperties
<1> HIDE DEF c
<1>2. \A i \in Closes(q, n) : i \in Closes(c, n)
  BY <1>1 DEF Closes
<1>3. \A i \in Closes(t, n) : i + Len(q) \in Closes(c, n)
  BY <1>1 DEF Closes
<1>4. \A i \in Closes(c, n) : \/ i \in Closes(q, n)
                              \/ i > Len(q) /\ i - Len(q) \in Closes(t, n)
  BY <1>1 DEF Closes
<1> QED BY <1>2, <1>3, <1>4 DEF c

(* A message is appended to a queue, or taken off it.                      *)
LEMMA ClosesMoves ==
  ASSUME NEW q \in Seq(Message), NEW n
  PROVE  /\ \A m \in Message : Closes(Append(q, m), n) # {} <=>
               Closes(q, n) # {} \/ (m.what = "close" /\ m.conn = n)
         /\ q # << >> => (Closes(q, n) # {} <=>
               \/ Closes(Tail(q), n) # {}
               \/ Head(q).what = "close" /\ Head(q).conn = n)
<1>1. ASSUME NEW m \in Message
      PROVE  Closes(<<m>>, n) # {} <=> m.what = "close" /\ m.conn = n
  <2> DEFINE t == <<m>>
  <2>1. Len(t) = 1 /\ t[1] = m
    BY SingleSeq
  <2> HIDE DEF t
  <2>2. \A i \in 1 .. Len(t) : t[i] = m
    BY <2>1
  <2>3. 1 \in 1 .. Len(t)
    BY <2>1
  <2>4. Closes(t, n) # {} <=> m.what = "close" /\ m.conn = n
    BY <2>2, <2>3 DEF Closes
  <2> QED BY <2>4 DEF t
<1>2. ASSUME NEW m \in Message
      PROVE  Closes(Append(q, m), n) # {} <=> Closes(q, n) # {} \/ (m.what = "close" /\ m.conn = n)
  <2>1. Append(q, m) = q \o <<m>> /\ <<m>> \in Seq(Message)
    BY AppendIsConcat, SingleSeq
  <2>2. Closes(q \o <<m>>, n) # {} <=> Closes(q, n) # {} \/ Closes(<<m>>, n) # {}
    BY <2>1, ClosesConcat
  <2> QED BY <1>1, <2>1, <2>2
<1>3. ASSUME q # << >>
      PROVE  Closes(q, n) # {} <=> Closes(Tail(q), n) # {} \/
                                     (Head(q).what = "close" /\ Head(q).conn = n)
  <2>1. Head(q) \in Message /\ Tail(q) \in Seq(Message) /\ <<Head(q)>> \o Tail(q) = q
    BY <1>3, HeadRest
  <2>2. <<Head(q)>> \in Seq(Message)
    BY <2>1, SingleSeq
  <2>3. Closes(<<Head(q)>> \o Tail(q), n) # {} <=>
          Closes(<<Head(q)>>, n) # {} \/ Closes(Tail(q), n) # {}
    BY <2>1, <2>2, ClosesConcat
  <2> QED BY <1>1, <2>1, <2>3
<1> QED BY <1>2, <1>3

-----------------------------------------------------------------------------
(* nwbind's table.                                                         *)

Follows(n) ==
  LET b == IF Told(n) THEN [active |-> LastTold(n).what = "insert", addr |-> LastTold(n).addr]
           ELSE [active |-> binds[n].active, addr |-> binds[n].addr]
  IN  IF conns[n].fd THEN b.active /\ b.addr = conns[n].addr ELSE ~b.active

(* What is under way about slot n does not change.                         *)
SameIn(q, r, n) ==
  /\ About(r, n) # {} <=> About(q, n) # {}
  /\ About(q, n) # {} => LastOf(r, n) = LastOf(q, n)
SamePipe(n) ==
  /\ SameIn(toNwserv, toNwserv', n)
  /\ Closes(toNwserv', n) # {} <=> Closes(toNwserv, n) # {}
SameTold(n) == SamePipe(n) /\ SameIn(toBind, toBind', n)
SameConn(n) ==
  /\ conns'[n].fd = conns[n].fd
  /\ conns[n].fd => conns'[n].addr = conns[n].addr

(* The last that nwbind is told of slot n is right.                        *)
ToldRight(n) ==
  /\ Told(n)
  /\ IF conns[n].fd THEN LastTold(n).what = "insert" /\ LastTold(n).addr = conns[n].addr
     ELSE LastTold(n).what = "close"

(* Slot n: what the pipe says last is right.  When the pipe says nothing,  *)
(* nwbind has been told what is right, unless that was given up; then a    *)
(* closed slot's close was.  A foreign login is about to be ended, or the  *)
(* close that should have ended it was given up.                           *)
SlotInv(n) ==
  /\ About(toNwserv, n) # {} => ToldRight(n)
  /\ About(toNwserv, n) = {} =>
       /\ missed[n] = "nothing" => Follows(n)
       /\ ~conns[n].fd => missed[n] # "insert"
  /\ conns[n].fd /\ Closes(toNwserv, n) = {} /\ About(toBind, n) = {} /\ missed[n] # "close" =>
       binds[n].login \in {NoClient, conns[n].addr}
  /\ ~binds[n].active => binds[n].login = NoClient
SlotsInv == \A n \in Slot : SlotInv(n)

(* A slot of which nothing changes.                                        *)
LEMMA SlotSame ==
  ASSUME NEW n \in Slot, SlotInv(n), SameConn(n), SameTold(n),
         missed'[n] = missed[n], binds'[n] = binds[n]
  PROVE  SlotInv(n)'
<1>1. Told(n)' <=> Told(n)
  BY DEF SameTold, SamePipe, SameIn, Told
<1>2. Told(n) => LastTold(n)' = LastTold(n)
  BY DEF SameTold, SamePipe, SameIn, Told, LastTold, LastOf
<1>3. About(toNwserv, n)' # {} => ToldRight(n)'
  BY <1>1, <1>2 DEF SlotInv, SameTold, SamePipe, SameIn, SameConn, ToldRight
<1>4. Follows(n) => Follows(n)'
  <2>1. CASE Told(n)
    BY <1>1, <1>2, <2>1 DEF Follows, SameConn
  <2>2. CASE ~Told(n)
    BY <1>1, <2>2 DEF Follows, SameConn
  <2> QED BY <2>1, <2>2
<1> QED BY <1>3, <1>4 DEF SlotInv, SameTold, SamePipe, SameIn, SameConn

(* ncpserv says something new of slot n.                                   *)
NewsOf(n) ==
  /\ ToldRight(n)' /\ About(toNwserv', n) # {}
  /\ Closes(toNwserv, n) # {} => Closes(toNwserv', n) # {}
  /\ conns[n].fd /\ conns'[n].fd => conns'[n].addr = conns[n].addr

(* Then the slot's former client has a close under way, or given up.       *)
LEMMA SlotTold ==
  ASSUME NEW n \in Slot, MsgTypes, SlotInv(n), NewsOf(n), UNCHANGED <<toBind, missed, binds>>
  PROVE  SlotInv(n)'
<1>1. About(toNwserv, n)' # {} /\ ToldRight(n)'
  BY DEF NewsOf
<1>2. ASSUME conns'[n].fd, Closes(toNwserv', n) = {}, About(toBind, n) = {}, missed[n] # "close"
      PROVE  binds[n].login \in {NoClient, conns'[n].addr}
  <2>1. Closes(toNwserv, n) = {}
    BY <1>2 DEF NewsOf
  <2>2. CASE conns[n].fd
    BY <1>2, <2>1, <2>2 DEF NewsOf, SlotInv
  <2>3. CASE ~conns[n].fd
    <3>1. About(toNwserv, n) = {}
      <4> SUFFICES ASSUME About(toNwserv, n) # {} PROVE FALSE
        OBVIOUS
      <4>1. LastTold(n) = LastOf(toNwserv, n) /\ LastTold(n).what = "close"
        BY <2>3 DEF SlotInv, ToldRight, LastTold, LastOf
      <4>2. PICK i \in About(toNwserv, n) : LastOf(toNwserv, n) = toNwserv[i]
        BY LastIs DEF MsgTypes
      <4>3. i \in Closes(toNwserv, n)
        BY <4>1, <4>2 DEF About, Closes
      <4> QED BY <2>1, <4>3
    <3>2. missed[n] = "nothing"
      BY <1>2, <2>3, <3>1 DEF SlotInv, MsgTypes
    <3>3. Follows(n) /\ ~Told(n)
      BY <1>2, <3>1, <3>2 DEF SlotInv, Told
    <3>4. ~binds[n].active
      BY <2>3, <3>3 DEF Follows
    <3> QED BY <3>4 DEF SlotInv
  <2> QED BY <2>2, <2>3
<1> QED BY <1>1, <1>2 DEF SlotInv

(* For every slot either nothing changes or something new is said.         *)
LEMMA StepSlots ==
  ASSUME MsgTypes, SlotsInv, UNCHANGED <<toBind, missed, binds>>,
         \A n \in Slot : (SameConn(n) /\ SamePipe(n)) \/ NewsOf(n)
  PROVE  SlotsInv'
<1> SUFFICES ASSUME NEW n \in Slot PROVE SlotInv(n)'
  BY DEF SlotsInv
<1>1. SlotInv(n)
  BY DEF SlotsInv
<1>2. CASE SameConn(n) /\ SamePipe(n)
  <2>1. SameTold(n)
    BY <1>2 DEF SameTold, SameIn
  <2> QED BY <1>1, <1>2, <2>1, SlotSame
<1>3. CASE NewsOf(n)
  BY <1>1, <1>3, SlotTold
<1> QED BY <1>2, <1>3

(* A message is written to the pipe.                                       *)
LEMMA PipeAppend ==
  ASSUME MsgTypes, NEW m \in Message, toNwserv' = Append(toNwserv, m), NEW n \in Slot
  PROVE  /\ Closes(toNwserv, n) # {} => Closes(toNwserv', n) # {}
         /\ IF m.what \in About2 /\ m.conn = n
            THEN About(toNwserv', n) # {} /\ Told(n)' /\ LastTold(n)' = m
            ELSE SamePipe(n)
<1> DEFINE q == toNwserv
<1>1. q \in Seq(Message)
  BY DEF MsgTypes
<1>2. IF m.what \in About2 /\ m.conn = n
      THEN About(toNwserv', n) # {} /\ LastOf(toNwserv', n) = m
      ELSE /\ About(toNwserv', n) # {} <=> About(q, n) # {}
           /\ About(q, n) # {} => LastOf(toNwserv', n) = LastOf(q, n)
  BY <1>1, AboutAppend
<1>3. Closes(toNwserv', n) # {} <=> Closes(q, n) # {} \/ (m.what = "close" /\ m.conn = n)
  BY <1>1, ClosesMoves
<1> QED BY <1>2, <1>3 DEF Told, LastTold, LastOf, SamePipe, SameIn, About2

(* A message that does not concern nwbind is read from the pipe.           *)
LEMMA PipeDrop ==
  ASSUME MsgTypes, toNwserv # << >>, Head(toNwserv).what \notin About2,
         toNwserv' = Tail(toNwserv), NEW n \in Slot
  PROVE  SamePipe(n)
<1>1. toNwserv \in Seq(Message)
  BY DEF MsgTypes
<1>2. /\ About(toNwserv', n) # {} <=> About(toNwserv, n) # {}
      /\ About(toNwserv, n) # {} => LastOf(toNwserv', n) = LastOf(toNwserv, n)
  BY <1>1, AboutTail
<1>3. Closes(toNwserv', n) # {} <=> Closes(toNwserv, n) # {}
  BY <1>1, ClosesMoves DEF About2
<1> QED BY <1>2, <1>3 DEF SamePipe, SameIn

(* One that does is passed on, perhaps several times, or given up: then    *)
(* nwbind has missed it.                                                   *)
LEMMA PipeForward ==
  ASSUME MsgTypes, SlotsInv, toNwserv # << >>, Head(toNwserv).what \in About2,
         toNwserv' = Tail(toNwserv), SendToBind(Head(toNwserv)),
         UNCHANGED <<conns, binds>>
  PROVE  /\ toBind' \in Seq(BindMessage)
         /\ missed' \in [Slot -> {"nothing", "insert", "close"}]
         /\ SlotsInv'
<1> DEFINE m == Head(toNwserv)
<1>1. toNwserv \in Seq(Message) /\ toBind \in Seq(BindMessage)
  BY DEF MsgTypes
<1>2. m \in Message /\ m \in BindMessage
  BY <1>1, HeadRest DEF Message, About2
<1>3. PICK k \in 0 .. MaxSends :
        /\ toBind' = toBind \o [i \in 1 .. k |-> m]
        /\ missed' = [missed EXCEPT ![m.conn] = IF k > 0 THEN "nothing" ELSE Missed(m.conn, m)]
  BY DEF SendToBind
<1> HIDE DEF m
<1> DEFINE t == [i \in 1 .. k |-> m]
<1>4. /\ t \in Seq(BindMessage) /\ Len(t) = k /\ \A i \in 1 .. Len(t) : t[i] = m
      /\ k > 0 => t # << >>
  <2>1. k \in Nat
    BY ConnConstants
  <2>2. t \in Seq(BindMessage) /\ Len(t) = k
    BY <1>2, <2>1
  <2>3. k > 0 => t # << >>
    BY <2>1, <2>2, EmptySeq
  <2> QED BY <2>2, <2>3
<1>5. toBind' = toBind \o t
  BY <1>3
<1> HIDE DEF t
<1>6. toBind \in Seq(Message) /\ t \in Seq(Message)
  BY <1>1, <1>4, SeqMonotonic DEF Message
<1>7. m.conn \in Slot /\ m.what \in {"insert", "close"}
  BY <1>2 DEF BindMessage, About2
<1>8. \A n \in Slot : missed'[n] = IF n # m.conn THEN missed[n]
                                   ELSE IF k > 0 THEN "nothing" ELSE Missed(n, m)
  BY <1>3, <1>7 DEF MsgTypes
<1>9. ASSUME NEW n \in Slot
      PROVE  /\ About(toBind', n) # {} <=> About(toBind, n) # {} \/ (m.conn = n /\ k > 0)
             /\ IF m.conn = n /\ k > 0 THEN LastOf(toBind', n) = m
                ELSE SameIn(toBind, toBind', n)
  <2>1. k > 0 =>
          IF m.conn = n THEN About(t, n) # {} /\ LastOf(t, n) = m ELSE About(t, n) = {}
    BY <1>2, <1>4, <1>6, AboutSame
  <2>2. ~(k > 0) => About(t, n) = {}
    BY <1>3, <1>4, ConnConstants DEF About
  <2>3. /\ About(toBind', n) # {} <=> About(toBind, n) # {} \/ About(t, n) # {}
        /\ About(t, n) # {} => LastOf(toBind', n) = LastOf(t, n)
        /\ About(t, n) = {} /\ About(toBind, n) # {} => LastOf(toBind', n) = LastOf(toBind, n)
    BY <1>5, <1>6, AboutConcat
  <2> QED BY <2>1, <2>2, <2>3 DEF SameIn
<1>10. ASSUME NEW n \in Slot
       PROVE  /\ About(toNwserv, n) # {} <=> About(toNwserv', n) # {} \/ m.conn = n
              /\ About(toNwserv', n) # {} => LastOf(toNwserv, n) = LastOf(toNwserv', n)
              /\ About(toNwserv', n) = {} /\ About(toNwserv, n) # {} => LastOf(toNwserv, n) = m
              /\ Closes(toNwserv, n) # {} <=>
                   Closes(toNwserv', n) # {} \/ (m.what = "close" /\ m.conn = n)
  BY <1>1, AboutTail, ClosesMoves DEF m
<1>11. ASSUME NEW n \in Slot, n # m.conn PROVE SlotInv(n)'
  <2>1. SameTold(n)
    BY <1>9, <1>10, <1>11 DEF SameTold, SamePipe, SameIn
  <2> QED BY <1>8, <1>11, <2>1, SlotSame DEF SlotsInv, SameConn
<1>12. ASSUME NEW n \in Slot, n = m.conn PROVE SlotInv(n)'
  <2>1. SlotInv(n) /\ About(toNwserv, n) # {}
    BY <1>10, <1>12 DEF SlotsInv
  <2>2. /\ Told(n) /\ LastTold(n) = LastOf(toNwserv, n)
        /\ IF conns[n].fd THEN LastTold(n).what = "insert" /\ LastTold(n).addr = conns[n].addr
           ELSE LastTold(n).what = "close"
    BY <2>1 DEF SlotInv, ToldRight, LastTold, LastOf
  <2>3. About(toNwserv', n) # {} => ToldRight(n)'
    <3> SUFFICES ASSUME About(toNwserv', n) # {} PROVE ToldRight(n)'
      OBVIOUS
    <3>1. Told(n)' /\ LastTold(n)' = LastOf(toNwserv', n)
      BY DEF Told, LastTold, LastOf
    <3> QED BY <1>10, <2>2, <3>1 DEF ToldRight
  <2>4. ASSUME About(toNwserv', n) = {} PROVE m = LastTold(n)
    BY <1>10, <2>1, <2>2, <2>4
  <2>5. ~(k > 0) => missed'[n] = IF m.what = "close" \/ missed[n] = "close" THEN "close" ELSE "insert"
    BY <1>8, <1>12 DEF Missed
  <2>6. About(toNwserv', n) = {} => /\ missed'[n] = "nothing" => Follows(n)'
                                    /\ ~conns'[n].fd => missed'[n] # "insert"
    <3> SUFFICES ASSUME About(toNwserv', n) = {}
                 PROVE  /\ missed'[n] = "nothing" => Follows(n)'
                        /\ ~conns'[n].fd => missed'[n] # "insert"
      OBVIOUS
    <3>1. CASE k > 0
      <4>1. Told(n)' /\ LastTold(n)' = m /\ missed'[n] = "nothing"
        BY <1>8, <1>9, <1>12, <3>1 DEF Told, LastTold, LastOf
      <4>2. Follows(n)'
        BY <2>2, <2>4, <4>1 DEF Follows
      <4> QED BY <4>1, <4>2
    <3>2. CASE ~(k > 0)
      BY <2>2, <2>4, <2>5, <3>2
    <3> QED BY <3>1, <3>2
  <2>7. ASSUME conns'[n].fd, Closes(toNwserv', n) = {}, About(toBind', n) = {},
               missed'[n] # "close"
        PROVE  binds'[n].login \in {NoClient, conns'[n].addr}
    <3>1. ~(k > 0) /\ About(toBind, n) = {}
      BY <1>9, <1>12, <2>7
    <3>2. m.what # "close" /\ missed[n] # "close"
      BY <2>5, <2>7, <3>1
    <3>3. Closes(toNwserv, n) = {}
      BY <1>10, <2>7, <3>2
    <3> QED BY <2>1, <2>7, <3>1, <3>2, <3>3 DEF SlotInv
  <2>8. ~binds'[n].active => binds'[n].login = NoClient
    BY <2>1 DEF SlotInv
  <2> QED BY <2>3, <2>6, <2>7, <2>8 DEF SlotInv
<1>13. SlotsInv'
  BY <1>11, <1>12 DEF SlotsInv
<1>14. toBind' \in Seq(BindMessage)
  BY <1>1, <1>4, <1>5, ConcatProperties
<1>15. missed' \in [Slot -> {"nothing", "insert", "close"}]
  BY <1>3 DEF MsgTypes, Missed
<1> QED BY <1>13, <1>14, <1>15

-----------------------------------------------------------------------------
(* The steps.                                                              *)

Inv == ServInv /\ MsgTypes /\ SlotsInv

(* The message that a connection is closed.                                *)
LEMMA CloseIs ==
  ASSUME NEW n \in Slot
  PROVE  CloseMsg(n) \in Message /\ CloseMsg(n) \in BindMessage
         /\ CloseMsg(n).what = "close" /\ CloseMsg(n).conn = n
  BY ConnConstants DEF CloseMsg, Msg, Message, BindMessage, About2, Address

(* All tables and queues start empty.                                      *)
LEMMA InvInit == Init => Inv
<1> SUFFICES ASSUME Init PROVE Inv
  OBVIOUS
<1>1. NoBind \in BindEntry /\ ~NoBind.active
  BY ConnConstants DEF NoBind, BindEntry, Address
<1>2. MsgTypes
  BY <1>1, ConnConstants DEF Init, MsgTypes
<1>3. \A n \in Slot : ~conns[n].fd /\ ~Told(n)
  BY DEF Init, FreeConn, Told, About
<1>4. SlotsInv
  BY <1>1, <1>3 DEF Init, SlotsInv, SlotInv, Follows, Told, NoBind
<1> QED BY <1>2, <1>4, ServInit DEF Inv

(* A client asks for a connection.                                         *)
LEMMA StepConnect ==
  ASSUME Inv, NEW a \in Client, Connect(a)
  PROVE  Inv'
<1>1. UNCHANGED <<toServ, toBind, missed, binds, hi_conn>>
  BY DEF Connect, ConnectAgain, ConnectNew, ConnectFails, ConnectFull, nwservVars, bindQueue
<1>2. CASE ConnectAgain(a)
  <2>1. PICK k \in Slot : k = Min(find_conn_nr(a)) /\ conns[k].fd /\ conns[k].addr = a
    <3>1. Min(find_conn_nr(a)) \in find_conn_nr(a) /\ find_conn_nr(a) \subseteq Slot
      BY <1>2, FoundSlots DEF Inv, ConnectAgain
    <3>2. PICK k \in find_conn_nr(a) : k = Min(find_conn_nr(a))
      BY <3>1
    <3> QED BY <3>1, <3>2 DEF find_conn_nr
  <2> DEFINE m == Msg("insert", k, a)
  <2>2. toNwserv' = Append(toNwserv, m) /\ UNCHANGED <<conns, count, proc>>
    BY <1>2, <2>1 DEF ConnectAgain, servVars
  <2>3. m \in Message /\ m.what = "insert" /\ m.conn = k /\ m.addr = a
    BY <2>1 DEF Msg, Message, BindMessage, About2, Address
  <2> HIDE DEF m
  <2>4. MsgTypes'
    BY <1>1, <2>2, <2>3, AboutAppend DEF Inv, MsgTypes
  <2>5. \A n \in Slot :
          /\ Closes(toNwserv, n) # {} => Closes(toNwserv', n) # {}
          /\ IF n = k THEN About(toNwserv', n) # {} /\ Told(n)' /\ LastTold(n)' = m
             ELSE SamePipe(n)
    BY <2>2, <2>3, PipeAppend DEF Inv, About2
  <2>6. NewsOf(k)
    BY <2>1, <2>2, <2>3, <2>5 DEF ToldRight, NewsOf
  <2>7. SlotsInv'
    BY <1>1, <2>2, <2>5, <2>6, StepSlots DEF Inv, SameConn
  <2> QED BY <2>2, <2>4, <2>7, ServSame DEF Inv
<1>3. ASSUME NEW p \in Pid, ConnectNew(a, p) PROVE Inv'
  <2>1. PICK k \in Slot : k = Min(FreeSlots)
    BY <1>3, FoundSlots DEF Inv, ConnectNew
  <2> DEFINE m == Msg("insert", k, a)
  <2>2. /\ toNwserv' = Append(toNwserv, m)
        /\ conns' = [conns EXCEPT ![k] = [fd |-> TRUE, pid |-> p, addr |-> a]]
    BY <1>3, <2>1 DEF ConnectNew
  <2>3. m \in Message /\ m.what = "insert" /\ m.conn = k /\ m.addr = a
    BY <2>1 DEF Msg, Message, BindMessage, About2, Address
  <2> HIDE DEF m
  <2>4. MsgTypes'
    BY <1>1, <2>2, <2>3, AboutAppend DEF Inv, MsgTypes
  <2>5. \A n \in Slot :
          /\ Closes(toNwserv, n) # {} => Closes(toNwserv', n) # {}
          /\ IF n = k THEN About(toNwserv', n) # {} /\ Told(n)' /\ LastTold(n)' = m
             ELSE SamePipe(n)
    BY <2>2, <2>3, PipeAppend DEF Inv, About2
  <2>6. ToldRight(k)' /\ \A n \in Slot : n # k => conns'[n] = conns[n]
    BY <2>1, <2>2, <2>3, <2>5 DEF ToldRight, Inv, ServInv, ServTypes
  <2>7. ~conns[k].fd
    BY <1>3, <2>1, FoundSlots DEF Inv, ConnectNew, FreeSlots
  <2>8. NewsOf(k)
    BY <2>5, <2>6, <2>7 DEF NewsOf
  <2>9. SlotsInv'
    BY <1>1, <2>5, <2>6, <2>8, StepSlots DEF Inv, SameConn
  <2> QED BY <1>3, <2>4, <2>9, ServConnectNew DEF Inv
<1>4. CASE ConnectFails(a)
  <2>1. UNCHANGED <<conns, toNwserv>>
    BY <1>4 DEF ConnectFails
  <2>2. \A n \in Slot : SamePipe(n)
    BY <2>1 DEF SamePipe, SameIn
  <2>3. SlotsInv'
    BY <1>1, <2>1, <2>2, StepSlots DEF Inv, SameConn
  <2> QED BY <1>1, <1>4, <2>1, <2>3, ServConnectFails DEF Inv, MsgTypes
<1>5. CASE ConnectFull(a)
  <2> DEFINE m == Msg("activate", 0, NoClient)
  <2>1. toNwserv' = Append(toNwserv, m) /\ UNCHANGED <<conns, count, proc>>
    BY <1>5 DEF ConnectFull, servVars
  <2>2. m \in Message /\ m.what = "activate"
    BY DEF Msg, Message, Address
  <2> HIDE DEF m
  <2>3. MsgTypes'
    BY <1>1, <2>1, <2>2, AboutAppend DEF Inv, MsgTypes
  <2>4. \A n \in Slot : SamePipe(n)
    BY <2>1, <2>2, PipeAppend DEF Inv, About2
  <2>5. SlotsInv'
    BY <1>1, <2>1, <2>4, StepSlots DEF Inv, SameConn
  <2> QED BY <2>1, <2>3, <2>5, ServSame DEF Inv
<1> QED BY <1>2, <1>3, <1>4, <1>5 DEF Connect

(* A connection is closed, by its client or by the watchdog.               *)
LEMMA StepClear ==
  ASSUME Inv, NEW k \in Slot, clear_connection(k), count' = count,
         UNCHANGED <<toBind, missed, binds, hi_conn>>, toServ' \in Seq(Slot)
  PROVE  Inv'
<1>1. toNwserv' = Append(toNwserv, CloseMsg(k))
  BY DEF clear_connection
<1>2. MsgTypes'
  BY <1>1, CloseIs, AboutAppend DEF Inv, MsgTypes
<1>3. \A n \in Slot :
        /\ Closes(toNwserv, n) # {} => Closes(toNwserv', n) # {}
        /\ IF n = k THEN About(toNwserv', n) # {} /\ Told(n)' /\ LastTold(n)' = CloseMsg(k)
           ELSE SamePipe(n)
  BY <1>1, CloseIs, PipeAppend DEF Inv, About2
<1>4. ~conns'[k].fd /\ \A n \in Slot : n # k => conns'[n] = conns[n]
  BY DEF clear_connection, Inv, ServInv, ServTypes, SlotsCounted, ConnEntry
<1>5. NewsOf(k)
  BY <1>3, <1>4, CloseIs DEF ToldRight, NewsOf
<1>6. SlotsInv'
  BY <1>3, <1>4, <1>5, StepSlots DEF Inv, SameConn
<1> QED BY <1>2, <1>6, ServClear DEF Inv

(* ncpserv's handlers that open no connection, and the forgotten signal.   *)
LEMMA StepServe ==
  ASSUME Inv,
         \/ \E a \in Client, n \in Slot : Destroy(a, n) \/ ResetWdog(a, n)
         \/ CtrlClear
         \/ ClearSigChild
  PROVE  Inv'
<1>1. ASSUME NEW a \in Client, NEW n \in Slot, Destroy(a, n) PROVE Inv'
  <2>1. /\ clear_connection(n) /\ count' = count
        /\ UNCHANGED <<toBind, missed, binds, hi_conn>> /\ toServ' = toServ
    BY <1>1 DEF Destroy, nwservVars, bindQueue
  <2>2. toServ' \in Seq(Slot)
    BY <2>1 DEF Inv, MsgTypes
  <2> QED BY <2>1, <2>2, StepClear
<1>2. ASSUME NEW a \in Client, NEW k \in Slot, ResetWdog(a, k) PROVE Inv'
  <2> DEFINE m == Msg("reset", k, NoClient)
  <2>1. /\ toNwserv' = Append(toNwserv, m)
        /\ UNCHANGED <<conns, count, proc, toServ, toBind, missed, binds, hi_conn>>
    BY <1>2 DEF ResetWdog, servVars, nwservVars, bindQueue
  <2>2. m \in Message /\ m.what = "reset"
    BY DEF Msg, Message, Address
  <2> HIDE DEF m
  <2>3. MsgTypes'
    BY <2>1, <2>2, AboutAppend DEF Inv, MsgTypes
  <2>4. \A n \in Slot : SamePipe(n)
    BY <2>1, <2>2, PipeAppend DEF Inv, About2
  <2>5. SlotsInv'
    BY <2>1, <2>4, StepSlots DEF Inv, SameConn
  <2> QED BY <2>1, <2>3, <2>5, ServSame DEF Inv
<1>3. CASE CtrlClear
  <2>1. /\ toServ # << >> /\ toServ' = Tail(toServ) /\ clear_connection(Head(toServ))
        /\ count' = count /\ UNCHANGED <<toBind, missed, binds, hi_conn>>
    BY <1>3 DEF CtrlClear, nwservVars, bindQueue
  <2>2. toServ \in Seq(Slot)
    BY DEF Inv, MsgTypes
  <2>3. Head(toServ) \in Slot /\ Tail(toServ) \in Seq(Slot)
    BY <2>1, <2>2, HeadRest
  <2> QED BY <2>1, <2>3, StepClear
<1>4. CASE ClearSigChild
  <2>1. UNCHANGED <<conns, count, proc, toNwserv, toServ, toBind, missed, binds, hi_conn>>
    BY <1>4 DEF ClearSigChild, nwservVars, bindQueue
  <2>2. \A n \in Slot : SamePipe(n)
    BY <2>1 DEF SamePipe, SameIn
  <2>3. SlotsInv'
    BY <2>1, <2>2, StepSlots DEF Inv, SameConn
  <2> QED BY <2>1, <2>3, ServSame DEF Inv, MsgTypes
<1> QED BY <1>1, <1>2, <1>3, <1>4

(* The dead are reaped: nwserv is told of each connection that is closed.  *)
LEMMA StepKill ==
  ASSUME Inv, KillConnections
  PROVE  Inv'
<1> DEFINE dead == {p \in Pid : proc[p] = "zombie"}
           closing == {n \in 1..count : conns[n].pid \in dead}
           freed == {n \in 1..count : conns[n].pid # NoPid /\ (~conns[n].fd \/ n \in closing)}
           C == {CloseMsg(n) : n \in closing}
           t == SetToSeq(C)
<1>1. /\ toNwserv' = toNwserv \o t
      /\ conns' = [n \in Slot |-> IF n \in freed THEN FreeConn ELSE conns[n]]
      /\ UNCHANGED <<toServ, toBind, missed, binds, hi_conn>>
  BY DEF KillConnections, nwservVars, bindQueue
<1>2. closing \subseteq Slot /\ IsFiniteSet(closing)
  <2>1. count \in Nat /\ 1..count \subseteq Slot
    BY ConnConstants DEF Inv, ServInv, ServTypes, Slot
  <2>2. IsFiniteSet(1..count)
    BY <2>1, FS_Interval
  <2>3. closing \in SUBSET (1..count)
    OBVIOUS
  <2> QED BY <2>1, <2>2, <2>3, FS_Subset
<1>3. \A n \in freed : conns[n].fd => n \in closing
  OBVIOUS
<1>4. \A n \in closing : n \in freed
  BY ConnConstants DEF Inv, ServInv, ServTypes, SlotsCounted, Pid, NoPid
<1> HIDE DEF closing, freed, C
<1>5. IsFiniteSet(C)
  <2> DEFINE f == [n \in closing |-> CloseMsg(n)]
  <2>1. f \in Surjection(closing, C)
    BY DEF C, Surjection
  <2> QED BY <1>2, <2>1, FS_Surjection
<1>6. t \in Seq(C) /\ \A x \in C : \E i \in 1 .. Len(t) : t[i] = x
  BY <1>5, SetAsSeq
<1> HIDE DEF t
<1>7. C \subseteq Message /\ \A x \in C : x.what = "close" /\ x.conn \in closing
  BY <1>2, CloseIs DEF C
<1>8. t \in Seq(Message)
  BY <1>6, <1>7, SeqMonotonic
<1>9. ASSUME NEW n \in Slot
      PROVE  /\ About(t, n) # {} <=> n \in closing
             /\ About(t, n) # {} => LastOf(t, n).what = "close"
             /\ Closes(t, n) # {} <=> n \in closing
  <2>1. \A i \in About(t, n) : t[i].what = "close" /\ t[i].conn = n /\ n \in closing
    <3> SUFFICES ASSUME NEW i \in About(t, n)
                 PROVE  t[i].what = "close" /\ t[i].conn = n /\ n \in closing
      OBVIOUS
    <3>1. i \in 1 .. Len(t) /\ t[i].conn = n
      BY DEF About
    <3>2. t[i] \in C
      BY <1>6, <3>1, ElementOfSeq
    <3> QED BY <1>7, <3>1, <3>2
  <2>2. n \in closing => About(t, n) # {}
    <3> SUFFICES ASSUME n \in closing PROVE About(t, n) # {}
      OBVIOUS
    <3>1. CloseMsg(n) \in C
      BY DEF C
    <3>2. PICK i \in 1 .. Len(t) : t[i] = CloseMsg(n)
      BY <1>6, <3>1
    <3>3. i \in About(t, n)
      BY <3>2, CloseIs DEF About
    <3> QED BY <3>3
  <2>3. Closes(t, n) = About(t, n)
    BY <2>1 DEF Closes, About
  <2> QED BY <1>8, <2>1, <2>2, <2>3, LastIs
<1>10. toNwserv \in Seq(Message)
  BY DEF Inv, MsgTypes
<1>11. ASSUME NEW n \in Slot
       PROVE  /\ Closes(toNwserv, n) # {} => Closes(toNwserv', n) # {}
              /\ IF n \in closing
                 THEN About(toNwserv', n) # {} /\ Told(n)' /\ LastTold(n)'.what = "close"
                 ELSE SamePipe(n)
  <2>1. /\ About(toNwserv', n) # {} <=> About(toNwserv, n) # {} \/ About(t, n) # {}
        /\ About(t, n) # {} => LastOf(toNwserv', n) = LastOf(t, n)
        /\ About(t, n) = {} /\ About(toNwserv, n) # {} =>
             LastOf(toNwserv', n) = LastOf(toNwserv, n)
    BY <1>1, <1>8, <1>10, AboutConcat
  <2>2. Closes(toNwserv', n) # {} <=> Closes(toNwserv, n) # {} \/ Closes(t, n) # {}
    BY <1>1, <1>8, <1>10, ClosesConcat
  <2> QED BY <1>9, <2>1, <2>2 DEF Told, LastTold, LastOf, SamePipe, SameIn
<1>12. \A n \in Slot : IF n \in closing THEN ~conns'[n].fd
                       ELSE conns'[n].fd = conns[n].fd /\ (conns[n].fd => conns'[n] = conns[n])
  BY <1>1, <1>3, <1>4 DEF FreeConn, Inv, ServInv, ServTypes, ConnEntry
<1>13. \A n \in closing : NewsOf(n)
  BY <1>2, <1>11, <1>12 DEF ToldRight, NewsOf
<1>14. SlotsInv'
  BY <1>1, <1>11, <1>12, <1>13, StepSlots DEF Inv, SameConn
<1>15. MsgTypes'
  BY <1>1, <1>8, <1>10, ConcatProperties DEF Inv, MsgTypes
<1> QED BY <1>14, <1>15, ServKill DEF Inv

(* A step that leaves ncpserv and what nwbind knows alone.                 *)
LEMMA StepOther ==
  ASSUME Inv, UNCHANGED <<conns, count, proc, toBind, missed, binds>>, MsgTypes',
         \A n \in Slot : SamePipe(n)
  PROVE  Inv'
<1>1. SlotsInv'
  BY StepSlots DEF Inv, SameConn
<1> QED BY <1>1, ServSame DEF Inv

(* The clears of the watchdog are for slots of its table.                  *)
LEMMA WdogSends ==
  ASSUME MsgTypes, NEW w, NEW due \in SUBSET (1 .. hi_conn), send_wdogs(w, due)
  PROVE  toServ' \in Seq(Slot)
<1> DEFINE G == GivenUp(w, due)
<1>1. toServ \in Seq(Slot) /\ hi_conn \in 0 .. MaxConn
  BY DEF MsgTypes
<1>2. G \subseteq due /\ due \subseteq Slot /\ IsFiniteSet(1 .. hi_conn)
  BY <1>1, ConnConstants, FS_Interval DEF GivenUp, Slot
<1>3. IsFiniteSet(G)
  BY <1>2, FS_Subset
<1>4. SetToSeq(G) \in Seq(G)
  BY <1>3, SetAsSeq
<1> HIDE DEF G
<1>5. SetToSeq(G) \in Seq(Slot)
  BY <1>2, <1>4, SeqMonotonic
<1>6. toServ \o SetToSeq(G) \in Seq(Slot)
  BY <1>1, <1>5, ConcatProperties
<1> QED BY <1>1, <1>6 DEF send_wdogs, G

(* nwserv reads a message or its watchdog runs.                            *)
LEMMA StepNwserv ==
  ASSUME Inv, \/ NwservReads \/ \E k \in Slot : WdogDue(k) \/ WdogAnswer(k)
  PROVE  Inv'
<1>1. /\ toNwserv \in Seq(Message) /\ toBind \in Seq(BindMessage) /\ toServ \in Seq(Slot)
      /\ hi_conn \in 0 .. MaxConn /\ MaxConn \in Nat
  BY ConnConstants DEF Inv, MsgTypes
<1>2. CASE NwservInsert \/ NwservClose
  <2> DEFINE m == Head(toNwserv)
  <2>1. /\ toNwserv # << >> /\ m.what \in About2 /\ toNwserv' = Tail(toNwserv)
        /\ SendToBind(m) /\ UNCHANGED <<conns, count, proc, binds, toServ>>
    BY <1>2 DEF NwservInsert, NwservClose, servVars, About2
  <2>2. m \in BindMessage /\ Tail(toNwserv) \in Seq(Message)
    BY <1>1, <2>1, HeadRest DEF Message, About2
  <2>3. m.conn \in 1 .. MaxConn
    BY <2>2 DEF BindMessage, Slot
  <2>4. /\ toBind' \in Seq(BindMessage) /\ SlotsInv'
        /\ missed' \in [Slot -> {"nothing", "insert", "close"}]
    BY <2>1, PipeForward DEF Inv
  <2>5. hi_conn' \in 0 .. MaxConn
    <3>1. CASE NwservInsert
      <4>1. hi_conn' = Max({hi_conn, m.conn})
        BY <3>1 DEF NwservInsert
      <4>2. {hi_conn, m.conn} \in SUBSET (0 .. MaxConn)
        BY <1>1, <2>3
      <4> HIDE DEF m
      <4>3. Max({hi_conn, m.conn}) \in {hi_conn, m.conn}
        BY <1>1, <4>2, MaxIs
      <4> QED BY <4>1, <4>2, <4>3
    <3>2. CASE NwservClose
      <4> DEFINE w == [wdogs EXCEPT ![m.conn] = NoWdog]
                 S == {0} \cup {k \in 1 .. hi_conn : w[k].last}
      <4>1. hi_conn' \in {hi_conn, Max(S)}
        BY <3>2 DEF NwservClose, Shrink, nwservVars
      <4>2. S \in SUBSET (0 .. MaxConn) /\ S # {}
        BY <1>1
      <4> HIDE DEF S
      <4>3. Max(S) \in S
        BY <1>1, <4>2, MaxIs
      <4> QED BY <1>1, <4>1, <4>2, <4>3
    <3> QED BY <1>2, <3>1, <3>2
  <2>6. MsgTypes'
    BY <2>1, <2>2, <2>4, <2>5 DEF Inv, MsgTypes
  <2> QED BY <2>1, <2>4, <2>6, ServSame DEF Inv
<1>3. CASE NwservReset \/ NwservActivate
  <2>1. /\ toNwserv # << >> /\ Head(toNwserv).what \notin About2
        /\ toNwserv' = Tail(toNwserv)
        /\ UNCHANGED <<conns, count, proc, binds, toBind, missed, hi_conn>>
    BY <1>3 DEF NwservReset, NwservActivate, servVars, bindQueue, About2
  <2>2. toServ' \in Seq(Slot)
    <3>1. CASE NwservReset
      BY <1>1, <3>1 DEF NwservReset
    <3>2. CASE NwservActivate
      <4>1. PICK w : send_wdogs(w, 1 .. hi_conn)
        BY <3>2 DEF NwservActivate
      <4> QED BY <4>1, WdogSends DEF Inv
    <3> QED BY <1>3, <3>1, <3>2
  <2>3. Tail(toNwserv) \in Seq(Message)
    BY <1>1, <2>1, HeadRest
  <2>4. MsgTypes'
    BY <2>1, <2>2, <2>3 DEF Inv, MsgTypes
  <2>5. \A n \in Slot : SamePipe(n)
    BY <2>1, PipeDrop DEF Inv
  <2> QED BY <2>1, <2>4, <2>5, StepOther
<1>4. ASSUME NEW k \in Slot, WdogDue(k) \/ WdogAnswer(k) PROVE Inv'
  <2>1. UNCHANGED <<conns, count, proc, binds, toNwserv, toBind, missed, hi_conn>>
    BY <1>4 DEF WdogDue, WdogAnswer, servVars, bindQueue
  <2>2. toServ' \in Seq(Slot)
    <3>1. CASE WdogDue(k)
      <4>1. send_wdogs(wdogs, {k}) /\ k <= hi_conn
        BY <3>1 DEF WdogDue
      <4>2. {k} \in SUBSET (1 .. hi_conn)
        BY <1>1, <4>1 DEF Slot
      <4> QED BY <4>1, <4>2, WdogSends DEF Inv
    <3>2. CASE WdogAnswer(k)
      BY <1>1, <3>2 DEF WdogAnswer
    <3> QED BY <1>4, <3>1, <3>2
  <2>3. MsgTypes'
    BY <2>1, <2>2 DEF Inv, MsgTypes
  <2>4. \A n \in Slot : SamePipe(n)
    BY <2>1 DEF SamePipe, SameIn
  <2> QED BY <2>1, <2>3, <2>4, StepOther
<1> QED BY <1>2, <1>3, <1>4 DEF NwservReads

(* nwbind takes a message: its entry is then what it has been told.        *)
LEMMA StepBindCtrl ==
  ASSUME Inv, BindCtrl
  PROVE  Inv'
<1> DEFINE m == Head(toBind)
<1>1. toBind \in Seq(BindMessage) /\ toBind \in Seq(Message) /\ toBind # << >>
  BY SeqMonotonic DEF Inv, MsgTypes, BindCtrl, Message
<1>2. /\ toBind' = Tail(toBind) /\ binds' = [binds EXCEPT ![m.conn] = Entry(@, m)]
      /\ UNCHANGED <<conns, count, proc, toNwserv, toServ, missed, hi_conn>>
  BY DEF BindCtrl, servVars, nwservVars
<1>3. m \in BindMessage /\ Tail(toBind) \in Seq(BindMessage)
  BY <1>1, HeadRest
<1>4. m.conn \in Slot /\ m.addr \in Address /\ m.what \in {"insert", "close"}
  BY <1>3 DEF BindMessage, About2
<1>5. \A n \in Slot :
        /\ About(toBind, n) # {} <=> About(toBind', n) # {} \/ m.conn = n
        /\ About(toBind', n) # {} => LastOf(toBind, n) = LastOf(toBind', n)
        /\ About(toBind', n) = {} /\ About(toBind, n) # {} => LastOf(toBind, n) = m
  BY <1>1, <1>2, <1>4, AboutTail DEF About2
<1> DEFINE e == Entry(binds[m.conn], m)
<1>6. /\ e \in BindEntry /\ e.login = NoClient /\ e.active = (m.what = "insert")
      /\ m.what = "insert" => e.addr = m.addr
  BY <1>4, ConnConstants DEF Entry, BindEntry, NoBind, Address
<1> HIDE DEF e, m
<1>7. \A n \in Slot : binds'[n] = IF n = m.conn THEN e ELSE binds[n]
  BY <1>2, <1>4 DEF Inv, MsgTypes, e
<1>8. MsgTypes'
  BY <1>2, <1>3, <1>4, <1>6 DEF Inv, MsgTypes, e
<1>9. ASSUME NEW n \in Slot, n # m.conn PROVE SlotInv(n)'
  <2>1. SameTold(n)
    BY <1>2, <1>5, <1>9 DEF SameTold, SamePipe, SameIn
  <2> QED BY <1>2, <1>7, <1>9, <2>1, SlotSame DEF Inv, SlotsInv, SameConn
<1>10. ASSUME NEW n \in Slot, n = m.conn PROVE SlotInv(n)'
  <2>1. SlotInv(n) /\ About(toBind, n) # {} /\ binds'[n] = e
    BY <1>5, <1>7, <1>10 DEF Inv, SlotsInv
  <2>2. About(toNwserv, n)' # {} => ToldRight(n)'
    BY <1>2, <2>1 DEF SlotInv, ToldRight, Told, LastTold
  <2>3. ASSUME About(toNwserv, n) = {}, Follows(n) PROVE Follows(n)'
    <3>1. /\ LastTold(n) = LastOf(toBind, n)
          /\ IF conns[n].fd
             THEN LastTold(n).what = "insert" /\ LastTold(n).addr = conns[n].addr
             ELSE LastTold(n).what # "insert"
      BY <2>1, <2>3 DEF Told, LastTold, LastOf, Follows
    <3>2. CASE About(toBind', n) # {}
      <4>1. Told(n)' /\ LastTold(n)' = LastTold(n)
        BY <1>2, <1>5, <2>3, <3>1, <3>2 DEF Told, LastTold, LastOf
      <4> QED BY <1>2, <3>1, <4>1 DEF Follows
    <3>3. CASE About(toBind', n) = {}
      <4>1. ~Told(n)' /\ LastTold(n) = m
        BY <1>2, <1>5, <2>1, <2>3, <3>1, <3>3 DEF Told
      <4> QED BY <1>2, <1>6, <2>1, <3>1, <4>1 DEF Follows
    <3> QED BY <3>2, <3>3
  <2> QED BY <1>2, <1>6, <2>1, <2>2, <2>3 DEF SlotInv
<1>11. SlotsInv'
  BY <1>9, <1>10 DEF SlotsInv
<1> QED BY <1>2, <1>8, <1>11, ServSame DEF Inv

(* A login is the one of the client whose connection it is.                *)
LEMMA StepLogin ==
  ASSUME Inv, NEW k \in Slot, Login(k)
  PROVE  Inv'
<1>1. /\ conns[k].fd /\ binds[k].active
      /\ binds' = [binds EXCEPT ![k].login = conns[k].addr]
      /\ UNCHANGED <<conns, count, proc, toNwserv, toServ, toBind, missed, hi_conn>>
  BY DEF Login, servVars, nwservVars, bindQueue
<1>2. \A n \in Slot : /\ binds'[n].active = binds[n].active /\ binds'[n].addr = binds[n].addr
                      /\ binds'[n].login = IF n = k THEN conns[k].addr ELSE binds[n].login
  BY <1>1 DEF Inv, MsgTypes, BindEntry
<1>3. conns[k].addr \in Address
  BY DEF Inv, ServInv, ServTypes, ConnEntry
<1>4. MsgTypes'
  BY <1>1, <1>3 DEF Inv, MsgTypes, BindEntry
<1>5. ASSUME NEW n \in Slot PROVE SlotInv(n)'
  <2>1. SlotInv(n)
    BY DEF Inv, SlotsInv
  <2>2. Told(n)' = Told(n) /\ LastTold(n)' = LastTold(n)
    BY <1>1 DEF Told, LastTold
  <2>3. Follows(n) => Follows(n)'
    BY <1>1, <1>2, <2>2 DEF Follows
  <2>4. ToldRight(n) => ToldRight(n)'
    BY <1>1, <2>2 DEF ToldRight
  <2> QED BY <1>1, <1>2, <2>1, <2>3, <2>4 DEF SlotInv
<1>6. SlotsInv'
  BY <1>5 DEF SlotsInv
<1> QED BY <1>1, <1>4, <1>6, ServSame DEF Inv

(* A process ends by itself: no table changes.                             *)
LEMMA StepEnds ==
  ASSUME Inv, NEW p \in Pid, NwconnEnds(p)
  PROVE  Inv'
<1>1. UNCHANGED <<conns, toNwserv, toServ, toBind, missed, binds, hi_conn>>
  BY DEF NwconnEnds, nwservVars, bindQueue
<1>2. \A n \in Slot : SamePipe(n)
  BY <1>1 DEF SamePipe, SameIn
<1>3. SlotsInv'
  BY <1>1, <1>2, StepSlots DEF Inv, SameConn
<1> QED BY <1>1, <1>3, ServEnds DEF Inv, MsgTypes

(* A client is switched off or on: the server does not notice.             *)
LEMMA StepClient ==
  ASSUME Inv, \/ \E a \in Leaver : ClientOff(a) \/ ClientOn(a)
              \/ UNCHANGED vars
  PROVE  Inv'
<1>1. UNCHANGED <<conns, count, proc, toNwserv, toServ, toBind, missed, binds, hi_conn>>
  BY DEF ClientOff, ClientOn, vars, servVars, nwservVars, bindQueue
<1>2. \A n \in Slot : SamePipe(n)
  BY <1>1 DEF SamePipe, SameIn
<1> QED BY <1>1, <1>2, StepOther DEF Inv, MsgTypes

(* Every step keeps the invariant.                                         *)
LEMMA InvNext == Inv /\ alive \subseteq Client /\ [Next]_vars => (Inv /\ alive \subseteq Client)'
<1> SUFFICES ASSUME Inv, alive \subseteq Client, [Next]_vars
             PROVE  Inv' /\ alive' \subseteq Client
  OBVIOUS
<1>1. CASE Ncpserv
  <2>1. alive' = alive
    BY <1>1 DEF Ncpserv, Connect, ConnectAgain, ConnectNew, ConnectFails, ConnectFull, Destroy,
                ResetWdog, CtrlClear, KillConnections, ClearSigChild
  <2>2. Inv'
    BY <1>1, StepConnect, StepServe, StepKill DEF Ncpserv
  <2> QED BY <2>1, <2>2
<1>2. CASE NwservReads \/ \E k \in Slot : WdogDue(k) \/ WdogAnswer(k)
  <2>1. alive' = alive
    BY <1>2 DEF NwservReads, NwservInsert, NwservClose, NwservReset, NwservActivate, WdogDue,
                WdogAnswer
  <2> QED BY <1>2, <2>1, StepNwserv
<1>3. CASE BindCtrl
  BY <1>3, StepBindCtrl DEF BindCtrl
<1>4. CASE \E k \in Slot : Login(k)
  BY <1>4, StepLogin DEF Login
<1>5. CASE \E p \in Pid : NwconnEnds(p)
  BY <1>5, StepEnds DEF NwconnEnds
<1>6. CASE \E a \in Leaver : ClientOff(a) \/ ClientOn(a)
  BY <1>6, StepClient, ConnConstants DEF ClientOff, ClientOn
<1>7. CASE UNCHANGED vars
  BY <1>7, StepClient DEF vars
<1> QED BY <1>1, <1>2, <1>3, <1>4, <1>5, <1>6, <1>7 DEF Next

(* The invariant holds in every behaviour.                                 *)
LEMMA Invariance == Spec => []Inv
<1>1. Init => Inv /\ alive \subseteq Client
  BY InvInit DEF Init
<1> QED BY <1>1, InvNext, PTL DEF Spec

(* In every behaviour a client has one connection (find_conn_nr,           *)
(* new_conn_nr), although it may repeat its 0x1111 and leave in between.   *)
THEOREM OneSlot == Spec => []OneSlotPerClient
<1>1. Inv => OneSlotPerClient
  BY DEF Inv, ServInv
<1> QED BY <1>1, Invariance, PTL

(* In every behaviour a process that nobody has told to end belongs to     *)
(* exactly one open connection (clear_connection, kill_connections).       *)
THEOREM NoStray == Spec => []NoStrayProcess
<1>1. Inv => NoStrayProcess
  BY ServImplies DEF Inv
<1> QED BY <1>1, Invariance, PTL

(* In every behaviour nwbind's table is ncpserv's, with the messages that  *)
(* are under way applied (modify_wdog_conn, write_to_nwbind,               *)
(* open_clear_connection), however often a packet is repeated: but for a   *)
(* slot whose last message send_own_data has given up (net1.c:298).        *)
THEOREM Follow == Spec => []BindFollows
<1>1. Inv => BindFollows
  <2> SUFFICES ASSUME Inv, NEW n \in Slot, missed[n] = "nothing" PROVE Follows(n)
    BY DEF BindFollows, Follows
  <2>1. SlotInv(n)
    BY DEF Inv, SlotsInv
  <2>2. CASE About(toNwserv, n) # {}
    BY <2>1, <2>2 DEF SlotInv, ToldRight, Follows
  <2>3. CASE About(toNwserv, n) = {}
    BY <2>1, <2>3 DEF SlotInv
  <2> QED BY <2>2, <2>3
<1> QED BY <1>1, Invariance, PTL

(* In every behaviour, once nothing about a slot is under way, nobody      *)
(* works there under the login of the slot's former client, unless its     *)
(* close was given up and no message about the slot has arrived since.     *)
THEOREM OwnLogin == Spec => []NoInheritedLogin
<1>1. Inv => NoInheritedLogin
  <2> SUFFICES ASSUME Inv, NEW n \in Slot, conns[n].fd, ~Told(n), missed[n] # "close"
               PROVE  binds[n].login \in {NoClient, conns[n].addr}
    BY DEF NoInheritedLogin
  <2>1. About(toNwserv, n) = {} /\ About(toBind, n) = {}
    BY DEF Told
  <2>2. Closes(toNwserv, n) = {}
    BY <2>1 DEF Closes, About
  <2> QED BY <2>1, <2>2 DEF Inv, SlotsInv, SlotInv
<1> QED BY <1>1, Invariance, PTL

-----------------------------------------------------------------------------
(* The life of the server (Nwserv).                                        *)

Starting == {"start", "started"}
Looping == {"poll", "waitpid", "flags", "hup", "usr1", "usr2", "term", "reset", "events"}
Ending == {"quit ncpserv", "wait ncpserv", "quit nwbind", "wait nwbind", "close", "end"}

LifeTypes ==
  /\ pc \in Starting \cup Looping \cup Ending
  /\ child \in [Child -> {"none", "test", "recv", "work", "reinit", "zombie", "gone"}]
  /\ gotchld \in BOOLEAN

(* Before the shutdown the flag is only set while there is a child to      *)
(* collect; when nwserv is about to call waitpid there is one, and if the  *)
(* flag is set again both children have ended.                             *)
FlagIsTrue ==
  /\ pc \notin Ending /\ gotchld => \E c \in Child : child[c] = "zombie"
  /\ pc = "waitpid" => \E c \in Child : child[c] = "zombie"
  /\ pc = "waitpid" /\ gotchld => \A c \in Child : child[c] = "zombie"

(* close_all collects ncpserv before it turns to nwbind.                   *)
Collected ==
  /\ pc \in {"quit nwbind", "wait nwbind", "close", "end"} => child["ncpserv"] \in {"none", "gone"}
  /\ pc \in {"close", "end"} => child["nwbind"] \in {"none", "gone"}

(* nwbind is started first.                                                *)
NotStarted ==
  /\ pc = "start" => child["nwbind"] = "none"
  /\ pc \in Starting => child["ncpserv"] = "none"

LifeInv == LifeTypes /\ FlagIsTrue /\ NotStarted /\ Collected

-----------------------------------------------------------------------------
(* nwserv begins with no child and no signal pending.                     *)
LEMMA LifeInvInit == NwservInit => LifeInv
BY DEF NwservInit, LifeInv, LifeTypes, FlagIsTrue, NotStarted, Collected, Starting, Looping, Ending, Child

(* The steps of nwserv itself.                                             *)
LEMMA LifeServerStep == ASSUME LifeInv, Server \/ LeaveLoop PROVE LifeInv'
<1> USE DEF LifeInv, LifeTypes, FlagIsTrue, NotStarted, Collected, Starting, Looping, Ending,
            Zombies, Alive, Child
<1>1. CASE start_nwbind BY <1>1 DEF start_nwbind
<1>2. CASE start_ncpserv BY <1>2 DEF start_ncpserv
<1>3. CASE TestChild BY <1>3 DEF TestChild
<1>4. CASE WaitPid BY <1>4 DEF WaitPid
<1>5. CASE TestFlags BY <1>5 DEF TestFlags
<1>6. CASE ResetFlags BY <1>6 DEF ResetFlags
<1>7. CASE Events BY <1>7 DEF Events
<1>8. CASE Exit BY <1>8 DEF Exit
<1>9. CASE \E s \in {"hup", "usr1", "usr2", "term"} : TestFlag(s)
  <2>1. PICK s \in {"hup", "usr1", "usr2", "term"} : TestFlag(s) BY <1>9
  <2>2. pc = s /\ pc' = After(s) /\ UNCHANGED <<child, gotchld>> BY <2>1, Zenon DEF TestFlag
  <2>3. pc' \in {"usr1", "usr2", "term", "reset"} BY <2>2 DEF After
  <2> QED BY <2>2, <2>3
<1>10. CASE \E c \in Child : QuitChild(c) BY <1>10, ZenonT(30) DEF QuitChild
<1>11. CASE \E c \in Child : CollectChild(c)
  <2>1. CASE CollectChild("ncpserv") BY <2>1 DEF CollectChild
  <2>2. CASE CollectChild("nwbind") BY <2>2 DEF CollectChild
  <2> QED BY <1>11, <2>1, <2>2
<1>12. CASE LeaveLoop BY <1>12 DEF LeaveLoop
<1> QED BY <1>1, <1>2, <1>3, <1>4, <1>5, <1>6, <1>7, <1>8, <1>9, <1>10, <1>11, <1>12 DEF Server

(* The steps of the children, and what comes from outside.                 *)
LEMMA LifeOtherStep ==
  ASSUME LifeInv,
         \/ \E s \in Signals : Signal(s)
         \/ \E s \in ChildSigs : SignalNwbind(s)
         \/ \E c \in Child : ChildStep(c) \/ Die(c) \/ Arrive(c)
  PROVE  LifeInv'
<1> USE DEF LifeInv, LifeTypes, FlagIsTrue, NotStarted, Collected, Starting, Looping, Ending,
            Zombies, Alive, Child
<1>1. CASE \E s \in Signals : Signal(s)
  <2>1. UNCHANGED <<pc, child, gotchld>> BY <1>1, Zenon DEF Signal
  <2> QED BY <2>1
<1>2. CASE \E s \in ChildSigs : SignalNwbind(s)
  <2>1. /\ UNCHANGED <<pc, gotchld>>
        /\ \/ UNCHANGED child
           \/ child["nwbind"] = "recv" /\ child' = [child EXCEPT !["nwbind"] = "work"]
    BY <1>2 DEF SignalNwbind
  <2> QED BY <2>1
<1>3. ASSUME NEW c \in Child, ChildTest(c) PROVE LifeInv' BY <1>3, ZenonT(30) DEF ChildTest
<1>4. ASSUME NEW c \in Child, ChildReceive(c) PROVE LifeInv' BY <1>4 DEF ChildReceive
<1>5. ASSUME NEW c \in Child, ChildWork(c) PROVE LifeInv' BY <1>5 DEF ChildWork
<1>6. CASE reinit_nwbind BY <1>6 DEF reinit_nwbind
<1>7. ASSUME NEW c \in Child, Die(c) PROVE LifeInv' BY <1>7 DEF Die
<1>8. ASSUME NEW c \in Child, Arrive(c) PROVE LifeInv' BY <1>8 DEF Arrive
<1> QED BY <1>1, <1>2, <1>3, <1>4, <1>5, <1>6, <1>7, <1>8 DEF ChildStep

(* The inductive invariant.                                                *)
THEOREM LifeInvariance == NwservSpec => []LifeInv
<1>1. LifeInv /\ [NwservNext]_lifeVars => LifeInv'
  <2> SUFFICES ASSUME LifeInv, [NwservNext]_lifeVars PROVE LifeInv'
    OBVIOUS
  <2>1. CASE NwservNext BY <2>1, LifeServerStep, LifeOtherStep DEF NwservNext
  <2>2. CASE UNCHANGED lifeVars
    BY <2>2 DEF lifeVars, LifeInv, LifeTypes, FlagIsTrue, NotStarted, Collected
  <2> QED BY <2>1, <2>2
<1> QED BY <1>1, LifeInvInit, PTL DEF NwservSpec

(* waitpid in nwserv's main loop (nwserv.c:1419) always finds a child that *)
(* has ended, however the ends of the children fall among its steps.       *)
THEOREM WaitReturns == NwservSpec => []WaitNeverBlocks
<1>1. LifeInv => WaitNeverBlocks BY DEF LifeInv, FlagIsTrue, WaitNeverBlocks, Zombies
<1> QED BY <1>1, LifeInvariance, PTL

(* When nwserv has ended, nwbind and ncpserv have too and are collected    *)
(* (nwserv.c:1092-1114), also after a start that failed half way.          *)
THEOREM ChildrenGone == NwservSpec => []NoChildLeft
<1>1. LifeInv => NoChildLeft BY DEF LifeInv, Collected, NoChildLeft, Child
<1> QED BY <1>1, LifeInvariance, PTL
=============================================================================
