---------------------------- MODULE TableProofs ----------------------------
(***************************************************************************)
(* Proofs about the tables whose entries are taken, given up and taken      *)
(* again: the semaphores of nwbind, and the directory and search handles   *)
(* of nwconn.                                                              *)
(*                                                                         *)
(* Semaphores, for any connections, names and table sizes: a name has one  *)
(* semaphore, none is freed while a connection has it open, and a handle   *)
(* that is held keeps its meaning.                                         *)
(*                                                                         *)
(* Searches, for any directories, searches and table sizes: however a      *)
(* search goes on, at the position a shared handle has or by counting, it   *)
(* has been told of what is behind its place and of nothing else.  The     *)
(* argument is about numbers: a handle's number for a position and the      *)
(* search's for its own differ by the entries between them, as long as     *)
(* none was removed (or added).                                            *)
(***************************************************************************)
EXTENDS Semaphores, Searches, TLAPS, FiniteSetTheorems, SequenceTheorems, WellFoundedInduction

-----------------------------------------------------------------------------
(* The largest and the smallest of some numbers, and what the tables'      *)
(* operators return.                                                       *)

(* Every set of natural numbers has a least one.                           *)
LEMMA MinIs ==
  ASSUME NEW S \in SUBSET Nat, S # {}
  PROVE  Min(S) \in S /\ \A u \in S : Min(S) <= u
<1>1. PICK t \in S : \A u \in S : <<u, t>> \notin OpToRel(<, Nat)
  BY NatLessThanWellFounded, WFMin
<1>2. \A u \in S : ~(u < t)
  BY <1>1 DEF OpToRel
<1>3. \A u \in S : t <= u
  BY <1>2
<1> QED BY <1>3 DEF Min

(* Every set of numbers up to a bound has a greatest one.                  *)
LEMMA MaxIs ==
  ASSUME NEW b \in Nat, NEW S \in SUBSET (0 .. b), S # {}
  PROVE  Max(S) \in S /\ \A u \in S : u <= Max(S)
<1> DEFINE T == {b - x : x \in S}
<1>1. T \in SUBSET Nat /\ T # {}
  <2>1. \A x \in S : b - x \in Nat
    OBVIOUS
  <2> QED BY <2>1
<1>2. Min(T) \in T /\ \A u \in T : Min(T) <= u
  BY <1>1, MinIs
<1>3. PICK x \in S : Min(T) = b - x
  BY <1>2
<1>4. \A u \in S : b - u \in T
  OBVIOUS
<1>5. \A u \in S : b - x <= b - u
  BY <1>2, <1>3, <1>4
<1>6. \A u \in S : x >= u
  BY <1>5
<1>7. Max(S) \in S /\ \A u \in S : Max(S) >= u
  BY <1>6 DEF Max
<1> QED BY <1>7

(* TrimTo keeps a table up to its last used slot.                          *)
LEMMA TrimIs ==
  ASSUME NEW T, NEW t \in Seq(T), NEW used \in SUBSET (1..Len(t))
  PROVE  /\ TrimTo(t, used) \in Seq(T)
         /\ Len(TrimTo(t, used)) <= Len(t)
         /\ \A i \in 1..Len(TrimTo(t, used)) : TrimTo(t, used)[i] = t[i]
         /\ \A i \in used : i <= Len(TrimTo(t, used))
<1> DEFINE m == IF used = {} THEN 0 ELSE Max(used)
<1>1. m \in 0..Len(t) /\ \A i \in used : i <= m
  <2>1. CASE used = {}
    BY <2>1
  <2>2. CASE used # {}
    <3>1. used \in SUBSET (0..Len(t)) /\ Len(t) \in Nat
      OBVIOUS
    <3>2. Max(used) \in used /\ \A u \in used : u <= Max(used)
      BY <3>1, <2>2, MaxIs
    <3>3. m = Max(used)
      BY <2>2
    <3> HIDE DEF m
    <3> QED BY <3>1, <3>2, <3>3
  <2> QED BY <2>1, <2>2
<1> HIDE DEF m
<1>2. /\ SubSeq(t, 1, m) \in Seq(T) /\ Len(SubSeq(t, 1, m)) = m
      /\ \A i \in 1..m : SubSeq(t, 1, m)[i] = t[i]
  <2>1. SubSeq(t, 1, m) = [i \in 1..m |-> t[i]]
    BY <1>1
  <2>2. \A i \in 1..m : t[i] \in T
    BY <1>1
  <2>3. SubSeq(t, 1, m) \in Seq(T)
    BY <2>1, <2>2, <1>1
  <2> QED BY <2>1, <2>3, <1>1
<1>3. TrimTo(t, used) = SubSeq(t, 1, m)
  BY DEF TrimTo, m
<1> QED BY <1>1, <1>2, <1>3

(* The slot of an insertion is a free one, or the one after the last.      *)
LEMMA SlotIs ==
  ASSUME NEW len \in Nat, NEW free \in SUBSET (1..len)
  PROVE  /\ SlotFor(free, len) \in 1..len+1
         /\ SlotFor(free, len) \in 1..len => SlotFor(free, len) \in free
<1>1. CASE free = {}
  BY <1>1 DEF SlotFor
<1>2. CASE free # {}
  <2>1. Min(free) \in free
    BY <1>2, MinIs
  <2>2. SlotFor(free, len) = Min(free)
    BY <1>2 DEF SlotFor
  <2>3. Min(free) \in 1..len
    BY <2>1
  <2> HIDE DEF Min
  <2> QED BY <2>1, <2>2, <2>3
<1> QED BY <1>1, <1>2

(* What a table holds after a slot is written.                             *)
LEMMA StoreIs ==
  ASSUME NEW T, NEW t \in Seq(T), NEW k \in 1..Len(t)+1, NEW e \in T
  PROVE  /\ Store(t, k, e) \in Seq(T)
         /\ Len(Store(t, k, e)) \in {Len(t), k}
         /\ Len(t) <= Len(Store(t, k, e)) /\ k <= Len(Store(t, k, e))
         /\ Store(t, k, e)[k] = e
         /\ \A i \in 1..Len(t) : i # k => Store(t, k, e)[i] = t[i]
         /\ \A i \in 1..Len(Store(t, k, e)) : i # k => i \in 1..Len(t)
<1>1. CASE k > Len(t)
  <2>1. k = Len(t) + 1
    BY <1>1
  <2>2. Store(t, k, e) = Append(t, e)
    BY <1>1 DEF Store
  <2> QED BY <2>1, <2>2
<1>2. CASE ~(k > Len(t))
  <2>1. Store(t, k, e) = [t EXCEPT ![k] = e]
    BY <1>2 DEF Store
  <2> QED BY <2>1, <1>2
<1> QED BY <1>1, <1>2

-----------------------------------------------------------------------------
(* The inductive invariant.                                                *)

Sema == [name : Name \union {NoName}, opencount : Nat, value : Nat]
Slot == [handle : 0..MaxSemas, opencount : Nat]

TypeOK ==
  /\ semas \in Seq(Sema) /\ Len(semas) <= MaxSemas
  /\ connSemas \in [Conn -> Seq(Slot)]
  /\ active \in [Conn -> BOOLEAN]

(* A connection's slot in use has been opened at least once.               *)
SlotsOpened ==
  \A c \in Conn : \A i \in 1..Len(connSemas[c]) :
    connSemas[c][i].handle > 0 => connSemas[c][i].opencount > 0

(* The opens of handle h that some connection has not closed.              *)
Opens(h) == UNION {OpensBy(c, h) : c \in Conn}

(* Handle h is open at least as often as the connections have it open.     *)
Covered(h) ==
  /\ IsFiniteSet(Opens(h))
  /\ Opens(h) # {} => IsSema(semas, h) /\ semas[h].opencount >= Cardinality(Opens(h))

Inv == TypeOK /\ SlotsOpened /\ NamesUnique /\ \A h \in Handle : Covered(h)

(* An open is a connection, a slot of its table with the handle, and a     *)
(* number up to the slot's count.                                          *)
LEMMA InOpensBy ==
  ASSUME NEW c, NEW h, NEW o
  PROVE  o \in OpensBy(c, h) <=>
           \E i \in 1..Len(connSemas[c]) :
             /\ connSemas[c][i].handle = h
             /\ \E k \in 1..connSemas[c][i].opencount : o = <<c, i, k>>
  BY DEF OpensBy

(* The slots with a handle are found: a connection that holds one has      *)
(* opened it.                                                              *)
LEMMA HeldIsOpen ==
  ASSUME TypeOK, SlotsOpened, NEW c \in Conn, NEW h \in Handle, Holds(c, h)
  PROVE  OpensBy(c, h) # {} /\ Opens(h) # {}
<1> USE SemaConstants
<1>1. PICK i \in 1..Len(connSemas[c]) : connSemas[c][i].handle = h
  BY DEF Holds
<1>2. connSemas[c] \in Seq(Slot)
  BY DEF TypeOK
<1>3. connSemas[c][i].opencount \in Nat /\ connSemas[c][i].opencount > 0
  <2>1. connSemas[c][i] \in Slot
    BY <1>2
  <2>2. connSemas[c][i].opencount \in Nat
    BY <2>1 DEF Slot
  <2>3. connSemas[c][i].handle > 0
    BY <1>1 DEF Handle
  <2> QED BY <2>2, <2>3 DEF SlotsOpened
<1>4. <<c, i, 1>> \in OpensBy(c, h)
  BY <1>1, <1>3, InOpensBy
<1> QED BY <1>4 DEF Opens

(* The invariant says of every handle that its opens are counted.          *)
LEMMA InvCovers == Inv => OpencountCovers
<1> SUFFICES ASSUME Inv, NEW h \in Handle, Cardinality(Opens(h)) > 0
             PROVE  IsSema(semas, h) /\ semas[h].opencount >= Cardinality(Opens(h))
  BY DEF OpencountCovers, Opens
<1>1. IsFiniteSet(Opens(h)) /\ (Opens(h) # {} =>
        IsSema(semas, h) /\ semas[h].opencount >= Cardinality(Opens(h)))
  BY DEF Inv, Covered
<1>2. Opens(h) # {}
  BY FS_EmptySet
<1> QED BY <1>1, <1>2

(* At first no semaphore is open.                                          *)
LEMMA InvInit == Init => Inv
<1> SUFFICES ASSUME Init PROVE Inv
  OBVIOUS
<1>1. TypeOK
  BY SemaConstants DEF Init, TypeOK
<1>2. SlotsOpened /\ NamesUnique
  BY DEF Init, SlotsOpened, NamesUnique
<1>3. ASSUME NEW h \in Handle PROVE Covered(h)
  <2>1. \A c \in Conn : OpensBy(c, h) = {}
    BY DEF Init, OpensBy
  <2>2. Opens(h) = {}
    BY <2>1 DEF Opens
  <2> QED BY <2>2, FS_EmptySet DEF Covered
<1> QED BY <1>1, <1>2, <1>3 DEF Inv

-----------------------------------------------------------------------------
(* The steps, each with what it keeps of the names of the handles.         *)

(* A handle that is in use before and after a step names the same.         *)
NamesKept ==
  \A h \in Handle : IsSema(semas, h) /\ IsSema(semas', h) => semas'[h].name = semas[h].name

(* The opens are those of the connections' tables.                         *)
LEMMA SameOpens ==
  ASSUME connSemas' = connSemas
  PROVE  \A h : Opens(h)' = Opens(h)
  BY DEF Opens, OpensBy

(* A step that changes values only changes no name and no count.           *)
LEMMA SameCounts ==
  ASSUME Inv, connSemas' = connSemas, active' \in [Conn -> BOOLEAN],
         semas' \in Seq(Sema), Len(semas') = Len(semas),
         \A i \in 1..Len(semas) : /\ semas'[i].name = semas[i].name
                                  /\ semas'[i].opencount = semas[i].opencount
  PROVE  Inv' /\ NamesKept
<1>1. TypeOK'
  BY DEF Inv, TypeOK
<1>2. SlotsOpened'
  BY DEF Inv, SlotsOpened
<1>3. \A h : IsSema(semas', h) <=> IsSema(semas, h)
  BY DEF IsSema
<1>4. NamesUnique'
  BY <1>3 DEF Inv, NamesUnique
<1>5. \A h : Opens(h)' = Opens(h)
  BY SameOpens
<1>6. ASSUME NEW h \in Handle PROVE Covered(h)'
  BY <1>3, <1>5, <1>6 DEF Inv, Covered, IsSema
<1>7. NamesKept
  BY <1>3 DEF NamesKept, IsSema
<1> QED BY <1>1, <1>2, <1>4, <1>6, <1>7 DEF Inv

(* wait_sema and signal_sema change the value only.                        *)
LEMMA StepValue ==
  ASSUME Inv, NEW c \in Conn, NEW h \in Handle,
         WaitSemaphore(c, h) \/ SignalSemaphore(c, h)
  PROVE  Inv' /\ NamesKept
<1>1. PICK v \in Nat : semas' = [semas EXCEPT ![h].value = v]
  <2>1. h \in 1..Len(semas) /\ semas \in Seq(Sema)
    BY DEF WaitSemaphore, SignalSemaphore, IsSema, Inv, TypeOK
  <2>2. semas[h] \in Sema
    BY <2>1
  <2>3. semas[h].value \in Nat
    BY <2>2 DEF Sema
  <2>4. CASE WaitSemaphore(c, h)
    <3>1. semas[h].value - 1 \in Nat
      BY <2>3, <2>4 DEF WaitSemaphore
    <3> QED BY <3>1, <2>4 DEF WaitSemaphore
  <2>5. CASE SignalSemaphore(c, h)
    <3>1. semas[h].value + 1 \in Nat
      BY <2>3
    <3> QED BY <3>1, <2>5 DEF SignalSemaphore
  <2> QED BY <2>4, <2>5
<1>2. h \in 1..Len(semas) /\ semas \in Seq(Sema)
  BY DEF WaitSemaphore, SignalSemaphore, IsSema, Inv, TypeOK
<1>3. Len(semas') = Len(semas) /\ \A i \in 1..Len(semas) :
        semas'[i] = IF i = h THEN [semas[h] EXCEPT !.value = v] ELSE semas[i]
  BY <1>1, <1>2
<1>4. \A i \in 1..Len(semas) : semas[i] \in Sema
  BY <1>2
<1>5. \A i \in 1..Len(semas) : /\ semas'[i].name = semas[i].name
                               /\ semas'[i].opencount = semas[i].opencount
  BY <1>3, <1>4 DEF Sema
<1>6. [semas[h] EXCEPT !.value = v] \in Sema
  BY <1>2, <1>4, <1>1 DEF Sema
<1>7. semas' \in Seq(Sema)
  BY <1>1, <1>2, <1>6
<1>8. connSemas' = connSemas /\ active' = active
  BY DEF WaitSemaphore, SignalSemaphore
<1>9. active' \in [Conn -> BOOLEAN]
  BY <1>8 DEF Inv, TypeOK
<1> QED BY <1>3, <1>5, <1>7, <1>8, <1>9, SameCounts

(* What closing a handle once does to the global table.                    *)
LEMMA CloseIs ==
  ASSUME NEW s \in Seq(Sema), NEW h
  PROVE  /\ close_sema(s, h) \in Seq(Sema) /\ Len(close_sema(s, h)) <= Len(s)
         /\ \A i : IsSema(close_sema(s, h), i) =>
                     IsSema(s, i) /\ close_sema(s, h)[i].name = s[i].name
         /\ \A i : i # h /\ IsSema(s, i) =>
                     /\ IsSema(close_sema(s, h), i)
                     /\ close_sema(s, h)[i].opencount = s[i].opencount
         /\ IsSema(s, h) /\ s[h].opencount > 1 =>
                     /\ IsSema(close_sema(s, h), h)
                     /\ close_sema(s, h)[h].opencount = s[h].opencount - 1
<1>0. \A i \in 1..Len(s) : s[i] \in Sema /\ s[i].opencount \in Nat
  <2>1. \A i \in 1..Len(s) : s[i] \in Sema
    OBVIOUS
  <2> QED BY <2>1 DEF Sema
<1>1. CASE ~IsSema(s, h)
  <2>1. close_sema(s, h) = s
    BY <1>1 DEF close_sema, CloseTimes
  <2> QED BY <2>1, <1>1
<1>2. CASE IsSema(s, h) /\ s[h].opencount > 1
  <2>1. close_sema(s, h) = [s EXCEPT ![h].opencount = @ - 1]
    BY <1>2 DEF close_sema, CloseTimes
  <2>2. h \in 1..Len(s)
    BY <1>2 DEF IsSema
  <2>3. s[h].opencount - 1 \in Nat /\ s[h].opencount - 1 > 0
    BY <1>2, <1>0, <2>2
  <2>4. [s[h] EXCEPT !.opencount = s[h].opencount - 1] \in Sema
    BY <2>2, <2>3, <1>0 DEF Sema
  <2>5. PICK e \in Sema : /\ e = [s[h] EXCEPT !.opencount = s[h].opencount - 1]
                          /\ e.opencount = s[h].opencount - 1 /\ e.name = s[h].name
    BY <2>4, <2>2, <1>0 DEF Sema
  <2>6. close_sema(s, h) = [s EXCEPT ![h] = e]
    BY <2>1, <2>5
  <2>7. close_sema(s, h) \in Seq(Sema) /\ Len(close_sema(s, h)) = Len(s)
        /\ \A i \in 1..Len(s) : close_sema(s, h)[i] = IF i = h THEN e ELSE s[i]
    BY <2>6, <2>2
  <2>8. PICK r \in Seq(Sema) : r = close_sema(s, h)
    BY <2>7
  <2>9. /\ Len(r) = Len(s) /\ \A i \in 1..Len(s) : r[i] = IF i = h THEN e ELSE s[i]
        /\ e.opencount > 0 /\ e.name = s[h].name /\ e.opencount = s[h].opencount - 1
    BY <2>7, <2>8, <2>5, <2>3
  <2>10. /\ \A i : IsSema(r, i) => IsSema(s, i) /\ r[i].name = s[i].name
         /\ \A i : i # h /\ IsSema(s, i) => IsSema(r, i) /\ r[i].opencount = s[i].opencount
         /\ IsSema(r, h) /\ r[h].opencount = s[h].opencount - 1
    BY <2>9, <2>2, <1>2 DEF IsSema
  <2> QED BY <2>8, <2>9, <2>10
<1>3. CASE IsSema(s, h) /\ ~(s[h].opencount > 1)
  <2> DEFINE t == [s EXCEPT ![h] = FreeSema]
             u == {i \in 1..Len(t) : t[i].opencount > 0}
  <2>1. h \in 1..Len(s) /\ s[h].opencount = 1
    BY <1>3, <1>0 DEF IsSema
  <2>2. close_sema(s, h) = TrimTo(t, u)
    BY <1>3, <2>1 DEF close_sema, CloseTimes, TrimSemas
  <2>3. FreeSema \in Sema /\ FreeSema.opencount = 0
    BY DEF FreeSema, Sema
  <2>4. t \in Seq(Sema) /\ Len(t) = Len(s)
        /\ \A i \in 1..Len(s) : t[i] = IF i = h THEN FreeSema ELSE s[i]
    BY <2>1, <2>3
  <2>5. \A i \in u : i \in 1..Len(s) /\ t[i].opencount > 0
    BY <2>4
  <2>5a. \A i \in 1..Len(s) : t[i].opencount > 0 => i \in u
    BY <2>4
  <2>5b. u \in SUBSET (1..Len(t))
    OBVIOUS
  <2> HIDE DEF t, u
  <2>6. /\ TrimTo(t, u) \in Seq(Sema) /\ Len(TrimTo(t, u)) <= Len(t)
        /\ \A i \in 1..Len(TrimTo(t, u)) : TrimTo(t, u)[i] = t[i]
        /\ \A i \in u : i <= Len(TrimTo(t, u))
    BY <2>4, <2>5b, TrimIs
  <2>7. \A i : i # h /\ IsSema(s, i) => i \in u /\ t[i] = s[i] /\ i \in 1..Len(s)
    BY <2>4, <2>5a DEF IsSema
  <2>8. ASSUME NEW i, i # h, IsSema(s, i)
        PROVE  IsSema(TrimTo(t, u), i) /\ TrimTo(t, u)[i].opencount = s[i].opencount
    <3>1. i \in u /\ t[i] = s[i] /\ i \in 1..Len(s)
      BY <2>7, <2>8
    <3>2. i \in 1..Len(TrimTo(t, u))
      BY <3>1, <2>6, LenProperties
    <3> QED BY <3>1, <3>2, <2>6, <2>8 DEF IsSema
  <2>9. ASSUME NEW i, IsSema(TrimTo(t, u), i)
        PROVE  IsSema(s, i) /\ TrimTo(t, u)[i].name = s[i].name
    <3>1. i \in 1..Len(TrimTo(t, u)) /\ TrimTo(t, u)[i] = t[i] /\ i \in 1..Len(s)
      BY <2>9, <2>6, <2>4, LenProperties DEF IsSema
    <3>2. i # h
      BY <3>1, <2>9, <2>4, <2>3 DEF IsSema
    <3> QED BY <3>1, <3>2, <2>4, <2>9 DEF IsSema
  <2> QED BY <2>2, <2>4, <2>6, <2>8, <2>9, <2>1
<1> QED BY <1>1, <1>2, <1>3

(* A slot of a connection's table that names a handle is the only one.     *)
OneSlotEach(t) ==
  \A i, j \in 1..Len(t) : t[i].handle = t[j].handle /\ t[i].handle > 0 => i = j

(* What closing a handle once does to the connection's table: slot i loses *)
(* an open, or is freed with the last one.                                 *)
LEMMA CloseConnIs ==
  ASSUME NEW t \in Seq(Slot), OneSlotEach(t),
         NEW h \in Handle, NEW i \in 1..Len(t), t[i].handle = h, t[i].opencount > 0,
         NEW r, r = close_conn_sema(t, h)
  PROVE  /\ r \in Seq(Slot)
         /\ \A j \in 1..Len(r) : j \in 1..Len(t) /\ (j # i => r[j] = t[j])
         /\ \A j \in 1..Len(t) : j # i /\ t[j].handle > 0 => j \in 1..Len(r)
         /\ i \in 1..Len(r) =>
           /\ r[i].opencount = t[i].opencount - 1 /\ r[i].handle \in {0, h}
           /\ r[i].handle = h => r[i].opencount > 0
         /\ t[i].opencount > 1 => i \in 1..Len(r) /\ r[i].handle = h
<1> DEFINE same == {j \in 1..Len(t) : t[j].handle = h}
<1>0. /\ \A j \in 1..Len(t) : t[j] \in Slot /\ t[j].opencount \in Nat /\ t[j].handle \in Nat
      /\ h > 0 /\ h \in 0..MaxSemas /\ Len(t) \in Nat
  <2>1. \A j \in 1..Len(t) : t[j] \in Slot
    OBVIOUS
  <2> QED BY <2>1, SemaConstants DEF Slot, Handle
<1>1. Max(same) = i
  <2>1. same \in SUBSET (0..Len(t)) /\ i \in same
    OBVIOUS
  <2>2. \A j \in same : j = i
    BY <1>0 DEF OneSlotEach
  <2>3. Max(same) \in same
    BY <2>1, <1>0, MaxIs
  <2> QED BY <2>2, <2>3
<1>2. r = IF t[i].opencount > 1 THEN [t EXCEPT ![i].opencount = @ - 1]
          ELSE TrimSlots([t EXCEPT ![i] = FreeSlot])
  BY <1>1 DEF close_conn_sema
<1> HIDE DEF same
<1>3. CASE t[i].opencount > 1
  <2>1. r = [t EXCEPT ![i].opencount = @ - 1]
    BY <1>2, <1>3
  <2>2. PICK e \in Slot : /\ e = [t[i] EXCEPT !.opencount = t[i].opencount - 1]
                          /\ e.opencount = t[i].opencount - 1 /\ e.handle = h
    <3>1. t[i].opencount - 1 \in Nat
      BY <1>0, <1>3
    <3>2. t[i] \in Slot
      BY <1>0
    <3>3. PICK w \in Slot : w = t[i]
      BY <3>2
    <3>4. PICK v \in Nat : v = t[i].opencount - 1
      BY <3>1
    <3>5. /\ [w EXCEPT !.opencount = v] \in Slot
          /\ [w EXCEPT !.opencount = v].opencount = v
          /\ [w EXCEPT !.opencount = v].handle = w.handle
      BY DEF Slot
    <3> QED BY <3>3, <3>4, <3>5
  <2>3. r = [t EXCEPT ![i] = e]
    BY <2>1, <2>2
  <2>4. /\ r \in Seq(Slot) /\ Len(r) = Len(t)
        /\ \A j \in 1..Len(t) : r[j] = IF j = i THEN e ELSE t[j]
    BY <2>3
  <2>5. e.opencount > 0 /\ Len(r) \in Nat
    BY <2>2, <2>4, <1>0, <1>3
  <2>6. \A j \in 1..Len(r) : j \in 1..Len(t) /\ (j # i => r[j] = t[j])
    BY <2>4
  <2>7. i \in 1..Len(r) /\ r[i] = e
    BY <2>4
  <2> QED BY <2>2, <2>4, <2>5, <2>6, <2>7
<1>4. CASE ~(t[i].opencount > 1)
  <2> DEFINE w == [t EXCEPT ![i] = FreeSlot]
             u == {j \in 1..Len(w) : w[j].handle > 0}
  <2>1. r = TrimTo(w, u)
    BY <1>2, <1>4 DEF TrimSlots
  <2>2. FreeSlot \in Slot /\ FreeSlot.opencount = 0 /\ FreeSlot.handle = 0
    BY SemaConstants DEF FreeSlot, Slot
  <2>3. w \in Seq(Slot) /\ Len(w) = Len(t)
        /\ \A j \in 1..Len(t) : w[j] = IF j = i THEN FreeSlot ELSE t[j]
    BY <2>2
  <2>4. u \in SUBSET (1..Len(w))
    OBVIOUS
  <2>5. \A j \in 1..Len(t) : j # i /\ t[j].handle > 0 => j \in u
    BY <2>3
  <2> HIDE DEF w, u
  <2>6. /\ r \in Seq(Slot) /\ Len(r) <= Len(t)
        /\ \A j \in 1..Len(r) : r[j] = w[j]
        /\ \A j \in u : j <= Len(r)
    BY <2>1, <2>3, <2>4, TrimIs
  <2>7. Len(r) \in Nat /\ t[i].opencount = 1
    BY <2>6, <1>4, <1>0
  <2>8. \A j \in 1..Len(r) : j \in 1..Len(t) /\ (j # i => r[j] = t[j])
    BY <2>6, <2>7, <2>3, <1>0
  <2>9. i \in 1..Len(r) => r[i] = FreeSlot
    BY <2>6, <2>3
  <2>10. \A j \in 1..Len(t) : j # i /\ t[j].handle > 0 => j \in 1..Len(r)
    BY <2>5, <2>6, <2>7
  <2> QED BY <2>2, <2>6, <2>7, <2>8, <2>9, <2>10, <1>0, <1>4
<1> QED BY <1>3, <1>4

(* When every connection's table has each handle once and each open, what  *)
(* is left to prove of a step that changes the table of one connection.    *)
LEMMA TableStep ==
  ASSUME Inv, NEW c \in Conn, NEW r \in Seq(Slot), connSemas' = [connSemas EXCEPT ![c] = r],
         OneSlotEach(r), \A i \in 1..Len(r) : r[i].handle > 0 => r[i].opencount > 0
  PROVE  /\ connSemas' \in [Conn -> Seq(Slot)] /\ SlotsOpened'
         /\ \A d \in Conn : OneSlotEach(connSemas'[d])
         /\ connSemas'[c] = r /\ \A d \in Conn : d # c => connSemas'[d] = connSemas[d]
         /\ \A d \in Conn : \A h : d # c => OpensBy(d, h)' = OpensBy(d, h)
<1>1. connSemas \in [Conn -> Seq(Slot)]
  BY DEF Inv, TypeOK
<1>2. /\ connSemas' \in [Conn -> Seq(Slot)]
      /\ connSemas'[c] = r /\ \A d \in Conn : d # c => connSemas'[d] = connSemas[d]
  BY <1>1
<1>3. \A d \in Conn : OneSlotEach(connSemas[d])
  BY DEF Inv, NamesUnique, OneSlotEach
<1>4. \A d \in Conn : OneSlotEach(connSemas'[d])
  BY <1>2, <1>3
<1>5. SlotsOpened'
  BY <1>2 DEF Inv, SlotsOpened
<1>6. \A d \in Conn : \A h : d # c => OpensBy(d, h)' = OpensBy(d, h)
  BY <1>2 DEF OpensBy
<1> QED BY <1>2, <1>4, <1>5, <1>6

(* close_conn_sema and close_sema.                                         *)
LEMMA StepClose ==
  ASSUME Inv, NEW c \in Conn, NEW h \in Handle, CloseSemaphore(c, h)
  PROVE  Inv' /\ NamesKept
<1>t. PICK t : t = connSemas[c]
  OBVIOUS
<1>r. PICK r : r = close_conn_sema(t, h)
  OBVIOUS
<1>1. PICK i \in 1..Len(t) : t[i].handle = h
  BY <1>t DEF CloseSemaphore, Holds
<1>2. t \in Seq(Slot) /\ OneSlotEach(t) /\ t[i].opencount > 0 /\ h > 0
  <2>1. t \in Seq(Slot) /\ OneSlotEach(t)
    BY <1>t DEF Inv, TypeOK, NamesUnique, OneSlotEach
  <2>2. h > 0
    BY SemaConstants DEF Handle
  <2> QED BY <2>1, <2>2, <1>1, <1>t DEF Inv, SlotsOpened
<1>3. /\ semas' = close_sema(semas, h) /\ active' = active
      /\ connSemas' = [connSemas EXCEPT ![c] = r]
  BY <1>t, <1>r DEF CloseSemaphore
<1>4. /\ r \in Seq(Slot)
      /\ \A j \in 1..Len(r) : j \in 1..Len(t) /\ (j # i => r[j] = t[j])
      /\ \A j \in 1..Len(t) : j # i /\ t[j].handle > 0 => j \in 1..Len(r)
      /\ i \in 1..Len(r) =>
           /\ r[i].opencount = t[i].opencount - 1 /\ r[i].handle \in {0, h}
           /\ r[i].handle = h => r[i].opencount > 0
      /\ t[i].opencount > 1 => i \in 1..Len(r) /\ r[i].handle = h
  BY <1>1, <1>2, <1>r, CloseConnIs
<1>4a. \A j \in 1..Len(t) : t[j].handle = h => j = i
  BY <1>1, <1>2 DEF OneSlotEach
<1>4b. \A j \in 1..Len(t) : t[j].handle \in Nat /\ t[j].opencount \in Nat
  <2>1. \A j \in 1..Len(t) : t[j] \in Slot
    BY <1>2
  <2> QED BY <2>1, SemaConstants DEF Slot
<1>4c. \A j \in 1..Len(r) : j \in 1..Len(t) /\ r[j].handle \in {0, t[j].handle}
  BY <1>4, <1>1
<1>5. OneSlotEach(r)
  BY <1>4c, <1>2 DEF OneSlotEach
<1>6. \A j \in 1..Len(r) : r[j].handle > 0 => r[j].opencount > 0
  <2>1. \A j \in 1..Len(t) : t[j].handle > 0 => t[j].opencount > 0
    BY <1>t DEF Inv, SlotsOpened
  <2>2. ASSUME NEW j \in 1..Len(r), r[j].handle > 0 PROVE r[j].opencount > 0
    <3>1. CASE j = i
      BY <3>1, <2>2, <1>4
    <3>2. CASE j # i
      BY <3>2, <2>1, <2>2, <1>4
    <3> QED BY <3>1, <3>2
  <2> QED BY <2>2
<1>7. /\ connSemas' \in [Conn -> Seq(Slot)] /\ SlotsOpened'
      /\ \A d \in Conn : OneSlotEach(connSemas'[d])
      /\ connSemas'[c] = r /\ \A d \in Conn : d # c => connSemas'[d] = connSemas[d]
      /\ \A d \in Conn : \A g : d # c => OpensBy(d, g)' = OpensBy(d, g)
  BY <1>3, <1>4, <1>5, <1>6, TableStep
<1>8. /\ semas' \in Seq(Sema) /\ Len(semas') <= Len(semas)
      /\ \A j : IsSema(semas', j) => IsSema(semas, j) /\ semas'[j].name = semas[j].name
      /\ \A j : j # h /\ IsSema(semas, j) =>
              IsSema(semas', j) /\ semas'[j].opencount = semas[j].opencount
      /\ IsSema(semas, h) /\ semas[h].opencount > 1 =>
              IsSema(semas', h) /\ semas'[h].opencount = semas[h].opencount - 1
  <2>1. semas \in Seq(Sema)
    BY DEF Inv, TypeOK
  <2>2. /\ close_sema(semas, h) \in Seq(Sema) /\ Len(close_sema(semas, h)) <= Len(semas)
        /\ \A j : IsSema(close_sema(semas, h), j) =>
                    IsSema(semas, j) /\ close_sema(semas, h)[j].name = semas[j].name
        /\ \A j : j # h /\ IsSema(semas, j) =>
                    /\ IsSema(close_sema(semas, h), j)
                    /\ close_sema(semas, h)[j].opencount = semas[j].opencount
        /\ IsSema(semas, h) /\ semas[h].opencount > 1 =>
                    /\ IsSema(close_sema(semas, h), h)
                    /\ close_sema(semas, h)[h].opencount = semas[h].opencount - 1
    BY <2>1, CloseIs
  <2> QED BY <2>2, <1>3
<1>9. TypeOK'
  BY <1>3, <1>7, <1>8, SemaConstants DEF Inv, TypeOK
<1>10. NamesUnique'
  <2>1. \A j \in 1..Len(semas') : IsSema(semas', j) =>
          j \in 1..Len(semas) /\ IsSema(semas, j) /\ semas'[j].name = semas[j].name
    BY <1>8 DEF IsSema
  <2> QED BY <2>1, <1>7 DEF Inv, NamesUnique, OneSlotEach
<1>11. ASSUME NEW g \in Handle, g # h PROVE Covered(g)'
  <2>1. OpensBy(c, g)' = OpensBy(c, g)
    <3>1. g > 0
      BY SemaConstants DEF Handle
    <3>2. \A j : (j \in 1..Len(r) /\ r[j].handle = g) <=> (j \in 1..Len(t) /\ t[j].handle = g)
      <4>1. ASSUME NEW j \in 1..Len(r), r[j].handle = g PROVE j \in 1..Len(t) /\ t[j].handle = g
        BY <3>1, <1>4, <1>1, <1>11, <4>1
      <4>2. ASSUME NEW j \in 1..Len(t), t[j].handle = g PROVE j \in 1..Len(r) /\ r[j].handle = g
        BY <3>1, <1>4, <1>1, <1>11, <4>2
      <4> QED BY <4>1, <4>2
    <3>3. \A j \in 1..Len(r) : r[j].handle = g => r[j] = t[j]
      <4>1. ASSUME NEW j \in 1..Len(r), r[j].handle = g PROVE j # i
        BY <3>1, <1>4, <1>11, <4>1
      <4> QED BY <4>1, <1>4
    <3>4. \A o : o \in OpensBy(c, g) <=> \E j \in 1..Len(t) : t[j].handle = g
                                       /\ \E k \in 1..t[j].opencount : o = <<c, j, k>>
      BY <1>t, InOpensBy
    <3>5. \A o : o \in OpensBy(c, g)' <=> \E j \in 1..Len(r) : r[j].handle = g
                                        /\ \E k \in 1..r[j].opencount : o = <<c, j, k>>
      <4>1. connSemas'[c] = r
        BY <1>7
      <4> QED BY <4>1 DEF OpensBy
    <3> QED BY <3>2, <3>3, <3>4, <3>5
  <2>2. Opens(g)' = Opens(g)
    BY <2>1, <1>7 DEF Opens
  <2> QED BY <2>2, <1>8, <1>11 DEF Inv, Covered
<1>12. Covered(h)'
  <2> DEFINE x == <<c, i, t[i].opencount>>
  <2>1. x \in OpensBy(c, h)
    BY <1>1, <1>2, <1>4b, <1>t, InOpensBy
  <2>2. OpensBy(c, h)' = OpensBy(c, h) \ {x}
    <3>1. \A o : o \in OpensBy(c, h) <=> \E k \in 1..t[i].opencount : o = <<c, i, k>>
      BY <1>1, <1>4a, <1>t, InOpensBy
    <3>2. \A o : o \in OpensBy(c, h)' <=> \E j \in 1..Len(r) : r[j].handle = h
                                        /\ \E k \in 1..r[j].opencount : o = <<c, j, k>>
      <4>1. connSemas'[c] = r
        BY <1>7
      <4> QED BY <4>1 DEF OpensBy
    <3>3. \A j \in 1..Len(r) : r[j].handle = h => j = i
      BY <1>4, <1>4a
    <3>4. \A o : o \in OpensBy(c, h)' <=> \E k \in 1..(t[i].opencount - 1) : o = <<c, i, k>>
      <4>1. CASE t[i].opencount > 1
        <5>1. i \in 1..Len(r) /\ r[i].handle = h /\ r[i].opencount = t[i].opencount - 1
          BY <4>1, <1>4
        <5> QED BY <5>1, <3>2, <3>3
      <4>2. CASE ~(t[i].opencount > 1)
        <5>1. t[i].opencount = 1
          BY <4>2, <1>2, <1>1, <1>4b
        <5>2. ~(i \in 1..Len(r) /\ r[i].handle = h)
          <6> SUFFICES ASSUME i \in 1..Len(r), r[i].handle = h PROVE FALSE
            OBVIOUS
          <6>1. r[i].opencount = t[i].opencount - 1 /\ r[i].opencount > 0
            BY <1>4
          <6> QED BY <6>1, <5>1
        <5>3. \A o : o \notin OpensBy(c, h)'
          BY <5>2, <3>2, <3>3
        <5> QED BY <5>1, <5>3
      <4> QED BY <4>1, <4>2
    <3>5. \A k \in 1..t[i].opencount : k # t[i].opencount <=> k \in 1..(t[i].opencount - 1)
      BY <1>4b, <1>1
    <3> QED BY <3>1, <3>4, <3>5, <1>4b, <1>1
  <2>3. \A d \in Conn \ {c} : x \notin OpensBy(d, h)
    BY InOpensBy
  <2>4. Opens(h)' = Opens(h) \ {x} /\ x \in Opens(h)
    <3>1. \A o : o \in Opens(h) <=> \E d \in Conn : o \in OpensBy(d, h)
      BY DEF Opens
    <3>2. \A o : o \in Opens(h)' <=> \E d \in Conn : o \in OpensBy(d, h)'
      BY DEF Opens
    <3>3. \A d \in Conn : OpensBy(d, h)' = OpensBy(d, h) \ {x}
      BY <2>2, <2>3, <1>7
    <3> HIDE DEF x
    <3> QED BY <3>1, <3>2, <3>3, <2>1
  <2> HIDE DEF x
  <2>5. IsFiniteSet(Opens(h)) /\ IsSema(semas, h)
        /\ semas[h].opencount >= Cardinality(Opens(h))
    BY <2>4 DEF Inv, Covered
  <2>6. IsFiniteSet(Opens(h)') /\ Cardinality(Opens(h)') = Cardinality(Opens(h)) - 1
    BY <2>4, <2>5, FS_RemoveElement
  <2>7. /\ Cardinality(Opens(h)) \in Nat /\ Cardinality(Opens(h)') \in Nat
        /\ Opens(h)' # {} => Cardinality(Opens(h)') # 0
    BY <2>5, <2>6, FS_CardinalityType, FS_EmptySet
  <2>8. semas[h].opencount \in Nat
    <3>1. semas[h] \in Sema
      BY <2>5 DEF IsSema, Inv, TypeOK
    <3> QED BY <3>1 DEF Sema
  <2>9. ASSUME Opens(h)' # {} PROVE IsSema(semas', h) /\ semas'[h].opencount >= Cardinality(Opens(h)')
    <3>1. semas[h].opencount > 1
      BY <2>5, <2>6, <2>7, <2>8, <2>9
    <3>2. IsSema(semas', h) /\ semas'[h].opencount = semas[h].opencount - 1
      BY <3>1, <2>5, <1>8
    <3> QED BY <3>2, <2>5, <2>6, <2>7, <2>8
  <2> QED BY <2>6, <2>9 DEF Covered
<1>13. NamesKept
  BY <1>8 DEF NamesKept
<1> QED BY <1>9, <1>7, <1>10, <1>11, <1>12, <1>13 DEF Inv

(* What opening a name does to the global table: its live slot counts one  *)
(* more, or a free slot becomes its, or the table is full.                 *)
LEMMA OpenIs ==
  ASSUME Inv, NEW n \in Name, NEW v \in InitValues,
         NEW g, g = open_sema(semas, n, v)[1],
         NEW s, s = open_sema(semas, n, v)[2]
  PROVE  \/ g = 0 /\ s = semas
         \/ /\ g \in Handle /\ s \in Seq(Sema) /\ Len(s) <= MaxSemas
            /\ IsSema(s, g) /\ s[g].name = n
            /\ \A j : j # g => /\ IsSema(s, j) <=> IsSema(semas, j)
                               /\ IsSema(s, j) => s[j] = semas[j]
            /\ IsSema(semas, g) => /\ semas[g].name = n
                                   /\ s[g].opencount = semas[g].opencount + 1
            /\ ~IsSema(semas, g) => /\ s[g].opencount = 1
                                    /\ \A j : IsSema(semas, j) => semas[j].name # n
<1> DEFINE same == FindSema(semas, n)
           free == {i \in 1..Len(semas) : ~IsSema(semas, i)}
           slot == SlotFor(free, Len(semas))
<1>1. semas \in Seq(Sema) /\ Len(semas) <= MaxSemas /\ Len(semas) \in Nat
  BY DEF Inv, TypeOK
<1>2. MaxSemas \in Nat /\ v \in Nat
  BY SemaConstants
<1>3. \A j \in 1..Len(semas) : semas[j] \in Sema
  BY <1>1
<1>4. CASE same # {}
  <2>1. same \in SUBSET Nat
    BY DEF FindSema
  <2>2. Min(same) \in same
    BY <2>1, <1>4, MinIs
  <2>3. g = Min(same) /\ s = [semas EXCEPT ![g].opencount = @ + 1]
    BY <1>4 DEF open_sema
  <2>4. g \in 1..Len(semas) /\ IsSema(semas, g) /\ semas[g].name = n
    BY <2>2, <2>3 DEF FindSema
  <2>5. PICK w \in Sema : w = semas[g]
    BY <1>3, <2>4
  <2>6. w.opencount \in Nat /\ w.opencount + 1 \in Nat
    BY DEF Sema
  <2>7. PICK e \in Sema : /\ e = [w EXCEPT !.opencount = w.opencount + 1]
                          /\ e.opencount = w.opencount + 1 /\ e.name = w.name
    <3>1. PICK u \in Nat : u = w.opencount + 1
      BY <2>6
    <3>2. /\ [w EXCEPT !.opencount = u] \in Sema
          /\ [w EXCEPT !.opencount = u].opencount = u
          /\ [w EXCEPT !.opencount = u].name = w.name
      BY DEF Sema
    <3> QED BY <3>1, <3>2
  <2>8. s = [semas EXCEPT ![g] = e]
    BY <2>3, <2>5, <2>7
  <2>9. /\ s \in Seq(Sema) /\ Len(s) = Len(semas)
        /\ \A j \in 1..Len(semas) : s[j] = IF j = g THEN e ELSE semas[j]
    BY <2>8, <1>1, <2>4
  <2>10. g \in Handle
    BY <1>1, <1>2, <2>4 DEF Handle
  <2>11. e.name = n /\ e.opencount = semas[g].opencount + 1 /\ e.opencount > 0
    BY <2>4, <2>5, <2>6, <2>7
  <2>12. IsSema(s, g) /\ s[g].name = n /\ s[g].opencount = semas[g].opencount + 1
    BY <2>4, <2>9, <2>11 DEF IsSema
  <2>13. \A j : j # g => /\ IsSema(s, j) <=> IsSema(semas, j)
                         /\ IsSema(s, j) => s[j] = semas[j]
    BY <2>9 DEF IsSema
  <2> QED BY <2>4, <2>9, <2>10, <2>12, <2>13, <1>1
<1>5. CASE same = {} /\ slot > MaxSemas
  BY <1>5 DEF open_sema
<1>6. CASE same = {} /\ ~(slot > MaxSemas)
  <2>1. PICK e \in Sema : e = [name |-> n, opencount |-> 1, value |-> v]
    BY <1>2 DEF Sema
  <2>2. g = slot /\ s = Store(semas, slot, e)
    BY <1>6, <2>1 DEF open_sema
  <2>3. free \in SUBSET (1..Len(semas))
    OBVIOUS
  <2>4. g \in 1..Len(semas)+1 /\ (g \in 1..Len(semas) => g \in free)
    BY <2>2, <2>3, <1>1, SlotIs
  <2>5. ~IsSema(semas, g)
    BY <2>4, <1>1 DEF IsSema
  <2>6. g \in Handle
    BY <2>4, <2>2, <1>6, <1>2, <1>1 DEF Handle
  <2> HIDE DEF free, slot
  <2>7. /\ s \in Seq(Sema) /\ Len(s) \in {Len(semas), g} /\ Len(semas) <= Len(s) /\ g <= Len(s)
        /\ s[g] = e /\ \A i \in 1..Len(semas) : i # g => s[i] = semas[i]
        /\ \A i \in 1..Len(s) : i # g => i \in 1..Len(semas)
    <3>1. /\ Store(semas, g, e) \in Seq(Sema)
          /\ Len(Store(semas, g, e)) \in {Len(semas), g}
          /\ Len(semas) <= Len(Store(semas, g, e)) /\ g <= Len(Store(semas, g, e))
          /\ Store(semas, g, e)[g] = e
          /\ \A i \in 1..Len(semas) : i # g => Store(semas, g, e)[i] = semas[i]
          /\ \A i \in 1..Len(Store(semas, g, e)) : i # g => i \in 1..Len(semas)
      <4>1. PICK t \in Seq(Sema) : t = semas
        BY <1>1
      <4>2. PICK k \in 1..Len(t)+1 : k = g
        BY <2>4, <4>1
      <4>3. /\ Store(t, k, e) \in Seq(Sema)
            /\ Len(Store(t, k, e)) \in {Len(t), k}
            /\ Len(t) <= Len(Store(t, k, e)) /\ k <= Len(Store(t, k, e))
            /\ Store(t, k, e)[k] = e
            /\ \A i \in 1..Len(t) : i # k => Store(t, k, e)[i] = t[i]
            /\ \A i \in 1..Len(Store(t, k, e)) : i # k => i \in 1..Len(t)
        BY StoreIs
      <4> QED BY <4>1, <4>2, <4>3
    <3>2. s = Store(semas, g, e)
      BY <2>2
    <3> QED BY <3>1, <3>2
  <2>8. Len(s) <= MaxSemas /\ Len(s) \in Nat /\ g \in 1..Len(s)
    BY <2>7, <2>6, <1>1, <1>2 DEF Handle
  <2>9. IsSema(s, g) /\ s[g].name = n /\ s[g].opencount = 1
    BY <2>7, <2>8, <2>1 DEF IsSema
  <2>10. ASSUME NEW j, j # g
         PROVE  (IsSema(s, j) <=> IsSema(semas, j)) /\ (IsSema(s, j) => s[j] = semas[j])
    <3>1. j \in 1..Len(s) <=> j \in 1..Len(semas)
      BY <2>7, <2>8, <1>1, <2>10
    <3>2. j \in 1..Len(s) => s[j] = semas[j]
      BY <3>1, <2>7, <2>10
    <3> QED BY <3>1, <3>2 DEF IsSema
  <2>11. \A j : IsSema(semas, j) => semas[j].name # n
    BY <1>6 DEF FindSema, IsSema
  <2> QED BY <2>5, <2>6, <2>7, <2>8, <2>9, <2>10, <2>11
<1> QED BY <1>4, <1>5, <1>6

(* What counting an open of handle g does to the connection's table: slot  *)
(* i, the one of the handle or a free one, has one open more.              *)
LEMMA OpenConnIs ==
  ASSUME NEW t \in Seq(Slot), OneSlotEach(t), NEW g \in Handle,
         NEW r, r = open_conn_sema(t, g)[2], open_conn_sema(t, g)[1]
  PROVE  \E i \in 1..Len(r) :
           /\ r \in Seq(Slot) /\ r[i].handle = g
           /\ \A j \in 1..Len(r) : j # i => j \in 1..Len(t) /\ r[j] = t[j]
           /\ \A j \in 1..Len(t) : j # i => j \in 1..Len(r) /\ r[j].handle # g
           /\ \/ /\ i \in 1..Len(t) /\ t[i].handle = g
                 /\ r[i].opencount = t[i].opencount + 1
              \/ /\ i \in 1..Len(t) => t[i].handle = 0
                 /\ r[i].opencount = 1
<1> DEFINE same == {i \in 1..Len(t) : t[i].handle = g}
           free == {i \in 1..Len(t) : t[i].handle = 0}
           slot == SlotFor(free, Len(t))
<1>0. /\ \A j \in 1..Len(t) : t[j] \in Slot /\ t[j].opencount \in Nat /\ t[j].handle \in Nat
      /\ g > 0 /\ g \in 0..MaxSemas /\ Len(t) \in Nat
  <2>1. \A j \in 1..Len(t) : t[j] \in Slot
    OBVIOUS
  <2> QED BY <2>1, SemaConstants DEF Slot, Handle
<1>1. CASE same # {}
  <2>1. same \in SUBSET (0..Len(t))
    OBVIOUS
  <2>2. PICK i : i = Max(same)
    OBVIOUS
  <2>3. i \in 1..Len(t) /\ t[i].handle = g
    BY <2>1, <2>2, <1>0, <1>1, MaxIs
  <2>4. r = [t EXCEPT ![i].opencount = @ + 1]
    BY <1>1, <2>2 DEF open_conn_sema
  <2>5. PICK w \in Slot : w = t[i]
    BY <2>3, <1>0
  <2>6. w.opencount + 1 \in Nat
    BY DEF Slot
  <2>7. PICK e \in Slot : /\ e = [w EXCEPT !.opencount = w.opencount + 1]
                          /\ e.opencount = w.opencount + 1 /\ e.handle = w.handle
    <3>1. PICK u \in Nat : u = w.opencount + 1
      BY <2>6
    <3>2. /\ [w EXCEPT !.opencount = u] \in Slot
          /\ [w EXCEPT !.opencount = u].opencount = u
          /\ [w EXCEPT !.opencount = u].handle = w.handle
      BY DEF Slot
    <3> QED BY <3>1, <3>2
  <2>8. r = [t EXCEPT ![i] = e]
    BY <2>4, <2>5, <2>7
  <2>9. /\ r \in Seq(Slot) /\ Len(r) = Len(t)
        /\ \A j \in 1..Len(t) : r[j] = IF j = i THEN e ELSE t[j]
    BY <2>8, <2>3
  <2>10. \A j \in 1..Len(t) : j # i => t[j].handle # g
    BY <1>0, <2>3 DEF OneSlotEach
  <2> HIDE DEF same
  <2>11. \A j \in 1..Len(r) : j # i => j \in 1..Len(t) /\ r[j] = t[j]
    BY <2>9
  <2>12. \A j \in 1..Len(t) : j # i => j \in 1..Len(r) /\ r[j].handle # g
    BY <2>9, <2>10
  <2>13. i \in 1..Len(r) /\ r[i].handle = g /\ r[i].opencount = t[i].opencount + 1
    BY <2>3, <2>5, <2>7, <2>9
  <2> QED BY <2>3, <2>9, <2>11, <2>12, <2>13
<1>2. CASE same = {}
  <2>1. PICK e \in Slot : e = [handle |-> g, opencount |-> 1]
    BY <1>0 DEF Slot
  <2>2. PICK i : i = slot
    OBVIOUS
  <2>3. r = Store(t, i, e)
    BY <1>2, <2>1, <2>2 DEF open_conn_sema
  <2>4. free \in SUBSET (1..Len(t))
    OBVIOUS
  <2>5. i \in 1..Len(t)+1 /\ (i \in 1..Len(t) => i \in free)
    BY <2>2, <2>4, <1>0, SlotIs
  <2>6. i \in 1..Len(t) => t[i].handle = 0
    BY <2>5
  <2>7. \A j \in 1..Len(t) : t[j].handle # g
    BY <1>2
  <2> HIDE DEF same, free, slot
  <2>8. /\ r \in Seq(Slot) /\ Len(t) <= Len(r) /\ i <= Len(r) /\ r[i] = e
        /\ \A j \in 1..Len(t) : j # i => r[j] = t[j]
        /\ \A j \in 1..Len(r) : j # i => j \in 1..Len(t)
    <3>1. /\ Store(t, i, e) \in Seq(Slot)
          /\ Len(Store(t, i, e)) \in {Len(t), i}
          /\ Len(t) <= Len(Store(t, i, e)) /\ i <= Len(Store(t, i, e))
          /\ Store(t, i, e)[i] = e
          /\ \A j \in 1..Len(t) : j # i => Store(t, i, e)[j] = t[j]
          /\ \A j \in 1..Len(Store(t, i, e)) : j # i => j \in 1..Len(t)
      BY <2>5, StoreIs
    <3> QED BY <3>1, <2>3
  <2>9. i \in 1..Len(r) /\ Len(r) \in Nat
    BY <2>8, <2>5, <1>0
  <2>10. \A j \in 1..Len(t) : j # i => j \in 1..Len(r) /\ r[j].handle # g
    BY <2>7, <2>8, <2>9, <1>0
  <2> QED BY <2>1, <2>6, <2>8, <2>9, <2>10
<1> QED BY <1>1, <1>2

(* open_sema and open_conn_sema, whose failure leaves the count one higher.*)
LEMMA StepOpen ==
  ASSUME Inv, NEW c \in Conn, NEW n \in Name, NEW v \in InitValues, OpenSemaphore(c, n, v)
  PROVE  Inv' /\ NamesKept
<1>1. PICK g : g = open_sema(semas, n, v)[1]
  OBVIOUS
<1>2. PICK t : t = connSemas[c]
  OBVIOUS
<1>3. PICK r : r = open_conn_sema(t, g)[2]
  OBVIOUS
<1>4. active' = active /\ semas' = open_sema(semas, n, v)[2]
  BY DEF OpenSemaphore
<1>5. \/ g = 0 /\ semas' = semas
      \/ /\ g \in Handle /\ semas' \in Seq(Sema) /\ Len(semas') <= MaxSemas
         /\ IsSema(semas', g) /\ semas'[g].name = n
         /\ \A j : j # g => /\ IsSema(semas', j) <=> IsSema(semas, j)
                            /\ IsSema(semas', j) => semas'[j] = semas[j]
         /\ IsSema(semas, g) => /\ semas[g].name = n
                                /\ semas'[g].opencount = semas[g].opencount + 1
         /\ ~IsSema(semas, g) => /\ semas'[g].opencount = 1
                                 /\ \A j : IsSema(semas, j) => semas[j].name # n
  <2>1. PICK s : s = open_sema(semas, n, v)[2]
    OBVIOUS
  <2> QED BY <2>1, <1>1, <1>4, OpenIs
<1>6. t \in Seq(Slot) /\ OneSlotEach(t) /\ connSemas \in [Conn -> Seq(Slot)]
  BY <1>2 DEF Inv, TypeOK, NamesUnique, OneSlotEach
<1>7. CASE g = 0 /\ semas' = semas
  <2>1. connSemas' = connSemas
    BY <1>1, <1>7 DEF OpenSemaphore
  <2> QED BY <2>1, <1>4, <1>7, SameCounts DEF Inv, TypeOK
<1>8. CASE /\ g \in Handle /\ semas' \in Seq(Sema) /\ Len(semas') <= MaxSemas
           /\ IsSema(semas', g) /\ semas'[g].name = n
           /\ \A j : j # g => /\ IsSema(semas', j) <=> IsSema(semas, j)
                              /\ IsSema(semas', j) => semas'[j] = semas[j]
           /\ IsSema(semas, g) => /\ semas[g].name = n
                                  /\ semas'[g].opencount = semas[g].opencount + 1
           /\ ~IsSema(semas, g) => /\ semas'[g].opencount = 1
                                   /\ \A j : IsSema(semas, j) => semas[j].name # n
  <2>0. g > 0
    BY <1>8, SemaConstants DEF Handle
  <2>1. \A j, k : IsSema(semas', j) /\ IsSema(semas', k) /\ semas'[j].name = semas'[k].name
          => j = k
    <3>1. \A j, k : IsSema(semas, j) /\ IsSema(semas, k) /\ semas[j].name = semas[k].name
            => j = k
      BY DEF Inv, NamesUnique, IsSema
    <3>2. ASSUME NEW j, IsSema(semas', j), semas'[j].name = n PROVE j = g
      <4>1. SUFFICES ASSUME j # g PROVE FALSE
        OBVIOUS
      <4>2. IsSema(semas, j) /\ semas[j].name = n
        BY <1>8, <3>2, <4>1
      <4>3. CASE IsSema(semas, g)
        BY <4>3, <4>2, <4>1, <3>1, <1>8
      <4>4. CASE ~IsSema(semas, g)
        BY <4>4, <4>2, <1>8
      <4> QED BY <4>3, <4>4
    <3>3. \A j : IsSema(semas', j) /\ semas'[j].name # n =>
             IsSema(semas, j) /\ semas'[j].name = semas[j].name
      BY <1>8
    <3> QED BY <3>1, <3>2, <3>3
  <2>2. NamesKept
    BY <1>8 DEF NamesKept
  <2>3. \A h : h \in 1..Len(semas) => semas[h].opencount \in Nat
    <3>1. \A h \in 1..Len(semas) : semas[h] \in Sema
      BY DEF Inv, TypeOK
    <3> QED BY <3>1 DEF Sema
  <2>3a. IsFiniteSet(Opens(g)) /\ (Opens(g) # {} =>
           IsSema(semas, g) /\ semas[g].opencount >= Cardinality(Opens(g)))
         /\ Cardinality(Opens(g)) \in Nat
    BY <1>8, FS_CardinalityType DEF Inv, Covered
  <2>4. semas'[g].opencount > Cardinality(Opens(g))
    <3>1. CASE IsSema(semas, g)
      <4>1. semas[g].opencount \in Nat /\ semas[g].opencount > 0
        BY <3>1, <2>3 DEF IsSema
      <4>2. CASE Opens(g) = {}
        BY <4>1, <4>2, <3>1, <1>8, FS_EmptySet
      <4>3. CASE Opens(g) # {}
        BY <4>1, <4>3, <3>1, <1>8, <2>3a
      <4> QED BY <4>2, <4>3
    <3>2. CASE ~IsSema(semas, g)
      <4>1. Opens(g) = {}
        BY <3>2, <2>3a
      <4> QED BY <4>1, <3>2, <1>8, FS_EmptySet
    <3> QED BY <3>1, <3>2
  <2>5. \A h \in Handle : h # g /\ Opens(h)' = Opens(h) => Covered(h)'
    <3>1. ASSUME NEW h \in Handle, h # g, Opens(h)' = Opens(h) PROVE Covered(h)'
      <4>1. IsSema(semas, h) => IsSema(semas', h) /\ semas'[h] = semas[h]
        BY <3>1, <1>8
      <4>2. IsFiniteSet(Opens(h)) /\ (Opens(h) # {} =>
              IsSema(semas, h) /\ semas[h].opencount >= Cardinality(Opens(h)))
        BY DEF Inv, Covered
      <4> QED BY <4>1, <4>2, <3>1 DEF Covered
    <3> QED BY <3>1
  <2>5a. semas'[g].opencount \in Nat
    <3>1. semas'[g] \in Sema
      BY <1>8 DEF IsSema
    <3> QED BY <3>1 DEF Sema
  <2>6. CASE ~open_conn_sema(t, g)[1]
    <3>1. connSemas' = connSemas
      BY <1>1, <1>2, <2>6 DEF OpenSemaphore
    <3>2. \A h : Opens(h)' = Opens(h)
      BY <3>1, SameOpens
    <3>3. Covered(g)'
      BY <3>2, <2>3a, <2>4, <2>5a, <1>8 DEF Covered
    <3>4. TypeOK' /\ SlotsOpened' /\ NamesUnique'
      BY <3>1, <1>4, <1>8, <2>1 DEF Inv, TypeOK, SlotsOpened, NamesUnique
    <3> QED BY <3>2, <3>3, <3>4, <2>5, <2>2 DEF Inv
  <2>7. CASE open_conn_sema(t, g)[1]
    <3>1. connSemas' = [connSemas EXCEPT ![c] = r]
      BY <1>1, <1>2, <1>3, <2>0, <2>7 DEF OpenSemaphore
    <3>2. PICK i \in 1..Len(r) :
            /\ r \in Seq(Slot) /\ r[i].handle = g
            /\ \A j \in 1..Len(r) : j # i => j \in 1..Len(t) /\ r[j] = t[j]
            /\ \A j \in 1..Len(t) : j # i => j \in 1..Len(r) /\ r[j].handle # g
            /\ \/ /\ i \in 1..Len(t) /\ t[i].handle = g
                  /\ r[i].opencount = t[i].opencount + 1
               \/ /\ i \in 1..Len(t) => t[i].handle = 0
                  /\ r[i].opencount = 1
      <4>1. t \in Seq(Slot)
        BY <1>6
      <4>2. OneSlotEach(t)
        BY <1>6
      <4>3. g \in Handle
        BY <1>8
      <4> QED BY <4>1, <4>2, <4>3, <1>3, <2>7, OpenConnIs, SMTT(30)
    <3>3. \A j \in 1..Len(t) : t[j].handle \in Nat /\ t[j].opencount \in Nat
      <4>1. \A j \in 1..Len(t) : t[j] \in Slot
        BY <1>6
      <4> QED BY <4>1, SemaConstants DEF Slot
    <3>4. OneSlotEach(r)
      <4>1. \A j \in 1..Len(r) : j # i => r[j].handle # g
        BY <3>2
      <4>2. \A j, k \in 1..Len(r) : j # i /\ k # i =>
               j \in 1..Len(t) /\ k \in 1..Len(t) /\ r[j] = t[j] /\ r[k] = t[k]
        BY <3>2
      <4>3. ASSUME NEW j \in 1..Len(r), NEW k \in 1..Len(r),
                   r[j].handle = r[k].handle, r[j].handle > 0
            PROVE  j = k
        <5>1. CASE j = i \/ k = i
          BY <5>1, <4>1, <4>3, <3>2
        <5>2. CASE j # i /\ k # i
          BY <5>2, <4>2, <4>3, <1>6 DEF OneSlotEach
        <5> QED BY <5>1, <5>2
      <4> QED BY <4>3 DEF OneSlotEach
    <3>5. \A j \in 1..Len(r) : r[j].handle > 0 => r[j].opencount > 0
      <4>1. \A j \in 1..Len(t) : t[j].handle > 0 => t[j].opencount > 0
        BY <1>2 DEF Inv, SlotsOpened
      <4>2. r[i].opencount > 0
        BY <3>2, <3>3
      <4>3. \A j \in 1..Len(r) : j # i => (r[j].handle > 0 => r[j].opencount > 0)
        BY <4>1, <3>2
      <4> QED BY <4>2, <4>3
    <3>6. /\ connSemas' \in [Conn -> Seq(Slot)] /\ SlotsOpened'
          /\ \A d \in Conn : OneSlotEach(connSemas'[d])
          /\ connSemas'[c] = r /\ \A d \in Conn : d # c => connSemas'[d] = connSemas[d]
          /\ \A d \in Conn : \A h : d # c => OpensBy(d, h)' = OpensBy(d, h)
      BY <3>1, <3>2, <3>4, <3>5, TableStep
    <3>7. \A h, o : o \in OpensBy(c, h) <=> \E j \in 1..Len(t) : t[j].handle = h
                                        /\ \E k \in 1..t[j].opencount : o = <<c, j, k>>
      BY <1>2, InOpensBy
    <3>8. \A h, o : o \in OpensBy(c, h)' <=> \E j \in 1..Len(r) : r[j].handle = h
                                         /\ \E k \in 1..r[j].opencount : o = <<c, j, k>>
      BY <3>6 DEF OpensBy
    <3>9. ASSUME NEW h \in Handle, h # g PROVE OpensBy(c, h)' = OpensBy(c, h)
      <4>1. h > 0
        BY SemaConstants DEF Handle
      <4>2. \A j \in 1..Len(r) : r[j].handle = h => j # i /\ j \in 1..Len(t) /\ r[j] = t[j]
        BY <3>2, <3>9
      <4>3. \A j \in 1..Len(t) : t[j].handle = h => j # i
        BY <3>2, <3>9, <4>1
      <4>4. \A j \in 1..Len(t) : t[j].handle = h => j \in 1..Len(r) /\ r[j] = t[j]
        BY <4>3, <3>2
      <4>5. \A o : o \in OpensBy(c, h)' <=> o \in OpensBy(c, h)
        <5>1. ASSUME NEW o, o \in OpensBy(c, h) PROVE o \in OpensBy(c, h)'
          <6>1. PICK j \in 1..Len(t) : t[j].handle = h
                                     /\ \E k \in 1..t[j].opencount : o = <<c, j, k>>
            BY <5>1, <3>7
          <6>2. j \in 1..Len(r) /\ r[j] = t[j]
            BY <6>1, <4>4
          <6> QED BY <6>1, <6>2, <3>8
        <5>2. ASSUME NEW o, o \in OpensBy(c, h)' PROVE o \in OpensBy(c, h)
          <6>1. PICK j \in 1..Len(r) : r[j].handle = h
                                     /\ \E k \in 1..r[j].opencount : o = <<c, j, k>>
            BY <5>2, <3>8
          <6>2. j \in 1..Len(t) /\ r[j] = t[j]
            BY <6>1, <4>2
          <6> QED BY <6>1, <6>2, <3>7
        <5> QED BY <5>1, <5>2
      <4> QED BY <4>5
    <3>10. PICK x : x = <<c, i, r[i].opencount>>
      OBVIOUS
    <3>11. OpensBy(c, g)' = OpensBy(c, g) \union {x}
      <4>1. \A o : o \in OpensBy(c, g)' <=> \E k \in 1..r[i].opencount : o = <<c, i, k>>
        <5>1. \A j \in 1..Len(r) : r[j].handle = g => j = i
          BY <3>2
        <5> QED BY <5>1, <3>2, <3>8
      <4>2. CASE i \in 1..Len(t) /\ t[i].handle = g /\ r[i].opencount = t[i].opencount + 1
        <5>1. \A j \in 1..Len(t) : t[j].handle = g => j = i
          BY <4>2, <1>6, <2>0 DEF OneSlotEach
        <5>2. \A o : o \in OpensBy(c, g) <=> \E k \in 1..t[i].opencount : o = <<c, i, k>>
          BY <5>1, <4>2, <3>7
        <5>3. 1..r[i].opencount = (1..t[i].opencount) \union {r[i].opencount}
          BY <4>2, <3>3
        <5> QED BY <5>2, <5>3, <4>1, <3>10
      <4>3. CASE (i \in 1..Len(t) => t[i].handle = 0) /\ r[i].opencount = 1
        <5>1. \A j \in 1..Len(t) : t[j].handle # g
          BY <4>3, <3>2, <2>0
        <5>2. \A o : o \notin OpensBy(c, g)
          BY <5>1, <3>7
        <5>3. 1..r[i].opencount = {r[i].opencount}
          BY <4>3
        <5> QED BY <5>2, <5>3, <4>1, <3>10
      <4> QED BY <4>2, <4>3, <3>2
    <3>12. \A h, o : o \in Opens(h) <=> \E d \in Conn : o \in OpensBy(d, h)
      BY DEF Opens
    <3>13. \A h, o : o \in Opens(h)' <=> \E d \in Conn : o \in OpensBy(d, h)'
      BY DEF Opens
    <3>14. \A h \in Handle : h # g => Opens(h)' = Opens(h)
      <4>1. ASSUME NEW h \in Handle, h # g PROVE \A d \in Conn : OpensBy(d, h)' = OpensBy(d, h)
        BY <3>6, <3>9, <4>1
      <4> QED BY <4>1 DEF Opens
    <3>15. Opens(g)' = Opens(g) \union {x}
      BY <3>6, <3>11, <3>12, <3>13
    <3>16. IsFiniteSet(Opens(g)') /\ Cardinality(Opens(g)') <= Cardinality(Opens(g)) + 1
      <4>1. /\ IsFiniteSet(Opens(g) \union {x})
            /\ Cardinality(Opens(g) \union {x}) =
                 IF x \in Opens(g) THEN Cardinality(Opens(g)) ELSE Cardinality(Opens(g)) + 1
        BY <2>3a, FS_AddElement
      <4> QED BY <4>1, <3>15, <2>3a
    <3>17. Cardinality(Opens(g)') \in Nat
      BY <3>16, FS_CardinalityType
    <3>18. Covered(g)'
      <4>1. semas'[g].opencount >= Cardinality(Opens(g)')
        BY <3>16, <3>17, <2>3a, <2>4, <2>5a
      <4> QED BY <4>1, <3>16, <1>8 DEF Covered
    <3>19. TypeOK'
      BY <3>6, <1>4, <1>8 DEF Inv, TypeOK
    <3>20. NamesUnique'
      BY <3>6, <2>1 DEF NamesUnique, OneSlotEach
    <3> QED BY <3>6, <3>14, <3>18, <3>19, <3>20, <2>5, <2>2 DEF Inv
  <2> QED BY <2>6, <2>7
<1> QED BY <1>5, <1>7, <1>8

(* What the clear of a connection does to the global table: every handle   *)
(* loses the connection's opens, and is freed if they were the last.       *)
LEMMA ClearIs ==
  ASSUME Inv, NEW c \in Conn, NEW r, r = clear_conn_semas(semas, c)
  PROVE  /\ r \in Seq(Sema) /\ Len(r) <= Len(semas)
         /\ \A h \in Handle : OpensOf(c, h) \in Nat
         /\ \A h : IsSema(r, h) => IsSema(semas, h) /\ r[h].name = semas[h].name
         /\ \A h \in Handle : IsSema(semas, h) /\ OpensOf(c, h) < semas[h].opencount =>
              IsSema(r, h) /\ r[h].opencount = semas[h].opencount - OpensOf(c, h)
<1> DEFINE w == [h \in 1..Len(semas) |->
                   IF OpensOf(c, h) < semas[h].opencount
                   THEN [semas[h] EXCEPT !.opencount = @ - OpensOf(c, h)] ELSE FreeSema]
           u == {h \in 1..Len(w) : w[h].opencount > 0}
<1>1. /\ semas \in Seq(Sema) /\ Len(semas) \in Nat /\ 1..Len(semas) \subseteq Handle
      /\ \A h \in 1..Len(semas) : semas[h] \in Sema
  BY SemaConstants DEF Inv, TypeOK, Handle
<1>2. \A h \in Handle : OpensOf(c, h) \in Nat
  <2>1. ASSUME NEW h \in Handle PROVE OpensOf(c, h) \in Nat
    <3>1. IsFiniteSet(Opens(h)) /\ OpensBy(c, h) \in SUBSET Opens(h)
      BY DEF Inv, Covered, Opens
    <3>2. IsFiniteSet(OpensBy(c, h))
      BY <3>1, FS_Subset
    <3> QED BY <3>2, FS_CardinalityType DEF OpensOf
  <2> QED BY <2>1
<1>3. r = TrimTo(w, u)
  BY DEF clear_conn_semas, TrimSemas
<1> HIDE DEF w
<1>4. ASSUME NEW h \in 1..Len(semas)
      PROVE  /\ w[h] \in Sema
             /\ OpensOf(c, h) < semas[h].opencount =>
                  /\ w[h].name = semas[h].name
                  /\ w[h].opencount = semas[h].opencount - OpensOf(c, h)
                  /\ w[h].opencount > 0
             /\ ~(OpensOf(c, h) < semas[h].opencount) => w[h].opencount = 0
  <2>1. PICK n \in Nat : n = OpensOf(c, h)
    BY <1>1, <1>2
  <2>2. PICK e \in Sema : e = semas[h]
    BY <1>1
  <2>3. w[h] = IF n < e.opencount THEN [e EXCEPT !.opencount = e.opencount - n] ELSE FreeSema
    BY <2>1, <2>2 DEF w
  <2>4. e.opencount \in Nat
    BY DEF Sema
  <2>5. CASE n < e.opencount
    <3>1. PICK m \in Nat : m = e.opencount - n /\ m > 0
      BY <2>4, <2>5
    <3>2. w[h] = [e EXCEPT !.opencount = m]
      BY <2>3, <2>5, <3>1
    <3>3. w[h] \in Sema /\ w[h].name = e.name /\ w[h].opencount = m
      BY <3>2 DEF Sema
    <3> QED BY <3>1, <3>3, <2>1, <2>2, <2>5
  <2>6. CASE ~(n < e.opencount)
    <3>1. w[h] = FreeSema
      BY <2>3, <2>6
    <3>2. FreeSema \in Sema /\ FreeSema.opencount = 0
      BY DEF FreeSema, Sema
    <3> QED BY <3>1, <3>2, <2>1, <2>2, <2>6
  <2> QED BY <2>5, <2>6
<1>5. w \in Seq(Sema) /\ Len(w) = Len(semas)
  <2>1. w \in [1..Len(semas) -> Sema]
    BY <1>4 DEF w
  <2> QED BY <2>1, <1>1
<1>6. u \in SUBSET (1..Len(w)) /\ \A h \in 1..Len(semas) : w[h].opencount > 0 => h \in u
  BY <1>5
<1> HIDE DEF u
<1>7. /\ r \in Seq(Sema) /\ Len(r) <= Len(semas) /\ \A h \in 1..Len(r) : r[h] = w[h]
      /\ \A h \in u : h <= Len(r)
  BY <1>3, <1>5, <1>6, TrimIs
<1>8. Len(r) \in Nat
  BY <1>7
<1>9. ASSUME NEW h, IsSema(r, h) PROVE IsSema(semas, h) /\ r[h].name = semas[h].name
  <2>1. h \in 1..Len(r) /\ h \in 1..Len(semas) /\ r[h] = w[h] /\ w[h].opencount > 0
    BY <1>7, <1>8, <1>1, <1>9 DEF IsSema
  <2>2. OpensOf(c, h) < semas[h].opencount /\ OpensOf(c, h) \in Nat
    BY <2>1, <1>4, <1>1, <1>2
  <2>3. semas[h].opencount \in Nat
    BY <2>1, <1>1 DEF Sema
  <2>4. semas[h].opencount > 0
    BY <2>2, <2>3
  <2> QED BY <2>1, <2>2, <2>4, <1>4 DEF IsSema
<1>10. ASSUME NEW h \in Handle, IsSema(semas, h), OpensOf(c, h) < semas[h].opencount
       PROVE  IsSema(r, h) /\ r[h].opencount = semas[h].opencount - OpensOf(c, h)
  <2>1. /\ h \in 1..Len(semas) /\ w[h].opencount = semas[h].opencount - OpensOf(c, h)
        /\ w[h].opencount > 0
    BY <1>4, <1>10 DEF IsSema
  <2>2. h \in 1..Len(r) /\ r[h] = w[h]
    BY <2>1, <1>6, <1>7, <1>8
  <2> QED BY <2>1, <2>2 DEF IsSema
<1> QED BY <1>2, <1>7, <1>9, <1>10

(* The clear of a connection, whatever it had open.                        *)
LEMMA StepClear ==
  ASSUME Inv, NEW c \in Conn, ClearConnection(c)
  PROVE  Inv' /\ NamesKept
<1>1. /\ semas' = clear_conn_semas(semas, c) /\ connSemas' = [connSemas EXCEPT ![c] = <<>>]
      /\ active' = [active EXCEPT ![c] = FALSE]
  BY DEF ClearConnection
<1>2. /\ semas' \in Seq(Sema) /\ Len(semas') <= Len(semas)
      /\ \A h \in Handle : OpensOf(c, h) \in Nat
      /\ \A h : IsSema(semas', h) => IsSema(semas, h) /\ semas'[h].name = semas[h].name
      /\ \A h \in Handle : IsSema(semas, h) /\ OpensOf(c, h) < semas[h].opencount =>
           IsSema(semas', h) /\ semas'[h].opencount = semas[h].opencount - OpensOf(c, h)
  <2>1. PICK r : r = clear_conn_semas(semas, c)
    OBVIOUS
  <2> QED BY <2>1, <1>1, ClearIs
<1>3. PICK r \in Seq(Slot) : r = <<>> /\ Len(r) = 0
  <2>1. <<>> \in Seq(Slot) /\ Len(<<>>) = 0
    OBVIOUS
  <2> QED BY <2>1
<1>4. OneSlotEach(r) /\ \A i \in 1..Len(r) : r[i].handle > 0 => r[i].opencount > 0
  BY <1>3 DEF OneSlotEach
<1>5. connSemas' = [connSemas EXCEPT ![c] = r]
  BY <1>1, <1>3
<1>6. /\ connSemas' \in [Conn -> Seq(Slot)] /\ SlotsOpened'
      /\ \A d \in Conn : OneSlotEach(connSemas'[d])
      /\ connSemas'[c] = r /\ \A d \in Conn : d # c => connSemas'[d] = connSemas[d]
      /\ \A d \in Conn : \A h : d # c => OpensBy(d, h)' = OpensBy(d, h)
  BY <1>4, <1>5, TableStep
<1>7. TypeOK'
  BY <1>1, <1>2, <1>6, SemaConstants DEF Inv, TypeOK
<1>8. NamesUnique'
  <2>1. \A j \in 1..Len(semas') : IsSema(semas', j) =>
          j \in 1..Len(semas) /\ IsSema(semas, j) /\ semas'[j].name = semas[j].name
    BY <1>2 DEF IsSema
  <2> QED BY <2>1, <1>6 DEF Inv, NamesUnique, OneSlotEach
<1>9. ASSUME NEW h \in Handle PROVE Covered(h)'
  <2>1. OpensBy(c, h)' = {}
    BY <1>6, <1>3 DEF OpensBy
  <2>2. \A d \in Conn \ {c} : OpensBy(d, h) \cap OpensBy(c, h) = {}
    BY InOpensBy
  <2>3. Opens(h)' = Opens(h) \ OpensBy(c, h)
    <3>1. \A o : o \in Opens(h) <=> \E d \in Conn : o \in OpensBy(d, h)
      BY DEF Opens
    <3>2. \A o : o \in Opens(h)' <=> \E d \in Conn : o \in OpensBy(d, h)'
      BY DEF Opens
    <3>3. \A d \in Conn : OpensBy(d, h)' = OpensBy(d, h) \ OpensBy(c, h)
      BY <2>1, <2>2, <1>6
    <3> QED BY <3>1, <3>2, <3>3
  <2>4. IsFiniteSet(Opens(h)) /\ Opens(h) \cap OpensBy(c, h) = OpensBy(c, h)
    BY DEF Inv, Covered, Opens
  <2>5. IsFiniteSet(Opens(h)') /\ Cardinality(Opens(h)') = Cardinality(Opens(h)) - OpensOf(c, h)
    BY <2>3, <2>4, FS_Difference DEF OpensOf
  <2>6. Cardinality(Opens(h)) \in Nat /\ Cardinality(Opens(h)') \in Nat
    BY <2>4, <2>5, FS_CardinalityType
  <2>7. ASSUME Opens(h)' # {}
        PROVE  IsSema(semas', h) /\ semas'[h].opencount >= Cardinality(Opens(h)')
    <3>1. IsSema(semas, h) /\ semas[h].opencount >= Cardinality(Opens(h))
      BY <2>3, <2>7 DEF Inv, Covered
    <3>2. Cardinality(Opens(h)') # 0
      BY <2>5, <2>7, FS_EmptySet
    <3>3. semas[h].opencount \in Nat
      <4>1. semas[h] \in Sema
        BY <3>1 DEF IsSema, Inv, TypeOK
      <4> QED BY <4>1 DEF Sema
    <3>4. OpensOf(c, h) < semas[h].opencount
      BY <3>1, <3>2, <3>3, <2>5, <2>6, <1>2
    <3>5. IsSema(semas', h) /\ semas'[h].opencount = semas[h].opencount - OpensOf(c, h)
      BY <3>1, <3>4, <1>2
    <3> QED BY <3>1, <3>3, <3>5, <2>5, <2>6, <1>2
  <2> QED BY <2>5, <2>7 DEF Covered
<1>10. NamesKept
  BY <1>2 DEF NamesKept
<1> QED BY <1>6, <1>7, <1>8, <1>9, <1>10 DEF Inv

(* Every step keeps the invariant and the names of the handles in use.     *)
LEMMA InvNext == Inv /\ [Next]_vars => Inv' /\ NamesKept
<1> SUFFICES ASSUME Inv, [Next]_vars PROVE Inv' /\ NamesKept
  OBVIOUS
<1>1. CASE UNCHANGED vars
  BY <1>1, SameCounts DEF vars, Inv, TypeOK
<1>2. ASSUME NEW c \in Conn, InsertConnection(c) PROVE Inv' /\ NamesKept
  BY <1>2, SameCounts DEF InsertConnection, Inv, TypeOK
<1>3. ASSUME NEW c \in Conn, ClearConnection(c) PROVE Inv' /\ NamesKept
  BY <1>3, StepClear
<1>4. ASSUME NEW c \in Conn, NEW n \in Name, NEW v \in InitValues, OpenSemaphore(c, n, v)
      PROVE  Inv' /\ NamesKept
  BY <1>4, StepOpen
<1>5. ASSUME NEW c \in Conn, NEW h \in Handle, WaitSemaphore(c, h) \/ SignalSemaphore(c, h)
      PROVE  Inv' /\ NamesKept
  BY <1>5, StepValue
<1>6. ASSUME NEW c \in Conn, NEW h \in Handle, CloseSemaphore(c, h) PROVE Inv' /\ NamesKept
  BY <1>6, StepClose
<1> QED BY <1>1, <1>2, <1>3, <1>4, <1>5, <1>6 DEF Next, Request

(* The inductive invariant holds in every behaviour.                       *)
LEMMA Invariance == Spec => []Inv
<1>1. Inv /\ [Next]_vars => Inv'
  BY InvNext
<1> QED BY InvInit, <1>1, PTL DEF Spec

-----------------------------------------------------------------------------
(* Two clients that open the same name share one semaphore, whatever was   *)
(* freed and reused before (open_sema, close_sema).                        *)
THEOREM OneSemaphore == Spec => []NamesUnique
<1>1. Inv => NamesUnique
  BY DEF Inv
<1> QED BY Invariance, <1>1, PTL

(* No close, clear or failed open of one connection frees a semaphore that *)
(* another still has open.                                                 *)
THEOREM NotFreedWhileOpen == Spec => []OpencountCovers
<1> QED BY Invariance, InvCovers, PTL

HeldHaveOpens == \A c \in Conn, h \in Handle : Holds(c, h) => Opens(h) # {}

(* A handle that a connection holds goes on naming the same semaphore.     *)
THEOREM HandlesStable == Spec => HandleStable
<1>1. Inv => HeldHaveOpens
  BY HeldIsOpen DEF Inv, HeldHaveOpens
<1>2. Inv' => HeldHaveOpens'
  BY <1>1, PTL
<1>3. Inv /\ [Next]_vars => Inv' /\ NamesKept
  BY InvNext
<1>4. ASSUME Inv, [Next]_vars
      PROVE  \A c \in Conn, h \in Handle :
               Holds(c, h) /\ Holds(c, h)' => /\ IsSema(semas', h)
                                              /\ semas'[h].name = semas[h].name
  <2> SUFFICES ASSUME NEW c \in Conn, NEW h \in Handle, Holds(c, h), Holds(c, h)'
               PROVE  IsSema(semas', h) /\ semas'[h].name = semas[h].name
    OBVIOUS
  <2>1. Inv' /\ NamesKept
    BY <1>3, <1>4
  <2>2. IsSema(semas, h)
    BY <1>1, <1>4 DEF Inv, Covered, HeldHaveOpens
  <2>3. Opens(h)' # {}
    BY <1>2, <2>1 DEF HeldHaveOpens
  <2>4. IsSema(semas', h)
    BY <2>1, <2>3 DEF Inv, Covered
  <2> QED BY <2>1, <2>2, <2>4 DEF NamesKept
<1>5. Inv /\ [Next]_vars =>
        [\A c \in Conn, h \in Handle :
           Holds(c, h) /\ Holds(c, h)' => /\ IsSema(semas', h)
                                          /\ semas'[h].name = semas[h].name]_vars
  BY <1>4
<1> QED BY Invariance, <1>5, PTL DEF Spec, HandleStable

-----------------------------------------------------------------------------
(* Searches: counting entries                                                *)

(* Sets of slots, and how many of U are behind a and up to b.                *)
SlotSets == {U \in SUBSET Nat : IsFiniteSet(U)}
Cnt(U, a, b) == Cardinality({i \in U : a < i /\ i <= b})

(* Part of a set of slots is one.                                            *)
LEMMA PartOf ==
  ASSUME NEW U \in SlotSets, NEW T \in SUBSET U
  PROVE  T \in SlotSets
  BY FS_Subset DEF SlotSets

(* A count is a number, and 0 only when there is nothing.                    *)
LEMMA CntIs ==
  ASSUME NEW U \in SlotSets, NEW a \in Nat, NEW b \in Nat
  PROVE  /\ Cnt(U, a, b) \in Nat
         /\ Cnt(U, a, b) = 0 => \A i \in U : ~(a < i /\ i <= b)
         /\ (\A i \in U : ~(a < i /\ i <= b)) => Cnt(U, a, b) = 0
         /\ IsFiniteSet({i \in U : a < i /\ i <= b})
<1> DEFINE A == {i \in U : a < i /\ i <= b}
<1>1. A \in SUBSET U /\ IsFiniteSet(U)
  BY DEF SlotSets
<1>2. IsFiniteSet(A)
  BY <1>1, FS_Subset
<1>3. Cardinality(A) \in Nat /\ (Cardinality(A) = 0 <=> A = {})
  BY <1>2, FS_CardinalityType, FS_EmptySet
<1> QED BY <1>2, <1>3 DEF Cnt

(* A slot counts.                                                            *)
LEMMA CntHas ==
  ASSUME NEW U \in SlotSets, NEW a \in Nat, NEW b \in Nat, NEW i \in U, a < i, i <= b
  PROVE  Cnt(U, a, b) > 0
<1>1. Cnt(U, a, b) \in Nat /\ (Cnt(U, a, b) = 0 => \A j \in U : ~(a < j /\ j <= b))
  BY CntIs
<1> QED BY <1>1

(* Two stretches of slots that follow each other.                            *)
LEMMA CntSplit ==
  ASSUME NEW U \in SlotSets, NEW a \in Nat, NEW b \in Nat, NEW c \in Nat, a <= b, b <= c
  PROVE  Cnt(U, a, c) = Cnt(U, a, b) + Cnt(U, b, c)
<1> DEFINE A == {i \in U : a < i /\ i <= b}
           B == {i \in U : b < i /\ i <= c}
           C == {i \in U : a < i /\ i <= c}
<1>1. IsFiniteSet(A) /\ IsFiniteSet(B)
  BY CntIs
<1>2. A \cap B = {} /\ A \cup B = C
  <2>1. U \subseteq Nat
    BY DEF SlotSets
  <2>2. \A i \in U : ~(i \in A /\ i \in B) /\ (i \in A \/ i \in B <=> i \in C)
    BY <2>1
  <2>3. A \subseteq U /\ B \subseteq U /\ C \subseteq U
    OBVIOUS
  <2> HIDE DEF A, B, C
  <2> QED BY <2>2, <2>3
<1>3. Cardinality(A \cap B) = 0
  BY <1>2, FS_EmptySet
<1>4. Cardinality(A \cup B) = Cardinality(A) + Cardinality(B) - Cardinality(A \cap B)
  BY <1>1, FS_Union
<1>5. Cnt(U, a, b) = Cardinality(A) /\ Cnt(U, b, c) = Cardinality(B) /\ Cnt(U, a, c) = Cardinality(C)
  BY DEF Cnt
<1>6. Cnt(U, a, b) \in Nat /\ Cnt(U, b, c) \in Nat
  BY CntIs
<1>7. Cardinality(C) = Cardinality(A) + Cardinality(B) - 0
  BY <1>2, <1>3, <1>4
<1> HIDE DEF A, B, C
<1> QED BY <1>5, <1>6, <1>7

(* A single slot.                                                            *)
LEMMA CntOne ==
  ASSUME NEW U \in SlotSets, NEW a \in Nat, NEW b \in Nat, b = a + 1
  PROVE  /\ b \in U => Cnt(U, a, b) = 1
         /\ b \notin U => Cnt(U, a, b) = 0
<1>1. U \subseteq Nat
  BY DEF SlotSets
<1>2. \A i \in U : a < i /\ i <= b <=> i = b
  BY <1>1
<1>3. CASE b \in U
  <2>1. {i \in U : a < i /\ i <= b} = {} \cup {b}
    BY <1>2, <1>3
  <2>2. IsFiniteSet({}) /\ Cardinality({}) = 0 /\ b \notin {}
    BY FS_EmptySet
  <2>3. Cardinality({} \cup {b}) = 1
    BY <2>2, FS_AddElement
  <2> QED BY <1>3, <2>1, <2>3 DEF Cnt
<1>4. CASE b \notin U
  <2>1. \A i \in U : ~(a < i /\ i <= b)
    BY <1>2, <1>4
  <2> QED BY <1>4, <2>1, CntIs
<1> QED BY <1>3, <1>4

(* Less of the slots used.                                                   *)
LEMMA CntSub ==
  ASSUME NEW U \in SlotSets, NEW T \in SUBSET U, NEW a \in Nat, NEW b \in Nat
  PROVE  Cnt(T, a, b) <= Cnt(U, a, b)
<1>1. IsFiniteSet({i \in U : a < i /\ i <= b})
  BY CntIs
<1>2. {i \in T : a < i /\ i <= b} \in SUBSET {i \in U : a < i /\ i <= b}
  OBVIOUS
<1> QED BY <1>1, <1>2, FS_Subset DEF Cnt

(* A count is reached slot by slot.                                          *)
LEMMA Reach ==
  ASSUME NEW U \in SlotSets, NEW a \in Nat, NEW b \in Nat, NEW m \in Nat,
         m >= 1, m <= Cnt(U, a, b)
  PROVE  \E i \in U : a < i /\ i <= b /\ Cnt(U, a, i) = m
<1> DEFINE W == {i \in Nat : a <= i /\ m <= Cnt(U, a, i)}
<1>1. \A x \in Nat : Cnt(U, a, x) \in Nat /\ (x <= a => Cnt(U, a, x) = 0)
  <2> SUFFICES ASSUME NEW x \in Nat PROVE Cnt(U, a, x) \in Nat /\ (x <= a => Cnt(U, a, x) = 0)
    OBVIOUS
  <2>1. U \subseteq Nat
    BY DEF SlotSets
  <2>2. x <= a => \A i \in U : ~(a < i /\ i <= x)
    BY <2>1
  <2> QED BY <2>2, CntIs
<1>2. b > a
  BY <1>1
<1>3. b \in W
  BY <1>2
<1>4. PICK j \in W : \A u \in W : j <= u
  <2>1. W \in SUBSET Nat /\ W # {}
    BY <1>3
  <2> HIDE DEF W
  <2> QED BY <2>1, MinIs
<1>5. j \in Nat /\ a < j /\ m <= Cnt(U, a, j) /\ j <= b
  BY <1>1, <1>3, <1>4
<1>6. PICK i \in Nat : i = j - 1 /\ j = i + 1 /\ a <= i /\ i <= j
  BY <1>5
<1>7. Cnt(U, a, j) = Cnt(U, a, i) + Cnt(U, i, j)
  BY <1>5, <1>6, CntSplit
<1>8. Cnt(U, a, i) < m /\ Cnt(U, a, i) \in Nat
  <2>1. i \notin W
    BY <1>4, <1>6
  <2>2. Cnt(U, a, i) \in Nat
    BY <1>1
  <2> QED BY <1>6, <2>1, <2>2
<1>9. j \in U => Cnt(U, i, j) = 1
  BY <1>5, <1>6, CntOne
<1>10. j \notin U => Cnt(U, i, j) = 0
  BY <1>5, <1>6, CntOne
<1> QED BY <1>5, <1>7, <1>8, <1>9, <1>10

-----------------------------------------------------------------------------
(* Searches: a noted position and what a search was told last                *)

(* A position p and the number n of entries noted for it.  U are the used    *)
(* slots, rem and add say whether entries were removed or added meanwhile.   *)
Own(U, n, p, rem, add) ==
  /\ ~rem => n <= Cnt(U, 0, p)
  /\ ~add => n >= Cnt(U, 0, p)

(* How far a position may be from the one, ps, where a search of sequence    *)
(* number sq is.  S are the slots of its entries that were there all along.  *)
Near(U, S, sq, ps, n, p, rem, add) ==
  /\ Own(U, n, p, rem, add)
  /\ ~rem /\ p > ps => n - sq >= Cnt(S, ps, p)
  /\ ~rem /\ p <= ps => sq - n <= Cnt(U, p, ps)
  /\ ~add /\ p <= ps => sq - n >= Cnt(U, p, ps)

(* What counts say when the positions are numbers.                           *)
LEMMA CntFacts ==
  ASSUME NEW U \in SlotSets, NEW S \in SUBSET U
  PROVE  /\ S \in SlotSets
         /\ \A a, b \in Nat : /\ Cnt(U, a, b) \in Nat /\ Cnt(S, a, b) \in Nat
                              /\ Cnt(S, a, b) <= Cnt(U, a, b)
                              /\ b <= a => Cnt(U, a, b) = 0 /\ Cnt(S, a, b) = 0
         /\ \A a, b, c \in Nat : a <= b /\ b <= c =>
              /\ Cnt(U, a, c) = Cnt(U, a, b) + Cnt(U, b, c)
              /\ Cnt(S, a, c) = Cnt(S, a, b) + Cnt(S, b, c)
<1>1. S \in SlotSets
  BY PartOf
<1>2. ASSUME NEW a \in Nat, NEW b \in Nat
      PROVE  /\ Cnt(U, a, b) \in Nat /\ Cnt(S, a, b) \in Nat
             /\ Cnt(S, a, b) <= Cnt(U, a, b)
             /\ b <= a => Cnt(U, a, b) = 0 /\ Cnt(S, a, b) = 0
  <2>1. b <= a => \A i \in U : ~(a < i /\ i <= b)
    BY DEF SlotSets
  <2>2. b <= a => \A i \in S : ~(a < i /\ i <= b)
    BY <2>1
  <2> QED BY <1>1, <2>1, <2>2, CntIs, CntSub
<1> QED BY <1>1, <1>2, CntSplit

(* A position that was counted.                                              *)
LEMMA OwnExact ==
  ASSUME NEW U \in SlotSets, NEW p \in Nat, NEW n \in Int, NEW rem \in BOOLEAN, NEW add \in BOOLEAN,
         n = Cnt(U, 0, p)
  PROVE  Own(U, n, p, rem, add)
<1>1. Cnt(U, 0, p) \in Nat
  BY CntIs
<1> QED BY <1>1 DEF Own

(* Going on, and counting on.                                                *)
LEMMA OwnOn ==
  ASSUME NEW U \in SlotSets, NEW n \in Int, NEW p \in Nat, NEW rem \in BOOLEAN, NEW add \in BOOLEAN,
         Own(U, n, p, rem, add), NEW m \in Int, NEW o \in Nat,
         p <= o, m = n + Cnt(U, p, o)
  PROVE  Own(U, m, o, rem, add)
<1>1. Cnt(U, 0, o) = Cnt(U, 0, p) + Cnt(U, p, o)
  BY CntSplit
<1>2. Cnt(U, 0, p) \in Nat /\ Cnt(U, p, o) \in Nat
  BY CntIs
<1> QED BY <1>1, <1>2 DEF Own

(* A position that was counted is near everyone's.                           *)
LEMMA NearExact ==
  ASSUME NEW U \in SlotSets, NEW S \in SUBSET U, NEW rem \in BOOLEAN, NEW add \in BOOLEAN,
         NEW sq \in Int, NEW ps \in Nat, Own(U, sq, ps, rem, add),
         NEW n \in Int, NEW p \in Nat, n = Cnt(U, 0, p)
  PROVE  Near(U, S, sq, ps, n, p, rem, add)
<1>1. Own(U, n, p, rem, add)
  BY OwnExact
<1>2. CASE p > ps
  <2>1. Cnt(U, 0, p) = Cnt(U, 0, ps) + Cnt(U, ps, p)
    BY <1>2, CntSplit
  <2>2. /\ Cnt(U, 0, ps) \in Nat /\ Cnt(U, ps, p) \in Nat
        /\ Cnt(S, ps, p) \in Nat /\ Cnt(S, ps, p) <= Cnt(U, ps, p)
    BY CntFacts
  <2> QED BY <1>1, <1>2, <2>1, <2>2 DEF Near, Own
<1>3. CASE p <= ps
  <2>1. Cnt(U, 0, ps) = Cnt(U, 0, p) + Cnt(U, p, ps)
    BY <1>3, CntSplit
  <2>2. Cnt(U, 0, p) \in Nat /\ Cnt(U, p, ps) \in Nat
    BY CntIs
  <2> QED BY <1>1, <1>3, <2>1, <2>2 DEF Near, Own
<1> QED BY <1>2, <1>3

(* Going on from a position nearby.                                          *)
LEMMA NearOn ==
  ASSUME NEW U \in SlotSets, NEW S \in SUBSET U, NEW rem \in BOOLEAN, NEW add \in BOOLEAN,
         NEW sq \in Int, NEW ps \in Nat, NEW n \in Int, NEW p \in Nat,
         Near(U, S, sq, ps, n, p, rem, add),
         NEW m \in Int, NEW o \in Nat, p <= o, m = n + Cnt(U, p, o)
  PROVE  Near(U, S, sq, ps, m, o, rem, add)
<1>1. Own(U, m, o, rem, add)
  BY OwnOn DEF Near
<1>2. Cnt(U, p, o) \in Nat /\ Cnt(S, p, o) <= Cnt(U, p, o)
      /\ Cnt(S, p, o) \in Nat
  BY CntFacts
<1>3. CASE p > ps
  <2>1. Cnt(S, ps, o) = Cnt(S, ps, p) + Cnt(S, p, o)
    <3>1. S \in SlotSets /\ ps <= p
      BY <1>3, PartOf
    <3> QED BY <3>1, CntSplit
  <2>2. Cnt(S, ps, p) \in Nat
    BY CntFacts
  <2> QED BY <1>1, <1>2, <1>3, <2>1, <2>2 DEF Near
<1>4. CASE p <= ps /\ ps < o
  <2>1. Cnt(U, p, o) = Cnt(U, p, ps) + Cnt(U, ps, o)
    BY <1>4, CntSplit
  <2>2. /\ Cnt(U, p, ps) \in Nat /\ Cnt(U, ps, o) \in Nat
        /\ Cnt(S, ps, o) \in Nat /\ Cnt(S, ps, o) <= Cnt(U, ps, o)
    BY CntFacts
  <2> QED BY <1>1, <1>2, <1>4, <2>1, <2>2 DEF Near
<1>5. CASE o <= ps
  <2>1. Cnt(U, p, ps) = Cnt(U, p, o) + Cnt(U, o, ps)
    BY <1>5, CntSplit
  <2>2. Cnt(U, p, ps) \in Nat /\ Cnt(U, o, ps) \in Nat
    BY CntIs
  <2> QED BY <1>1, <1>2, <1>5, <2>1, <2>2 DEF Near
<1> QED BY <1>3, <1>4, <1>5

(* The position of the search itself.                                        *)
LEMMA NearSelf ==
  ASSUME NEW U \in SlotSets, NEW S \in SUBSET U, NEW rem \in BOOLEAN, NEW add \in BOOLEAN,
         NEW n \in Int, NEW p \in Nat, Own(U, n, p, rem, add)
  PROVE  Near(U, S, n, p, n, p, rem, add)
<1>1. Cnt(U, p, p) = 0
  BY CntFacts
<1> QED BY <1>1 DEF Near

-----------------------------------------------------------------------------
(* Searches: reading a row of slots                                          *)

(* The rows a directory may have, their used slots, and those of entries     *)
(* that the search r finds from its start on.                                *)
Row(d) == [Slots(d) -> Ino \cup {0}]
Filled(F) == {i \in DOMAIN F : F[i] # 0}
Staying(F, r) == {i \in DOMAIN F : F[i] # 0 /\ F[i] \in r.stay}

(* No inode has two slots of a row.                                          *)
Plain(F) == \A i, j \in DOMAIN F : F[i] = F[j] /\ F[i] # 0 => i = j

(* What a row is, and which slots are used in it.                            *)
LEMMA RowIs ==
  ASSUME NEW d \in Dir, NEW F \in Row(d), NEW r
  PROVE  /\ Len(Files[d]) \in Nat /\ Slots(d) = 1..Len(Files[d]) /\ End(d) = Len(Files[d]) + 1
         /\ DOMAIN F = Slots(d) /\ End(d) \in Nat /\ End(d) >= 1
         /\ Filled(F) \in SlotSets /\ Staying(F, r) \in SUBSET Filled(F)
         /\ \A i \in Filled(F) : i \in Nat /\ 0 < i /\ i < End(d) /\ F[i] \in Ino
<1>1. Files[d] \in Seq(Ino \cup {0})
  BY SearchConstants
<1>2. Len(Files[d]) \in Nat
  BY <1>1
<1>3. Slots(d) = 1..Len(Files[d]) /\ End(d) = Len(Files[d]) + 1
  BY DEF Slots, End
<1>4. DOMAIN F = Slots(d) /\ \A i \in Slots(d) : F[i] \in Ino \cup {0}
  BY DEF Row
<1>5. Filled(F) \in SUBSET Slots(d) /\ Staying(F, r) \in SUBSET Filled(F)
  BY <1>4 DEF Filled, Staying
<1>6. IsFiniteSet(Slots(d)) /\ Slots(d) \in SUBSET Nat
  BY <1>2, <1>3, FS_Interval
<1>7. Filled(F) \in SlotSets
  BY <1>5, <1>6, FS_Subset DEF SlotSets
<1>8. \A i \in Filled(F) : i \in Slots(d) /\ F[i] # 0 /\ F[i] \in Ino
  BY <1>4 DEF Filled
<1> QED BY <1>2, <1>3, <1>4, <1>5, <1>7, <1>8

(* The first of some slots, or the end.                                      *)
LEMMA FirstIs ==
  ASSUME NEW d \in Dir, NEW S \in SUBSET Slots(d)
  PROVE  /\ First(d, S) \in Nat /\ 1 <= First(d, S) /\ First(d, S) <= End(d)
         /\ First(d, S) = End(d) <=> S = {}
         /\ First(d, S) # End(d) => First(d, S) \in S
         /\ \A i \in S : First(d, S) <= i
<1>1. Len(Files[d]) \in Nat
  BY SearchConstants
<1>2. CASE S = {}
  BY <1>1, <1>2 DEF First, End
<1>3. CASE S # {}
  <2>1. S \in SUBSET Nat
    BY <1>1 DEF Slots
  <2>2. Min(S) \in S /\ \A i \in S : Min(S) <= i
    BY <2>1, <1>3, MinIs
  <2>3. Min(S) \in 1..Len(Files[d])
    BY <2>2 DEF Slots
  <2> QED BY <1>1, <1>3, <2>2, <2>3 DEF First, End
<1> QED BY <1>2, <1>3

(* What the operators of the model read, in terms of counts.                 *)
LEMMA Reading ==
  ASSUME NEW d \in Dir, disk[d] \in Row(d)
  PROVE  /\ Used(d) = Filled(disk[d]) /\ Used(d) \in SlotSets /\ Used(d) \in SUBSET Slots(d)
         /\ \A a, b \in Nat : Between(d, a + 1, b + 1) = Cnt(Used(d), a, b)
<1>1. Used(d) = Filled(disk[d])
  BY RowIs DEF Used, Filled
<1>2. Used(d) \in SlotSets /\ Used(d) \in SUBSET Slots(d)
  BY <1>1, RowIs DEF Used
<1>3. ASSUME NEW a \in Nat, NEW b \in Nat PROVE Between(d, a + 1, b + 1) = Cnt(Used(d), a, b)
  <2>1. \A i \in Used(d) : i \in Nat
    BY <1>2 DEF SlotSets
  <2>2. \A i \in Used(d) : (a + 1 <= i /\ i < b + 1) <=> (a < i /\ i <= b)
    BY <2>1
  <2>3. {i \in Used(d) : a + 1 <= i /\ i < b + 1} = {i \in Used(d) : a < i /\ i <= b}
    BY <2>2
  <2> QED BY <2>3 DEF Between, Cnt
<1> QED BY <1>1, <1>2, <1>3

(* telldir after reading on up to some slot.                                 *)
LEMMA LastUsedIs ==
  ASSUME NEW d \in Dir, disk[d] \in Row(d), NEW from \in Nat, NEW to \in Nat, from < to
  PROVE  /\ LastUsed(d, from, to) \in Nat
         /\ from <= LastUsed(d, from, to) /\ LastUsed(d, from, to) < to
         /\ LastUsed(d, from, to) = from \/ LastUsed(d, from, to) \in Used(d)
         /\ \A i \in Used(d) : i < to => i <= LastUsed(d, from, to)
<1> DEFINE S == {from} \cup {i \in Used(d) : from < i /\ i < to}
<1>1. Used(d) \subseteq Nat
  BY Reading DEF SlotSets
<1>2. S \in SUBSET (0..to) /\ S # {}
  BY <1>1
<1>3. Max(S) \in S /\ \A u \in S : u <= Max(S)
  <2> HIDE DEF S
  <2> QED BY <1>2, MaxIs
<1>4. LastUsed(d, from, to) = Max(S)
  BY DEF LastUsed
<1>5. /\ Max(S) \in Nat /\ from <= Max(S) /\ Max(S) < to
      /\ Max(S) = from \/ Max(S) \in Used(d)
  BY <1>1, <1>3
<1>6. ASSUME NEW i \in Used(d), i < to PROVE i <= Max(S)
  BY <1>1, <1>3, <1>5, <1>6
<1> QED BY <1>4, <1>5, <1>6

(* What is counted up to the last slot is counted up to the end.             *)
LEMMA CntUpTo ==
  ASSUME NEW U \in SlotSets, NEW a \in Nat, NEW b \in Nat, NEW c \in Nat, a <= b, b <= c,
         \A i \in U : i <= c => i <= b
  PROVE  Cnt(U, a, c) = Cnt(U, a, b)
<1>1. U \subseteq Nat
  BY DEF SlotSets
<1>2. \A i \in U : (a < i /\ i <= c) <=> (a < i /\ i <= b)
  BY <1>1
<1>3. {i \in U : a < i /\ i <= c} = {i \in U : a < i /\ i <= b}
  BY <1>2
<1> QED BY <1>3 DEF Cnt

(* The next entry that matches.                                              *)
LEMMA MatchingIs ==
  ASSUME NEW d \in Dir, disk[d] \in Row(d), NEW s \in Search, NEW b \in Nat
  PROVE  LET m == Matching(s, d, b) IN
         /\ m \in Nat /\ 1 <= m /\ m <= End(d)
         /\ m # End(d) => m \in Used(d) /\ b <= m /\ disk[d][m] \in Match[s]
         /\ \A i \in Used(d) : b <= i /\ i < m => disk[d][i] \notin Match[s]
<1> DEFINE S == {i \in Used(d) : i >= b /\ disk[d][i] \in Match[s]}
<1>1. S \in SUBSET Slots(d)
  BY Reading
<1>2. Matching(s, d, b) = First(d, S)
  BY DEF Matching
<1>3. Used(d) \subseteq Nat
  BY Reading DEF SlotSets
<1>4. /\ First(d, S) \in Nat /\ 1 <= First(d, S) /\ First(d, S) <= End(d)
      /\ First(d, S) # End(d) => First(d, S) \in S
      /\ \A i \in S : First(d, S) <= i
  <2> HIDE DEF S
  <2> QED BY <1>1, FirstIs
<1>5. ASSUME NEW i \in Used(d), b <= i, i < First(d, S) PROVE disk[d][i] \notin Match[s]
  <2>1. i \notin S
    BY <1>3, <1>4, <1>5
  <2> QED BY <2>1, <1>3, <1>5
<1> QED BY <1>2, <1>3, <1>4, <1>5

(* The slot with q entries before it.                                        *)
LEMMA NthIs ==
  ASSUME NEW d \in Dir, disk[d] \in Row(d), NEW q \in Nat
  PROVE  LET m == Nth(d, q) IN
         /\ m \in Nat /\ 1 <= m /\ m <= End(d)
         /\ m # End(d) => m \in Used(d) /\ Cnt(Used(d), 0, m) = q + 1 /\ Cnt(Used(d), 0, m - 1) = q
         /\ \A i \in Used(d) : q < Cnt(Used(d), 0, i) => m <= i
<1> DEFINE S == {i \in Used(d) : Between(d, 1, i) = q}
<1>1. /\ Used(d) \in SlotSets /\ Used(d) \in SUBSET Slots(d) /\ Used(d) \subseteq Nat
  BY Reading DEF SlotSets
<1>2. Nth(d, q) = First(d, S)
  BY DEF Nth
<1>3. /\ First(d, S) \in Nat /\ 1 <= First(d, S) /\ First(d, S) <= End(d)
      /\ First(d, S) # End(d) => First(d, S) \in S
      /\ \A i \in S : First(d, S) <= i
  <2>1. S \in SUBSET Slots(d)
    BY <1>1
  <2> HIDE DEF S
  <2> QED BY <2>1, FirstIs
<1>4. ASSUME NEW i \in Used(d)
      PROVE  /\ Between(d, 1, i) = Cnt(Used(d), 0, i - 1)
             /\ Cnt(Used(d), 0, i) = Between(d, 1, i) + 1
             /\ Between(d, 1, i) \in Nat
  <2>1. i \in Nat /\ i >= 1
    BY <1>1 DEF Slots
  <2>2. PICK j \in Nat : j = i - 1 /\ i = j + 1
    BY <2>1
  <2>3. Between(d, 0 + 1, j + 1) = Cnt(Used(d), 0, j)
    BY Reading
  <2>4. Cnt(Used(d), j, i) = 1
    BY <1>1, <2>1, <2>2, CntOne
  <2>5. Cnt(Used(d), 0, i) = Cnt(Used(d), 0, j) + Cnt(Used(d), j, i)
    <3>1. 0 <= j /\ j <= i
      BY <2>2
    <3> QED BY <1>1, <2>1, <3>1, CntSplit
  <2>6. Cnt(Used(d), 0, j) \in Nat
    BY <1>1, CntIs
  <2> QED BY <2>2, <2>3, <2>4, <2>5, <2>6
<1>5. ASSUME NEW i \in Used(d), q < Cnt(Used(d), 0, i) PROVE First(d, S) <= i
  <2>1. i \in Nat /\ Cnt(Used(d), 0, i) \in Nat /\ q + 1 \in Nat /\ q + 1 >= 1 /\ q + 1 <= Cnt(Used(d), 0, i)
    <3>1. i \in Nat
      BY <1>1
    <3>2. Cnt(Used(d), 0, i) \in Nat
      BY <1>1, <3>1, CntIs
    <3> QED BY <3>1, <3>2, <1>5
  <2>2. PICK j \in Used(d) : 0 < j /\ j <= i /\ Cnt(Used(d), 0, j) = q + 1
    BY <1>1, <2>1, Reach
  <2>3. j \in S
    BY <1>4, <2>2
  <2> QED BY <1>1, <1>3, <2>1, <2>2, <2>3
<1>6. First(d, S) # End(d) =>
        /\ First(d, S) \in Used(d) /\ Cnt(Used(d), 0, First(d, S)) = q + 1
        /\ Cnt(Used(d), 0, First(d, S) - 1) = q
  BY <1>3, <1>4
<1> HIDE DEF S
<1> QED BY <1>2, <1>3, <1>5, <1>6

-----------------------------------------------------------------------------
(* Searches: what a search has been told                                     *)

Searchs ==
  [state : {"off", "more", "last", "done"}, kind : {"ns", "dir", "file"}, dir : Dir \cup {0},
   h : Nat, seq : Nat \cup {-1}, pos : Nat, stay : SUBSET Ino, got : SUBSET Ino,
   twice : SUBSET Ino, counted : BOOLEAN, removed : BOOLEAN, added : BOOLEAN, evicted : BOOLEAN]

(* The number of entries a search goes on behind.                            *)
Sq(r) == IF r.seq < 0 THEN 0 ELSE r.seq

(* Among the entries in the row F that were there all along, the search has  *)
(* been told of those up to its position, unless it may have skipped some,   *)
(* and of no others, unless it may have gone back.                           *)
Knows(s, r, F) ==
  /\ r.stay \subseteq Match[s]
  /\ \A x \in r.stay : \E i \in Staying(F, r) : F[i] = x
  /\ r.seq < 1 => r.seq = -1 /\ r.pos = 0 /\ r.got = {} /\ r.twice = {}
  /\ Own(Filled(F), Sq(r), r.pos, r.removed, r.added)
  /\ ~(r.counted /\ r.removed) => \A i \in Staying(F, r) : i <= r.pos => F[i] \in r.got
  /\ ~(r.counted /\ r.added) => /\ r.stay \cap r.twice = {}
                                /\ \A i \in Staying(F, r) : F[i] \in r.got => i <= r.pos
  /\ r.state = "last" /\ ~(r.counted /\ r.removed) => r.stay \subseteq r.got

(* It may go on at slot b, by counting if c.                                 *)
GoesOn(r, F, b, c) ==
  /\ ~((r.counted \/ c) /\ r.removed) => \A i \in Staying(F, r) : i < b => F[i] \in r.got
  /\ ~((r.counted \/ c) /\ r.added) => \A i \in Staying(F, r) : F[i] \in r.got => i < b

(* The sequence number of a call.                                            *)
LEMMA SqIs ==
  ASSUME NEW r \in Searchs
  PROVE  Max({r.seq, 0}) = Sq(r) /\ Sq(r) \in Nat
<1>1. r.seq \in Nat \cup {-1}
  BY DEF Searchs
<1>2. CASE r.seq = -1
  <2>1. Max({r.seq, 0}) \in {r.seq, 0} /\ \A u \in {r.seq, 0} : Max({r.seq, 0}) >= u
    <3>1. \E x \in {r.seq, 0} : \A u \in {r.seq, 0} : x >= u
      BY <1>2
    <3> QED BY <3>1 DEF Max
  <2> QED BY <1>2, <2>1 DEF Sq
<1>3. CASE r.seq \in Nat
  <2>1. Max({r.seq, 0}) \in {r.seq, 0} /\ \A u \in {r.seq, 0} : Max({r.seq, 0}) >= u
    <3>1. \E x \in {r.seq, 0} : \A u \in {r.seq, 0} : x >= u
      BY <1>3
    <3> QED BY <3>1 DEF Max
  <2> QED BY <1>3, <2>1 DEF Sq
<1> QED BY <1>1, <1>2, <1>3

(* The fields after an answer.                                               *)
LEMMA ToldIs ==
  ASSUME NEW r \in Searchs, NEW d \in Dir, NEW m, m \in Used(d), disk[d] \in Row(d),
         NEW n \in Nat, NEW p \in Nat, NEW h \in Nat, NEW st \in {"more", "last"}, NEW c \in BOOLEAN,
         NEW t, t = Told(r, d, m, n, p, h, st, c)
  PROVE  /\ t \in Searchs
         /\ t.state = st /\ t.kind = r.kind /\ t.dir = r.dir /\ t.h = h /\ t.seq = n /\ t.pos = p
         /\ t.removed = r.removed /\ t.added = r.added /\ t.evicted = r.evicted
<1>1. disk[d][m] \in Ino
  BY Reading, RowIs
<1> QED BY <1>1 DEF Told, Searchs

(* One that ends keeps what the properties need.                             *)
LEMMA EndedIs ==
  ASSUME NEW r \in Searchs, NEW c \in BOOLEAN, NEW t, t = Ended(r, c)
  PROVE  /\ t \in Searchs
         /\ t.state = "done" /\ t.kind = r.kind /\ t.stay = r.stay \ r.got /\ t.twice = {}
         /\ t.counted = (r.counted \/ c) /\ t.removed = r.removed /\ t.evicted = r.evicted
<1>1. /\ r.kind \in {"ns", "dir", "file"} /\ r.dir \in Dir \cup {0} /\ r.stay \ r.got \in SUBSET Ino
      /\ (r.counted \/ c) \in BOOLEAN /\ r.removed \in BOOLEAN /\ r.evicted \in BOOLEAN
  BY DEF Searchs
<1>2. t = [state |-> "done", kind |-> r.kind, dir |-> r.dir, h |-> 0, seq |-> 0, pos |-> 0,
           stay |-> r.stay \ r.got, got |-> {}, twice |-> {}, counted |-> (r.counted \/ c),
           removed |-> r.removed, added |-> FALSE, evicted |-> r.evicted]
  BY DEF Ended, Off
<1> QED BY <1>1, <1>2 DEF Searchs

(* An answer is right when the search goes on at the right slot.             *)
LEMMA Tells ==
  ASSUME NEW s \in Search, NEW r \in Searchs, NEW d \in Dir, r.dir = d,
         disk[d] \in Row(d), Plain(disk[d]), Knows(s, r, disk[d]),
         NEW b \in Nat, NEW c \in BOOLEAN, GoesOn(r, disk[d], b, c),
         NEW m, m = Matching(s, d, b), m # End(d),
         NEW n \in Nat, n >= 1, NEW p \in Nat, m <= p, Own(Used(d), n, p, r.removed, r.added),
         \A i \in Used(d) : m < i /\ i <= p => disk[d][i] \notin Match[s],
         NEW h \in Nat, NEW st \in {"more", "last"},
         st = "last" => \A i \in Used(d) : m < i => disk[d][i] \notin Match[s],
         NEW t, t = Told(r, d, m, n, p, h, st, c)
  PROVE  Knows(s, t, disk[d])
<1> DEFINE F == disk[d]
<1>1. /\ m \in Nat /\ m \in Used(d) /\ b <= m /\ F[m] \in Match[s]
      /\ \A i \in Used(d) : b <= i /\ i < m => F[i] \notin Match[s]
  BY MatchingIs
<1>2. /\ t.state = st /\ t.seq = n /\ t.pos = p
      /\ t.stay = r.stay /\ t.got = r.got \cup {F[m]}
      /\ t.twice = IF F[m] \in r.got THEN r.twice \cup {F[m]} ELSE r.twice
      /\ t.counted = (r.counted \/ c) /\ t.removed = r.removed /\ t.added = r.added
  BY <1>1 DEF Told, Searchs
<1>3. Used(d) = Filled(F) /\ Used(d) \subseteq Nat
  BY Reading DEF SlotSets
<1>4. /\ r.stay \subseteq Match[s]
      /\ \A i \in Staying(F, r) : i \in Used(d) /\ i \in Nat /\ F[i] \in r.stay /\ F[i] \in Match[s]
      /\ Staying(F, t) = Staying(F, r)
  BY <1>2, <1>3 DEF Staying, Filled, Knows
<1>5. \A i \in Staying(F, r) : F[i] = F[m] => i = m
  BY <1>1, <1>3, <1>4 DEF Plain, Filled
<1>6. Sq(t) = n
  BY <1>2 DEF Sq
<1>7. ~(t.counted /\ t.removed) => \A i \in Staying(F, t) : i <= p \/ st = "last" => F[i] \in t.got
  <2> SUFFICES ASSUME ~(t.counted /\ t.removed), NEW i \in Staying(F, r), i <= p \/ st = "last"
               PROVE  F[i] \in t.got
    BY <1>4
  <2>1. i < b => F[i] \in r.got
    BY <1>2 DEF GoesOn
  <2>2. ~(b <= i /\ i < m) /\ ~(m < i)
    BY <1>1, <1>4
  <2>3. i < b \/ i = m
    BY <1>1, <1>4, <2>2
  <2> QED BY <1>2, <2>1, <2>3
<1>8. ASSUME ~(t.counted /\ t.added)
      PROVE  /\ t.stay \cap t.twice = {}
             /\ \A i \in Staying(F, t) : F[i] \in t.got => i <= p
  <2>1. \A i \in Staying(F, r) : F[i] \in r.got => i < b
    BY <1>2, <1>8 DEF GoesOn
  <2>2. r.stay \cap r.twice = {}
    BY <1>2, <1>8 DEF Knows
  <2>3. F[m] \in r.stay => m \in Staying(F, r)
    BY <1>1, <1>3 DEF Staying, Filled
  <2>4. F[m] \in r.stay => F[m] \notin r.got
    BY <1>1, <1>4, <2>1, <2>3
  <2>5. ASSUME NEW i \in Staying(F, r), F[i] \in t.got PROVE i <= p
    <3>1. CASE F[i] \in r.got
      BY <1>1, <1>4, <2>1, <3>1
    <3>2. CASE F[i] = F[m]
      BY <1>5, <3>2
    <3> QED BY <1>2, <2>5, <3>1, <3>2
  <2> QED BY <1>2, <1>4, <2>2, <2>4, <2>5
<1>9. \A x \in t.stay : \E i \in Staying(F, t) : F[i] = x
  BY <1>2, <1>4 DEF Knows
<1>10. t.state = "last" /\ ~(t.counted /\ t.removed) => t.stay \subseteq t.got
  BY <1>2, <1>7, <1>9
<1>11. Own(Filled(F), Sq(t), t.pos, t.removed, t.added)
  BY <1>2, <1>3, <1>6
<1> QED BY <1>2, <1>4, <1>7, <1>8, <1>9, <1>10, <1>11 DEF Knows

(* A search ends when it is at the end.                                      *)
LEMMA Ends ==
  ASSUME NEW s \in Search, NEW r \in Searchs, NEW d \in Dir, r.dir = d,
         disk[d] \in Row(d), Knows(s, r, disk[d]),
         NEW b \in Nat, NEW c \in BOOLEAN, GoesOn(r, disk[d], b, c), Matching(s, d, b) = End(d),
         NEW t, t = Ended(r, c), ~(t.counted /\ t.removed)
  PROVE  t.stay = {}
<1> DEFINE F == disk[d]
<1>1. \A i \in Used(d) : b <= i => F[i] \notin Match[s]
  <2>1. \A i \in Used(d) : i < End(d)
    BY Reading, RowIs
  <2> QED BY <2>1, MatchingIs
<1>2. t.stay = r.stay \ r.got /\ ~((r.counted \/ c) /\ r.removed)
  BY EndedIs
<1>3. Used(d) = Filled(F) /\ Used(d) \subseteq Nat
  BY Reading DEF SlotSets
<1>4. \A i \in Staying(F, r) : F[i] \in r.got
  BY <1>1, <1>2, <1>3 DEF GoesOn, Knows, Staying, Filled
<1> QED BY <1>2, <1>4 DEF Knows

-----------------------------------------------------------------------------
(* Searches: where a search goes on                                          *)

(* A noted position as the search r sees it.                                 *)
NearTo(r, F, n, p) == Near(Filled(F), Staying(F, r), Sq(r), r.pos, n, p, r.removed, r.added)

(* By counting from the start.                                               *)
LEMMA CountGoesOn ==
  ASSUME NEW s \in Search, NEW r \in Searchs, NEW d \in Dir, disk[d] \in Row(d),
         Knows(s, r, disk[d]), NEW c \in BOOLEAN, Sq(r) > 0 => c
  PROVE  GoesOn(r, disk[d], Nth(d, Sq(r)), c)
<1> DEFINE F == disk[d]
<1>1. PICK q \in Nat : q = Sq(r)
  BY SqIs
<1>2. PICK b : b = Nth(d, q)
  OBVIOUS
<1>3. /\ b \in Nat
      /\ b # End(d) => b \in Used(d) /\ Cnt(Used(d), 0, b) = q + 1
      /\ \A i \in Used(d) : q < Cnt(Used(d), 0, i) => b <= i
  BY <1>2, NthIs
<1>4. Used(d) = Filled(F) /\ Used(d) \in SlotSets /\ Used(d) \subseteq Nat
  BY Reading DEF SlotSets
<1>5. \A i \in Staying(F, r) : i \in Used(d) /\ i \in Nat /\ 0 < i /\ i < End(d)
  BY <1>4, RowIs
<1>6. r.pos \in Nat /\ r.seq \in Nat \cup {-1}
  BY DEF Searchs
<1>7. q = 0 => r.got = {} /\ r.pos = 0
  BY <1>1, <1>6 DEF Knows, Sq
<1>8. Own(Used(d), q, r.pos, r.removed, r.added)
  BY <1>1, <1>4 DEF Knows
<1>9. ASSUME ~((r.counted \/ c) /\ r.removed), NEW i \in Staying(F, r), i < b
      PROVE  F[i] \in r.got
  <2>1. ~(q < Cnt(Used(d), 0, i))
    BY <1>3, <1>5, <1>9
  <2>2. ASSUME i > r.pos PROVE q > 0 /\ ~(q <= Cnt(Used(d), 0, r.pos))
    <3>1. Cnt(Used(d), 0, i) = Cnt(Used(d), 0, r.pos) + Cnt(Used(d), r.pos, i)
      <4>1. 0 <= r.pos /\ r.pos <= i
        BY <1>5, <1>6, <2>2
      <4> QED BY <1>4, <1>5, <1>6, <4>1, CntSplit
    <3>2. Cnt(Used(d), r.pos, i) \in Nat /\ Cnt(Used(d), 0, r.pos) \in Nat
      BY <1>4, <1>5, <1>6, CntIs
    <3>3. Cnt(Used(d), r.pos, i) > 0
      <4>1. i \in Used(d) /\ i \in Nat /\ r.pos < i /\ i <= i
        BY <1>5, <1>6, <2>2
      <4> QED BY <1>4, <1>6, <4>1, CntHas
    <3> QED BY <2>1, <3>1, <3>2, <3>3
  <2>3. CASE i > r.pos
    <3>1. c /\ ~r.removed
      BY <1>1, <1>9, <2>2, <2>3
    <3> QED BY <1>8, <2>2, <2>3, <3>1 DEF Own
  <2>4. CASE i <= r.pos
    BY <1>9, <2>4 DEF Knows
  <2> QED BY <1>5, <1>6, <2>3, <2>4
<1>10. ASSUME ~((r.counted \/ c) /\ r.added), NEW i \in Staying(F, r), F[i] \in r.got
       PROVE  i < b
  <2>1. i <= r.pos /\ q > 0
    BY <1>7, <1>10 DEF Knows
  <2>2. ~r.added
    BY <1>1, <1>10, <2>1
  <2>3. q >= Cnt(Used(d), 0, r.pos)
    BY <1>8, <2>2 DEF Own
  <2>4. CASE b = End(d)
    BY <1>5, <2>4
  <2>5. CASE b # End(d) /\ b <= i
    <3>1. Cnt(Used(d), 0, r.pos) = Cnt(Used(d), 0, b) + Cnt(Used(d), b, r.pos)
      <4>1. 0 <= b /\ b <= r.pos
        BY <1>3, <1>5, <1>6, <2>1, <2>5
      <4> QED BY <1>3, <1>4, <1>6, <4>1, CntSplit
    <3>2. Cnt(Used(d), b, r.pos) \in Nat
      BY <1>3, <1>4, <1>6, CntIs
    <3> QED BY <1>3, <2>3, <2>5, <3>1, <3>2
  <2> QED BY <1>3, <1>5, <2>4, <2>5
<1> QED BY <1>1, <1>2, <1>9, <1>10 DEF GoesOn

(* From a noted position with the search's number.                           *)
LEMMA NearGoesOn ==
  ASSUME NEW s \in Search, NEW r \in Searchs, NEW d \in Dir, NEW F \in Row(d), Knows(s, r, F),
         NEW n, NEW p \in Nat, NearTo(r, F, n, p), n = Sq(r),
         NEW b \in Nat, p < b, \A i \in Staying(F, r) : i < b => i <= p,
         NEW c \in BOOLEAN, p # r.pos => c
  PROVE  GoesOn(r, F, b, c)
<1>1. /\ Filled(F) \in SlotSets /\ Staying(F, r) \in SUBSET Filled(F) /\ Staying(F, r) \in SlotSets
      /\ \A i \in Filled(F) : i \in Nat
  BY RowIs, PartOf
<1>2. r.pos \in Nat /\ n \in Nat
  BY SqIs DEF Searchs
<1>3. ASSUME ~((r.counted \/ c) /\ r.removed), NEW i \in Staying(F, r), i < b
      PROVE  F[i] \in r.got
  <2>1. i \in Nat /\ i <= p
    BY <1>1, <1>3
  <2>2. CASE p <= r.pos
    BY <1>2, <1>3, <2>1, <2>2 DEF Knows
  <2>3. CASE p > r.pos
    <3>1. ~r.removed
      BY <1>2, <1>3, <2>3
    <3>2. n - Sq(r) >= Cnt(Staying(F, r), r.pos, p)
      BY <2>3, <3>1 DEF NearTo, Near
    <3>3. Cnt(Staying(F, r), r.pos, p) = 0
      <4>1. Cnt(Staying(F, r), r.pos, p) \in Nat
        BY <1>1, <1>2, CntIs
      <4> QED BY <1>2, <3>2, <4>1
    <3>4. i <= r.pos
      BY <1>1, <1>2, <1>3, <2>1, <2>3, <3>3, CntHas
    <3> QED BY <1>3, <3>4 DEF Knows
  <2> QED BY <1>2, <2>2, <2>3
<1>4. ASSUME ~((r.counted \/ c) /\ r.added), NEW i \in Staying(F, r), F[i] \in r.got
      PROVE  i < b
  <2>1. i \in Nat /\ i \in Filled(F) /\ i <= r.pos
    BY <1>1, <1>4 DEF Knows
  <2>2. CASE p >= r.pos
    BY <1>2, <2>1, <2>2
  <2>3. CASE p < r.pos
    <3>1. ~r.added
      BY <1>2, <1>4, <2>3
    <3>2. Sq(r) - n >= Cnt(Filled(F), p, r.pos)
      BY <1>2, <2>3, <3>1 DEF NearTo, Near
    <3>3. Cnt(Filled(F), p, r.pos) = 0
      <4>1. Cnt(Filled(F), p, r.pos) \in Nat
        BY <1>1, <1>2, CntIs
      <4> QED BY <1>2, <3>2, <4>1
    <3>4. i <= p
      BY <1>1, <1>2, <2>1, <3>3, CntHas
    <3> QED BY <2>1, <3>4
  <2> QED BY <1>2, <2>2, <2>3
<1> QED BY <1>3, <1>4 DEF GoesOn

(* The slot up to which entries are skipped.                                 *)
LEMMA SkippedIs ==
  ASSUME NEW d \in Dir, disk[d] \in Row(d), NEW a \in Nat, NEW k \in Nat, k >= 1,
         NEW p, p = First(d, {i \in Used(d) : i > a /\ Between(d, a + 1, i + 1) = k})
  PROVE  /\ p \in Nat /\ 1 <= p /\ p <= End(d)
         /\ p # End(d) => p \in Used(d) /\ a < p /\ Cnt(Used(d), a, p) = k
         /\ \A x \in Nat : k <= Cnt(Used(d), a, x) => p # End(d) /\ p <= x
<1> DEFINE S == {i \in Used(d) : i > a /\ Between(d, a + 1, i + 1) = k}
<1>1. Used(d) \in SlotSets /\ Used(d) \in SUBSET Slots(d) /\ Used(d) \subseteq Nat
  BY Reading DEF SlotSets
<1>2. \A i \in S : i \in Used(d) /\ i \in Nat /\ a < i /\ Cnt(Used(d), a, i) = k
  BY <1>1, Reading
<1>3. \A i \in Used(d) : a < i /\ Cnt(Used(d), a, i) = k => i \in S
  BY <1>1, Reading
<1>4. S \in SUBSET Slots(d)
  BY <1>1
<1>5. p = First(d, S)
  OBVIOUS
<1> HIDE DEF S
<1>6. /\ p \in Nat /\ 1 <= p /\ p <= End(d)
      /\ p # End(d) => p \in S
      /\ \A i \in S : p <= i /\ p # End(d)
  <2>1. /\ First(d, S) \in Nat /\ 1 <= First(d, S) /\ First(d, S) <= End(d)
        /\ First(d, S) = End(d) <=> S = {}
        /\ First(d, S) # End(d) => First(d, S) \in S
        /\ \A i \in S : First(d, S) <= i
    BY <1>4, FirstIs
  <2> QED BY <1>5, <2>1
<1>7. ASSUME NEW x \in Nat, k <= Cnt(Used(d), a, x) PROVE p # End(d) /\ p <= x
  <2>1. PICK i \in Used(d) : a < i /\ i <= x /\ Cnt(Used(d), a, i) = k
    BY <1>1, <1>7, Reach
  <2>2. i \in S
    BY <1>3, <2>1
  <2> QED BY <1>2, <1>6, <2>1, <2>2
<1> QED BY <1>2, <1>6, <1>7

(* From a noted position with a smaller number, by skipping.                 *)
LEMMA OnGoesOn ==
  ASSUME NEW s \in Search, NEW r \in Searchs, NEW d \in Dir, disk[d] \in Row(d),
         Knows(s, r, disk[d]),
         NEW n \in Nat, NEW a \in Nat, NearTo(r, disk[d], n, a), n < Sq(r),
         NEW p, p = First(d, {i \in Used(d) : i > a /\ Between(d, a + 1, i + 1) = Sq(r) - n})
  PROVE  GoesOn(r, disk[d], p + 1, TRUE)
<1> DEFINE F == disk[d]
<1>1. Sq(r) \in Nat /\ r.pos \in Nat
  BY SqIs DEF Searchs
<1>2. PICK k \in Nat : k = Sq(r) - n /\ k >= 1
  BY <1>1
<1>3. /\ p \in Nat
      /\ p # End(d) => p \in Used(d) /\ a < p /\ Cnt(Used(d), a, p) = k
      /\ \A x \in Nat : k <= Cnt(Used(d), a, x) => p # End(d) /\ p <= x
  BY <1>2, SkippedIs
<1>4. Used(d) = Filled(F) /\ Used(d) \in SlotSets
  BY Reading
<1>5. /\ Staying(F, r) \in SUBSET Filled(F)
      /\ \A i \in Staying(F, r) : i \in Used(d) /\ i \in Nat /\ i < End(d)
  BY <1>4, RowIs
<1>6. End(d) \in Nat
  BY RowIs
<1>7. ASSUME ~((r.counted \/ TRUE) /\ r.removed), NEW i \in Staying(F, r), i < p + 1
      PROVE  F[i] \in r.got
  <2>1. ~r.removed
    BY <1>7
  <2>2. a > r.pos => n - Sq(r) >= Cnt(Staying(F, r), r.pos, a)
    BY <2>1 DEF NearTo, Near
  <2>3. Cnt(Staying(F, r), r.pos, a) \in Nat
    <3>1. Staying(F, r) \in SlotSets
      BY <1>4, <1>5, PartOf
    <3> QED BY <1>1, <3>1, CntIs
  <2>4. a <= r.pos
    BY <1>1, <2>2, <2>3
  <2>5. Sq(r) - n <= Cnt(Used(d), a, r.pos)
    BY <1>4, <2>1, <2>4 DEF NearTo, Near
  <2>6. p <= r.pos
    BY <1>1, <1>2, <1>3, <2>5
  <2>7. i \in Nat /\ i <= r.pos
    BY <1>1, <1>3, <1>5, <1>7, <2>6
  <2> QED BY <1>4, <2>1, <2>7 DEF Knows
<1>8. ASSUME ~((r.counted \/ TRUE) /\ r.added), NEW i \in Staying(F, r), F[i] \in r.got
      PROVE  i < p + 1
  <2>1. ~r.added
    BY <1>8
  <2>2. i <= r.pos
    BY <1>8, <2>1 DEF Knows
  <2>3. CASE p = End(d)
    BY <1>5, <1>6, <2>3
  <2>4. ASSUME p # End(d), p < i PROVE FALSE
    <3>1. p \in Nat /\ a <= p /\ p <= r.pos /\ a <= r.pos /\ p < i /\ i \in Nat
      BY <1>1, <1>3, <1>5, <2>2, <2>4
    <3>2. Sq(r) - n >= Cnt(Used(d), a, r.pos)
      BY <1>4, <2>1, <3>1 DEF NearTo, Near
    <3>3. Cnt(Used(d), a, r.pos) = Cnt(Used(d), a, p) + Cnt(Used(d), p, r.pos)
      BY <1>1, <1>4, <3>1, CntSplit
    <3>4. Cnt(Used(d), p, r.pos) > 0
      BY <1>1, <1>4, <1>5, <2>2, <3>1, CntHas
    <3>5. Cnt(Used(d), p, r.pos) \in Nat
      BY <1>1, <1>4, <3>1, CntIs
    <3> QED BY <1>1, <1>2, <1>3, <2>4, <3>2, <3>3, <3>4, <3>5
  <2> QED BY <1>3, <1>5, <2>3, <2>4
<1> QED BY <1>7, <1>8 DEF GoesOn

-----------------------------------------------------------------------------
(* Searches: the handle of a directory                                       *)

DirHandle ==
  {f \in [dir : Dir \cup {0}, used : BOOLEAN, seq : Nat, dirpos : Nat] :
     /\ f.seq = 0 => f.dirpos = 0
     /\ f.dir \in Dir => f.dirpos < End(f.dir)}

ReadTo(f, n, p) == [f EXCEPT !.seq = n, !.dirpos = p]

(* The fields of a handle that was read.                                     *)
LEMMA HandleIs ==
  ASSUME NEW f \in DirHandle, f.dir \in Dir, NEW n \in Nat, NEW p \in Nat, p < End(f.dir),
         n = 0 => p = 0, NEW g, g = ReadTo(f, n, p)
  PROVE  g \in DirHandle /\ g.dir = f.dir /\ g.used = f.used /\ g.seq = n /\ g.dirpos = p
  BY DEF DirHandle, ReadTo

(* Opened, and read up to an entry.                                          *)
LEMMA OpenAtIs ==
  ASSUME NEW d \in Dir, disk[d] \in Row(d), NEW pos \in {0} \cup Used(d), NEW f, f = OpenAt(d, pos)
  PROVE  /\ f \in DirHandle /\ f.dir = d /\ f.used /\ f.dirpos = pos
         /\ f.seq = Cnt(Used(d), 0, pos)
<1>1. Used(d) \in SlotSets /\ \A i \in Used(d) : i \in Nat /\ 0 < i /\ i < End(d)
  BY Reading, RowIs
<1>2. End(d) \in Nat /\ End(d) >= 1
  BY RowIs
<1>3. pos \in Nat /\ pos < End(d)
  BY <1>1, <1>2
<1>4. f = [dir |-> d, used |-> TRUE, seq |-> Cnt(Used(d), 0, pos), dirpos |-> pos]
  <2>1. Between(d, 0 + 1, pos + 1) = Cnt(Used(d), 0, pos)
    BY <1>3, Reading
  <2>2. Between(d, 1, pos + 1) = Cnt(Used(d), 0, pos)
    BY <2>1
  <2> QED BY <2>2 DEF OpenAt
<1>5. Cnt(Used(d), 0, pos) \in Nat
  BY <1>1, <1>3, CntIs
<1>6. Cnt(Used(d), 0, pos) = 0 => pos = 0
  <2> SUFFICES ASSUME pos # 0 PROVE Cnt(Used(d), 0, pos) > 0
    BY <1>5
  <2>1. pos \in Used(d) /\ 0 < pos /\ pos <= pos
    BY <1>1, <1>3
  <2> QED BY <1>1, <1>3, <2>1, CntHas
<1> QED BY <1>3, <1>4, <1>5, <1>6 DEF DirHandle

(* A handle that failed to open is of no directory.                          *)
LEMMA UnusedIs == Unused \in DirHandle /\ Unused.dir = 0 /\ ~Unused.used
<1>1. 0 \notin Dir
  BY SearchConstants
<1> QED BY <1>1 DEF Unused, DirHandle

(* Back to the start, or not.                                                *)
LEMMA RewindIs ==
  ASSUME NEW h \in DirHandle, h.dir \in Dir, NEW q \in Nat, NEW f, f = Rewind(h, q)
  PROVE  /\ f \in DirHandle /\ f.dir = h.dir /\ f.used = h.used
         /\ q < h.seq => f.seq = 0 /\ f.dirpos = 0
         /\ ~(q < h.seq) => f = h
<1>1. End(h.dir) \in Nat /\ End(h.dir) >= 1
  <2>1. Len(Files[h.dir]) \in Nat
    BY SearchConstants
  <2> QED BY <2>1 DEF End
<1>2. CASE q < h.seq
  <2>1. f = [dir |-> h.dir, used |-> h.used, seq |-> 0, dirpos |-> 0]
    BY <1>2 DEF Rewind, DirHandle
  <2>2. h.dir \in Dir \cup {0} /\ h.used \in BOOLEAN
    BY DEF DirHandle
  <2> QED BY <1>1, <1>2, <2>1, <2>2 DEF DirHandle
<1>3. CASE ~(q < h.seq)
  BY <1>3 DEF Rewind
<1> QED BY <1>2, <1>3

(* It stays near every search.                                               *)
LEMMA RewindNear ==
  ASSUME NEW h \in DirHandle, NEW d \in Dir, h.dir = d, NEW q \in Nat, NEW f, f = Rewind(h, q),
         NEW F \in Row(d), NEW s \in Search, NEW r \in Searchs, Knows(s, r, F),
         NearTo(r, F, h.seq, h.dirpos)
  PROVE  NearTo(r, F, f.seq, f.dirpos)
<1>1. CASE q < h.seq
  <2>1. f.seq = 0 /\ f.dirpos = 0
    BY <1>1, RewindIs
  <2>2. Filled(F) \in SlotSets /\ Staying(F, r) \in SUBSET Filled(F)
    BY RowIs
  <2>3. Cnt(Filled(F), 0, 0) = 0
    BY <2>2, CntFacts
  <2>4. Own(Filled(F), Sq(r), r.pos, r.removed, r.added)
    BY DEF Knows
  <2>5. /\ Sq(r) \in Int /\ r.pos \in Nat
        /\ r.removed \in BOOLEAN /\ r.added \in BOOLEAN
    <3>1. Sq(r) \in Nat
      BY SqIs
    <3>2. r.pos \in Nat /\ r.removed \in BOOLEAN /\ r.added \in BOOLEAN
      BY DEF Searchs
    <3> QED BY <3>1, <3>2
  <2>6. NearTo(r, F, 0, 0)
    BY <2>2, <2>3, <2>4, <2>5, NearExact DEF NearTo
  <2> QED BY <2>1, <2>6
<1>2. CASE ~(q < h.seq)
  BY <1>2, RewindIs
<1> QED BY <1>1, <1>2

(* Where an old search goes on.                                              *)
LEMMA SkipGoesOn ==
  ASSUME NEW s \in Search, NEW r \in Searchs, NEW d \in Dir, disk[d] \in Row(d),
         Knows(s, r, disk[d]), NEW h \in DirHandle, h.dir = d,
         NearTo(r, disk[d], h.seq, h.dirpos),
         NEW q, q = Sq(r), NEW f, f = Rewind(h, q), NEW p, p = Skipped(d, f, q),
         NEW c \in BOOLEAN, q > 0 /\ (q # h.seq \/ h.dirpos # r.pos) => c
  PROVE  GoesOn(r, disk[d], p + 1, c)
<1> DEFINE F == disk[d]
<1>1. q \in Nat /\ r.pos \in Nat
  BY SqIs DEF Searchs
<1>2. h.seq \in Nat /\ h.dirpos \in Nat /\ (h.seq = 0 => h.dirpos = 0)
  BY DEF DirHandle
<1>3. /\ f \in DirHandle /\ f.seq \in Nat /\ f.dirpos \in Nat
      /\ q < h.seq => f.seq = 0 /\ f.dirpos = 0
      /\ ~(q < h.seq) => f = h
  <2>1. /\ f \in DirHandle
        /\ q < h.seq => f.seq = 0 /\ f.dirpos = 0
        /\ ~(q < h.seq) => f = h
    BY <1>1, RewindIs
  <2> QED BY <2>1 DEF DirHandle
<1>4. NearTo(r, F, f.seq, f.dirpos)
  BY <1>1, RewindNear
<1>5. /\ Filled(F) \in SlotSets
      /\ \A i \in Filled(F) : i \in Nat /\ 0 < i
      /\ Staying(F, r) \in SUBSET Filled(F)
  BY RowIs
<1>6. q = 0 => r.pos = 0 /\ r.got = {}
  <2>1. r.seq \in Nat \cup {-1}
    BY DEF Searchs
  <2> QED BY <2>1 DEF Knows, Sq
<1>7. CASE q > f.seq
  <2>1. c
    BY <1>1, <1>2, <1>3, <1>7
  <2>2. p = First(d, {i \in Used(d) : i > f.dirpos /\ Between(d, f.dirpos + 1, i + 1) = Sq(r) - f.seq})
    BY <1>1, <1>3, <1>7 DEF Skipped
  <2>3. GoesOn(r, F, p + 1, TRUE)
    BY <1>1, <1>3, <1>4, <1>7, <2>2, OnGoesOn
  <2> QED BY <2>1, <2>3
<1>8. CASE q <= f.seq /\ q = h.seq
  <2>1. f = h /\ p = h.dirpos
    BY <1>1, <1>2, <1>3, <1>8 DEF Skipped
  <2>2. p # r.pos => c
    BY <1>1, <1>2, <1>6, <1>8, <2>1
  <2>3. p \in Nat /\ p + 1 \in Nat /\ p < p + 1 /\ \A i \in Staying(F, r) : i < p + 1 => i <= p
    BY <1>2, <1>5, <2>1
  <2>4. NearTo(r, F, h.seq, p) /\ h.seq = Sq(r)
    BY <1>8, <2>1
  <2> QED BY <2>2, <2>3, <2>4, NearGoesOn
<1>9. CASE q <= f.seq /\ q # h.seq
  <2>1. q = 0 /\ p = 0
    BY <1>1, <1>2, <1>3, <1>9 DEF Skipped
  <2>2. r.got = {} /\ \A i \in Staying(F, r) : ~(i < p + 1)
    BY <1>5, <1>6, <2>1
  <2> QED BY <2>2 DEF GoesOn
<1> QED BY <1>1, <1>3, <1>7, <1>8, <1>9

(* Read up to the end.                                                       *)
ReadOut(d, f) ==
  [f EXCEPT !.seq = @ + Between(d, f.dirpos + 1, End(d)), !.dirpos = LastUsed(d, @, End(d))]

(* Where the handle is after it: it counts on from where it was, or from the *)
(* start.                                                                    *)
LEMMA DirMoves ==
  ASSUME NEW s \in Search, NEW d \in Dir, disk[d] \in Row(d), NEW h \in DirHandle, h.dir = d,
         NEW q \in Nat, NEW f, f = Rewind(h, q), NEW p, p = Skipped(d, f, q),
         NEW m, m = Matching(s, d, p + 1),
         NEW g, g = ReadOut(d, f),
         NEW n, n = Max({q, f.seq}) + Between(d, p + 1, m) + 1,
         NEW e, e = ReadTo(f, n, m)
  PROVE  /\ p \in Nat /\ f.seq \in Nat /\ f.dirpos \in Nat
         /\ g \in DirHandle /\ g.dir = d /\ g.used = h.used /\ f.dirpos <= g.dirpos
         /\ g.seq = f.seq + Cnt(Used(d), f.dirpos, g.dirpos)
         /\ p # End(d) /\ m # End(d) =>
              /\ e \in DirHandle /\ e.dir = d /\ e.used = h.used /\ e.seq = n /\ e.dirpos = m
              /\ m \in Nat /\ f.dirpos <= m /\ n \in Nat /\ n >= 1
              /\ n = f.seq + Cnt(Used(d), f.dirpos, m)
<1>1. /\ Used(d) \in SlotSets /\ End(d) \in Nat /\ End(d) >= 1
      /\ \A i \in Used(d) : i \in Nat /\ 0 < i /\ i < End(d)
  BY Reading, RowIs
<1>2. /\ f \in DirHandle /\ f.dir = d /\ f.used = h.used
      /\ f.seq \in Nat /\ f.dirpos \in Nat /\ f.dirpos < End(d)
      /\ f.seq = 0 => f.dirpos = 0
  <2>1. f \in DirHandle /\ f.dir = d /\ f.used = h.used
    BY RewindIs
  <2> QED BY <2>1 DEF DirHandle
<1>3. PICK a \in Nat, k \in Nat : a = f.dirpos /\ k = f.seq
  BY <1>2
<1>4. PICK l \in Nat : End(d) = l + 1
  <2>1. End(d) - 1 \in Nat /\ End(d) = (End(d) - 1) + 1
    BY <1>1
  <2> QED BY <2>1
<1>5. PICK o \in Nat : /\ o = LastUsed(d, a, End(d)) /\ a <= o /\ o < End(d)
                       /\ o = a \/ o \in Used(d)
                       /\ \A i \in Used(d) : i < End(d) => i <= o
  BY <1>1, <1>2, <1>3, LastUsedIs
<1>6. Between(d, a + 1, End(d)) = Cnt(Used(d), a, o)
  <2>1. Between(d, a + 1, l + 1) = Cnt(Used(d), a, l)
    BY Reading
  <2>2. o <= l /\ \A i \in Used(d) : i <= l => i <= o
    BY <1>1, <1>4, <1>5
  <2>3. Cnt(Used(d), a, l) = Cnt(Used(d), a, o)
    BY <1>1, <1>5, <2>2, CntUpTo
  <2> QED BY <1>4, <2>1, <2>3
<1>7. Cnt(Used(d), a, o) \in Nat
  BY <1>1, CntIs
<1>8. g = ReadTo(f, k + Cnt(Used(d), a, o), o)
  BY <1>2, <1>3, <1>5, <1>6 DEF ReadOut, ReadTo
<1>9. k + Cnt(Used(d), a, o) = 0 => o = 0
  <2> SUFFICES ASSUME k + Cnt(Used(d), a, o) = 0, o # 0 PROVE FALSE
    OBVIOUS
  <2>1. k = 0 /\ a = 0 /\ Cnt(Used(d), a, o) = 0
    BY <1>2, <1>3, <1>7
  <2>2. o \in Used(d) /\ a < o /\ o <= o
    BY <1>5, <2>1
  <2>3. Cnt(Used(d), a, o) > 0
    BY <1>1, <2>2, CntHas
  <2> QED BY <2>1, <2>3
<1>10. g \in DirHandle /\ g.dir = d /\ g.used = h.used /\ g.dirpos = o /\ g.seq = k + Cnt(Used(d), a, o)
  <2>1. k + Cnt(Used(d), a, o) \in Nat
    BY <1>7
  <2>2. PICK v \in Nat : v = k + Cnt(Used(d), a, o)
    BY <2>1
  <2>3. g = ReadTo(f, v, o) /\ (v = 0 => o = 0) /\ o < End(d)
    BY <1>5, <1>8, <1>9, <2>2
  <2>4. ReadTo(f, v, o) \in DirHandle
    BY <1>2, <2>3, HandleIs
  <2>5. ReadTo(f, v, o).dir = f.dir
    BY <1>2, <2>3, HandleIs
  <2>6. ReadTo(f, v, o).used = f.used
    BY <1>2, <2>3, HandleIs
  <2>7. ReadTo(f, v, o).dirpos = o /\ ReadTo(f, v, o).seq = v
    BY <1>2, <2>3, HandleIs
  <2>8. g \in DirHandle /\ g.dir = d /\ g.used = h.used /\ g.dirpos = o /\ g.seq = v
    BY <1>2, <2>3, <2>4, <2>5, <2>6, <2>7
  <2> QED BY <2>2, <2>8
<1>11. p \in Nat /\ (q <= k => p = a)
       /\ (q > k /\ p # End(d) => p \in Used(d) /\ a < p /\ Cnt(Used(d), a, p) = q - k)
  <2>1. CASE q <= k
    BY <1>3, <2>1 DEF Skipped
  <2>2. CASE q > k
    <3>1. p = First(d, {i \in Used(d) : i > a /\ Between(d, a + 1, i + 1) = q - k})
      BY <1>3, <2>2 DEF Skipped
    <3>2. PICK j \in Nat : j = q - k /\ j >= 1
      BY <2>2
    <3> QED BY <2>2, <3>1, <3>2, SkippedIs
  <2> QED BY <2>1, <2>2
<1>12. ASSUME p # End(d), m # End(d)
       PROVE  m \in Nat /\ a <= m /\ p < m /\ m < End(d) /\ n = k + Cnt(Used(d), a, m) /\ n >= 1 /\ n \in Nat
  <2>1. m \in Nat /\ m \in Used(d) /\ p + 1 <= m
    BY <1>11, <1>12, MatchingIs
  <2>2. a <= p
    BY <1>11, <1>12
  <2>3. PICK j \in Nat : m = j + 1 /\ p <= j
    <3>1. m - 1 \in Nat /\ m = (m - 1) + 1 /\ p <= m - 1
      BY <1>11, <2>1
    <3> QED BY <3>1
  <2>4. Between(d, p + 1, m) = Cnt(Used(d), p, j)
    BY <1>11, <2>3, Reading
  <2>5. Cnt(Used(d), p, m) = Cnt(Used(d), p, j) + 1
    <3>1. Cnt(Used(d), j, m) = 1
      BY <1>1, <2>1, <2>3, CntOne
    <3>2. p <= j /\ j <= m
      BY <2>3
    <3> QED BY <1>1, <1>11, <2>1, <3>1, <3>2, CntSplit
  <2>6. Cnt(Used(d), a, m) = Cnt(Used(d), a, p) + Cnt(Used(d), p, m)
    <3>1. a <= p /\ p <= m
      BY <1>11, <2>1, <2>2
    <3> QED BY <1>1, <1>11, <2>1, <3>1, CntSplit
  <2>7. Cnt(Used(d), p, j) \in Nat /\ Cnt(Used(d), a, p) \in Nat
    BY <1>1, <1>11, CntIs
  <2>8. q <= k => Cnt(Used(d), a, p) = 0
    <3>1. Cnt(Used(d), a, a) = 0
      BY <1>1, CntFacts
    <3> QED BY <1>11, <3>1
  <2>9. Max({q, k}) = k + Cnt(Used(d), a, p)
    <3>1. Max({q, k}) \in {q, k} /\ \A u \in {q, k} : Max({q, k}) >= u
      <4>1. \E x \in {q, k} : \A u \in {q, k} : x >= u
        OBVIOUS
      <4> QED BY <4>1 DEF Max
    <3>2. q <= k => Max({q, k}) = k
      BY <3>1
    <3>3. q > k => Max({q, k}) = q
      BY <3>1
    <3> QED BY <1>11, <1>12, <2>8, <3>2, <3>3
  <2>10. n = k + Cnt(Used(d), a, p) + Cnt(Used(d), p, j) + 1
    BY <1>3, <2>4, <2>9
  <2> QED BY <1>1, <1>11, <2>1, <2>2, <2>5, <2>6, <2>7, <2>10
<1>13. ASSUME p # End(d), m # End(d)
       PROVE  e \in DirHandle /\ e.dir = d /\ e.used = h.used /\ e.seq = n /\ e.dirpos = m
  <2>2. m \in Nat /\ m < End(d) /\ n \in Nat /\ n >= 1
    BY <1>12, <1>13
  <2>3. n = 0 => m = 0
    BY <2>2
  <2> QED BY <1>2, <2>2, <2>3, HandleIs
<1> QED BY <1>3, <1>5, <1>10, <1>11, <1>12, <1>13

-----------------------------------------------------------------------------
(* Searches: the handles of the name space calls                             *)

SearchHandle == [dir : Dir, idle : 0..MaxIdle, dirpos : Nat, found : Ino \cup {0}, last : Nat]

(* What a handle says, if it is that of the search r: its position is near,  *)
(* and the entry found there is the next one.                                *)
Noted(r, F, f) ==
  f.dirpos # 0 =>
    /\ NearTo(r, F, f.last, f.dirpos)
    /\ f.found # 0 /\ ~r.removed =>
         \E e \in Filled(F) : /\ F[e] = f.found /\ f.dirpos < e
                              /\ \A i \in Staying(F, r) : i < e => i <= f.dirpos
    /\ f.found # 0 /\ ~r.added =>
         \A e \in Filled(F) : F[e] = f.found =>
            f.dirpos < e /\ \A i \in Filled(F) : i < e => i <= f.dirpos

(* A number m for the position o: counted on from n at p, or from the start. *)
Moved(U, n, p, m, o) ==
  \/ p # 0 /\ p <= o /\ m = n + Cnt(U, p, o)
  \/ m = Cnt(U, 0, o)

(* A handle that moves stays near every search.                              *)
LEMMA NearMoved ==
  ASSUME NEW s \in Search, NEW d \in Dir, NEW F \in Row(d), NEW r \in Searchs, Knows(s, r, F),
         NEW n \in Nat, NEW p \in Nat, p # 0 => NearTo(r, F, n, p),
         NEW m \in Nat, NEW o \in Nat, Moved(Filled(F), n, p, m, o)
  PROVE  NearTo(r, F, m, o)
<1>1. Filled(F) \in SlotSets /\ Staying(F, r) \in SUBSET Filled(F)
  BY RowIs
<1>2. Own(Filled(F), Sq(r), r.pos, r.removed, r.added)
  BY DEF Knows
<1>3. Sq(r) \in Nat
  BY SqIs
<1>4. r.pos \in Nat /\ r.removed \in BOOLEAN /\ r.added \in BOOLEAN
  BY DEF Searchs
<1>5. CASE p # 0 /\ p <= o /\ m = n + Cnt(Filled(F), p, o)
  <2>1. Near(Filled(F), Staying(F, r), Sq(r), r.pos, n, p, r.removed, r.added)
    BY <1>5 DEF NearTo
  <2>2. Sq(r) \in Int /\ n \in Int /\ m \in Int
    BY <1>3
  <2>3. Near(Filled(F), Staying(F, r), Sq(r), r.pos, m, o, r.removed, r.added)
    BY <1>1, <1>4, <1>5, <2>1, <2>2, NearOn
  <2> QED BY <2>3 DEF NearTo
<1>6. CASE m = Cnt(Filled(F), 0, o)
  <2>1. Sq(r) \in Int /\ m \in Int
    BY <1>3
  <2>2. Near(Filled(F), Staying(F, r), Sq(r), r.pos, m, o, r.removed, r.added)
    BY <1>1, <1>2, <1>4, <1>6, <2>1, NearExact
  <2> QED BY <2>2 DEF NearTo
<1> QED BY <1>5, <1>6 DEF Moved

(* The next slot used behind a position.                                     *)
LEMMA NextSlotIs ==
  ASSUME NEW d \in Dir, disk[d] \in Row(d), NEW p \in Nat, NEW n, n = NextSlot(d, p)
  PROVE  /\ n \in Nat /\ 1 <= n /\ n <= End(d)
         /\ n # End(d) => n \in Used(d) /\ p < n
         /\ \A i \in Used(d) : i < n => i <= p
<1> DEFINE S == {i \in Used(d) : i > p}
<1>1. S \in SUBSET Slots(d)
  BY Reading
<1>2. Used(d) \subseteq Nat
  BY Reading DEF SlotSets
<1>3. n = First(d, S)
  BY DEF NextSlot
<1>4. /\ First(d, S) \in Nat /\ 1 <= First(d, S) /\ First(d, S) <= End(d)
      /\ First(d, S) # End(d) => First(d, S) \in S
      /\ \A i \in S : First(d, S) <= i
  <2> HIDE DEF S
  <2> QED BY <1>1, FirstIs
<1>5. ASSUME NEW i \in Used(d), i < First(d, S) PROVE i <= p
  <2>1. i \notin S
    BY <1>2, <1>4, <1>5
  <2> QED BY <1>2, <2>1
<1> QED BY <1>3, <1>4, <1>5

(* The slot of an entry.                                                     *)
LEMMA SlotOfIs ==
  ASSUME NEW d \in Dir, disk[d] \in Row(d), NEW x, NEW n, n = SlotOf(d, x)
  PROVE  /\ n \in Nat /\ 1 <= n /\ n <= End(d)
         /\ n # End(d) => n \in Used(d) /\ disk[d][n] = x
         /\ n = End(d) => \A i \in Used(d) : disk[d][i] # x
<1> DEFINE S == {i \in Used(d) : disk[d][i] = x}
<1>1. S \in SUBSET Slots(d)
  BY Reading
<1>2. n = First(d, S)
  BY DEF SlotOf
<1>3. /\ First(d, S) \in Nat /\ 1 <= First(d, S) /\ First(d, S) <= End(d)
      /\ First(d, S) = End(d) => S = {}
      /\ First(d, S) # End(d) => First(d, S) \in S
  <2> HIDE DEF S
  <2> QED BY <1>1, FirstIs
<1> QED BY <1>2, <1>3

(* The three ways to find the place to go on.                                *)
Remembered(d, f, q, at) ==
  LET n == NextSlot(d, f.dirpos) IN
  /\ q # 0 /\ q = f.last /\ f.dirpos # 0 /\ n # End(d) /\ (f.found = 0 \/ f.found = disk[d][n])
  /\ at = [slot |-> n, last |-> f.last, noted |-> TRUE]
Refound(d, f, q, at) ==
  LET m == SlotOf(d, f.found) IN
  /\ q # 0 /\ q = f.last /\ f.dirpos # 0 /\ f.found # 0 /\ m # End(d)
  /\ at = [slot |-> m, last |-> Between(d, 1, m), noted |-> FALSE]

(* There are no others.                                                      *)
LEMMA PositionIs ==
  ASSUME NEW d \in Dir, NEW f, NEW q, NEW at, at = Position(d, f, q)
  PROVE  Remembered(d, f, q, at) \/ Refound(d, f, q, at) \/ at = Counted(d, q)
  BY DEF Position, Remembered, Refound

(* The number noted at the place to go on.                                   *)
LEMMA AtIs ==
  ASSUME NEW d \in Dir, disk[d] \in Row(d), NEW f \in SearchHandle, NEW q \in Nat,
         NEW at, at = Position(d, f, q)
  PROVE  /\ at.slot \in Nat /\ 1 <= at.slot /\ at.slot <= End(d) /\ at.last \in Nat
         /\ at.slot # End(d) =>
              \E j \in Nat :
                 /\ at.slot = j + 1
                 /\ \/ at.last = Cnt(Used(d), 0, j)
                    \/ /\ f.dirpos # 0 /\ f.dirpos <= j
                       /\ at.last = f.last + Cnt(Used(d), f.dirpos, j)
<1>1. /\ Used(d) \in SlotSets /\ End(d) \in Nat /\ End(d) >= 1
      /\ \A i \in Used(d) : i \in Nat /\ 0 < i
  BY Reading, RowIs
<1>2. f.dirpos \in Nat /\ f.last \in Nat
  BY DEF SearchHandle
<1>3. CASE Remembered(d, f, q, at)
  <2>1. PICK n : n = NextSlot(d, f.dirpos)
    OBVIOUS
  <2>2. at.slot = n /\ at.last = f.last /\ f.dirpos # 0 /\ n # End(d)
    BY <1>3, <2>1 DEF Remembered
  <2>3. /\ n \in Nat /\ 1 <= n /\ n <= End(d)
        /\ n # End(d) => n \in Used(d) /\ f.dirpos < n
        /\ \A i \in Used(d) : i < n => i <= f.dirpos
    BY <1>2, <2>1, NextSlotIs
  <2>4. PICK j \in Nat : n = j + 1 /\ f.dirpos <= j
    <3>1. n - 1 \in Nat /\ n = (n - 1) + 1 /\ f.dirpos <= n - 1
      BY <1>2, <2>2, <2>3
    <3> QED BY <3>1
  <2>5. Cnt(Used(d), f.dirpos, j) = 0
    <3>1. \A i \in Used(d) : ~(f.dirpos < i /\ i <= j)
      BY <1>1, <1>2, <2>3, <2>4
    <3> QED BY <1>1, <1>2, <3>1, CntIs
  <2>6. at.last = f.last + Cnt(Used(d), f.dirpos, j)
    BY <1>2, <2>2, <2>5
  <2> QED BY <1>2, <2>2, <2>3, <2>4, <2>6
<1>4. CASE Refound(d, f, q, at)
  <2>1. PICK m : m = SlotOf(d, f.found)
    OBVIOUS
  <2>2. at.slot = m /\ at.last = Between(d, 1, m) /\ m # End(d)
    BY <1>4, <2>1 DEF Refound
  <2>3. m \in Nat /\ 1 <= m /\ m <= End(d)
    BY <2>1, SlotOfIs
  <2>4. PICK j \in Nat : m = j + 1
    <3>1. m - 1 \in Nat /\ m = (m - 1) + 1
      BY <2>3
    <3> QED BY <3>1
  <2>5. Between(d, 0 + 1, j + 1) = Cnt(Used(d), 0, j) /\ Cnt(Used(d), 0, j) \in Nat
    BY <1>1, Reading, CntIs
  <2>6. at.last = Cnt(Used(d), 0, j)
    BY <2>2, <2>4, <2>5
  <2> QED BY <2>2, <2>3, <2>4, <2>5, <2>6
<1>5. CASE at = Counted(d, q)
  <2>1. at.slot = Nth(d, q) /\ at.last = Min({q, Cardinality(Used(d))})
    BY <1>5 DEF Counted
  <2>2. PICK m : m = Nth(d, q)
    OBVIOUS
  <2>3. /\ m \in Nat /\ 1 <= m /\ m <= End(d)
        /\ m # End(d) => m \in Used(d) /\ Cnt(Used(d), 0, m) = q + 1 /\ Cnt(Used(d), 0, m - 1) = q
    BY <2>2, NthIs
  <2>4. PICK j \in Nat : m = j + 1 /\ m - 1 = j
    <3>1. m - 1 \in Nat /\ m = (m - 1) + 1
      BY <2>3
    <3> QED BY <3>1
  <2>5. PICK k : k = Cardinality(Used(d))
    OBVIOUS
  <2>6. k \in Nat /\ Cnt(Used(d), 0, m) <= k
    <3>1. IsFiniteSet(Used(d)) /\ {i \in Used(d) : 0 < i /\ i <= m} \in SUBSET Used(d)
      BY <1>1 DEF SlotSets
    <3> QED BY <2>5, <3>1, FS_Subset, FS_CardinalityType DEF Cnt
  <2>7. Min({q, k}) \in {q, k} /\ Min({q, k}) <= q /\ Min({q, k}) <= k
    <3>1. {q, k} \in SUBSET Nat /\ {q, k} # {}
      BY <2>6
    <3> QED BY <3>1, MinIs
  <2>8. at.last \in Nat
    BY <2>1, <2>5, <2>6, <2>7
  <2>9. m # End(d) => at.last = Cnt(Used(d), 0, j)
    BY <2>1, <2>3, <2>4, <2>5, <2>6, <2>7
  <2> QED BY <2>1, <2>2, <2>3, <2>4, <2>8, <2>9
<1> QED BY <1>3, <1>4, <1>5, PositionIs

(* Where a search of the name space calls goes on.                           *)
LEMMA PositionGoesOn ==
  ASSUME NEW s \in Search, NEW r \in Searchs, NEW d \in Dir, disk[d] \in Row(d), Plain(disk[d]),
         Knows(s, r, disk[d]), NEW f \in SearchHandle, Noted(r, disk[d], f),
         NEW at, at = Position(d, f, Sq(r)),
         NEW c \in BOOLEAN, ~at.noted \/ f.dirpos # r.pos => c
  PROVE  GoesOn(r, disk[d], at.slot, c)
<1> DEFINE F == disk[d]
<1>1. Sq(r) \in Nat
  BY SqIs
<1>2. f.dirpos \in Nat /\ f.last \in Nat
  BY DEF SearchHandle
<1>3. /\ Used(d) = Filled(F)
      /\ Staying(F, r) \in SUBSET Filled(F)
  BY Reading, RowIs
<1>4. CASE Remembered(d, f, Sq(r), at)
  <2>1. PICK n : n = NextSlot(d, f.dirpos)
    OBVIOUS
  <2>2. /\ at.slot = n /\ at.noted /\ Sq(r) = f.last /\ f.dirpos # 0 /\ n # End(d)
    BY <1>4, <2>1 DEF Remembered
  <2>3. /\ n \in Nat /\ f.dirpos < n
        /\ \A i \in Staying(F, r) : i < n => i <= f.dirpos
    BY <1>2, <1>3, <2>1, <2>2, NextSlotIs
  <2>4. NearTo(r, F, f.last, f.dirpos)
    BY <2>2 DEF Noted
  <2>5. f.dirpos # r.pos => c
    OBVIOUS
  <2>6. GoesOn(r, F, n, c)
    BY <1>2, <2>2, <2>3, <2>4, <2>5, NearGoesOn
  <2> QED BY <2>2, <2>6
<1>5. CASE Refound(d, f, Sq(r), at)
  <2>1. PICK m : m = SlotOf(d, f.found)
    OBVIOUS
  <2>2. /\ at.slot = m /\ ~at.noted /\ Sq(r) = f.last /\ f.dirpos # 0 /\ f.found # 0 /\ m # End(d)
    BY <1>5, <2>1 DEF Refound
  <2>3. m \in Nat /\ m \in Filled(F) /\ F[m] = f.found
    BY <1>3, <2>1, <2>2, SlotOfIs
  <2>4. NearTo(r, F, f.last, f.dirpos)
    BY <2>2 DEF Noted
  <2>5. c
    BY <2>2
  <2>6. CASE ~r.removed \/ ~r.added
    <3>1. f.dirpos < m /\ \A i \in Staying(F, r) : i < m => i <= f.dirpos
      <4>1. CASE ~r.removed
        <5>1. PICK e \in Filled(F) : /\ F[e] = f.found /\ f.dirpos < e
                                     /\ \A i \in Staying(F, r) : i < e => i <= f.dirpos
          BY <2>2, <4>1 DEF Noted
        <5>2. e = m
          BY <2>3, <5>1 DEF Plain, Filled
        <5> QED BY <5>1, <5>2
      <4>2. CASE ~r.added
        <5>1. f.dirpos < m /\ \A i \in Filled(F) : i < m => i <= f.dirpos
          BY <2>2, <2>3, <4>2 DEF Noted
        <5> QED BY <1>3, <5>1
      <4> QED BY <2>6, <4>1, <4>2
    <3>2. GoesOn(r, F, m, c)
      BY <1>2, <2>2, <2>3, <2>4, <2>5, <3>1, NearGoesOn
    <3> QED BY <2>2, <3>2
  <2>7. CASE r.removed /\ r.added
    BY <2>5, <2>7 DEF GoesOn
  <2> QED BY <2>6, <2>7
<1>6. CASE at = Counted(d, Sq(r))
  <2>1. at.slot = Nth(d, Sq(r)) /\ at.noted = (Sq(r) = 0)
    BY <1>6 DEF Counted
  <2>2. Sq(r) > 0 => c
    BY <1>1, <2>1
  <2>3. GoesOn(r, F, Nth(d, Sq(r)), c)
    BY <2>2, CountGoesOn
  <2> QED BY <2>1, <2>3
<1> QED BY <1>4, <1>5, <1>6, PositionIs

(* What is noted in its handle when it finds an entry.                       *)
LEMMA FoundIs ==
  ASSUME NEW s \in Search, NEW d \in Dir, disk[d] \in Row(d),
         NEW f \in SearchHandle, NEW q \in Nat, NEW at, at = Position(d, f, q),
         NEW m, m = Matching(s, d, at.slot), m # End(d),
         NEW more, more = Matching(s, d, m + 1), NEW g, g = Found(s, d, at, m, more)
  PROVE  /\ g \in SearchHandle /\ g.dir = d /\ g.last \in Nat /\ g.last >= 1
         /\ g.dirpos \in Nat /\ m \in Nat /\ m <= g.dirpos /\ m \in Used(d)
         /\ Moved(Used(d), f.last, f.dirpos, g.last, g.dirpos)
         /\ \A i \in Used(d) : m < i /\ i <= g.dirpos => disk[d][i] \notin Match[s]
         /\ g.found = 0 => \A i \in Used(d) : m < i => disk[d][i] \notin Match[s]
         /\ g.found # 0 => /\ more \in Used(d) /\ disk[d][more] = g.found /\ g.dirpos < more
                           /\ \A i \in Used(d) : i < more => i <= g.dirpos
<1>1. /\ Used(d) \in SlotSets /\ End(d) \in Nat
      /\ \A i \in Used(d) : i \in Nat /\ 0 < i /\ i < End(d) /\ disk[d][i] \in Ino
  BY Reading, RowIs
<1>2. /\ at.slot \in Nat /\ 1 <= at.slot /\ at.slot <= End(d) /\ at.last \in Nat
      /\ at.slot # End(d) =>
           \E j \in Nat :
              /\ at.slot = j + 1
              /\ \/ at.last = Cnt(Used(d), 0, j)
                 \/ /\ f.dirpos # 0 /\ f.dirpos <= j
                    /\ at.last = f.last + Cnt(Used(d), f.dirpos, j)
  BY AtIs
<1>3. /\ m \in Nat /\ m \in Used(d) /\ at.slot <= m /\ m < End(d)
  BY <1>1, <1>2, MatchingIs
<1>4. PICK j \in Nat : /\ at.slot = j + 1
                       /\ \/ at.last = Cnt(Used(d), 0, j)
                          \/ /\ f.dirpos # 0 /\ f.dirpos <= j
                             /\ at.last = f.last + Cnt(Used(d), f.dirpos, j)
  BY <1>1, <1>2, <1>3
<1>5. /\ more \in Nat /\ 1 <= more /\ more <= End(d)
      /\ more # End(d) => more \in Used(d) /\ m + 1 <= more
      /\ \A i \in Used(d) : m + 1 <= i /\ i < more => disk[d][i] \notin Match[s]
  <2>1. m + 1 \in Nat
    BY <1>3
  <2> QED BY <2>1, MatchingIs
<1>6. m < more
  BY <1>1, <1>3, <1>5
<1>7. PICK o \in Nat : /\ o = LastUsed(d, m, more) /\ m <= o /\ o < more
                       /\ \A i \in Used(d) : i < more => i <= o
  BY <1>3, <1>5, <1>6, LastUsedIs
<1>8. PICK k \in Nat, l \in Nat : m = k + 1 /\ more = l + 1 /\ j <= k /\ o <= l
  <2>1. /\ m - 1 \in Nat /\ m = (m - 1) + 1 /\ j <= m - 1
        /\ more - 1 \in Nat /\ more = (more - 1) + 1 /\ o <= more - 1
    BY <1>2, <1>3, <1>4, <1>5, <1>7
  <2> QED BY <2>1
<1>9. Between(d, at.slot, m) = Cnt(Used(d), j, k)
  BY <1>4, <1>8, Reading
<1>10. Between(d, m + 1, more) = Cnt(Used(d), m, o)
  <2>1. Between(d, m + 1, l + 1) = Cnt(Used(d), m, l)
    BY <1>3, Reading
  <2>2. \A i \in Used(d) : i <= l => i <= o
    BY <1>1, <1>7, <1>8
  <2>3. Cnt(Used(d), m, l) = Cnt(Used(d), m, o)
    BY <1>1, <1>3, <1>7, <1>8, <2>2, CntUpTo
  <2> QED BY <1>8, <2>1, <2>3
<1>11. \A a \in Nat : a <= j => Cnt(Used(d), a, o) = Cnt(Used(d), a, j) + Cnt(Used(d), j, k) + 1 + Cnt(Used(d), m, o)
  <2> SUFFICES ASSUME NEW a \in Nat, a <= j
               PROVE  Cnt(Used(d), a, o) = Cnt(Used(d), a, j) + Cnt(Used(d), j, k) + 1 + Cnt(Used(d), m, o)
    OBVIOUS
  <2>1. Cnt(Used(d), k, m) = 1
    BY <1>1, <1>3, <1>8, CntOne
  <2>2. a <= k /\ k <= m /\ a <= m /\ m <= o
    BY <1>3, <1>7, <1>8
  <2>3. Cnt(Used(d), a, o) = Cnt(Used(d), a, m) + Cnt(Used(d), m, o)
    BY <1>1, <1>3, <1>7, <2>2, CntSplit
  <2>4. Cnt(Used(d), a, m) = Cnt(Used(d), a, k) + Cnt(Used(d), k, m)
    BY <1>1, <1>3, <2>2, CntSplit
  <2>5. Cnt(Used(d), a, k) = Cnt(Used(d), a, j) + Cnt(Used(d), j, k)
    BY <1>1, <1>8, CntSplit
  <2> QED BY <2>1, <2>3, <2>4, <2>5
<1>12. PICK x \in Nat, y \in Nat : x = Cnt(Used(d), j, k) /\ y = Cnt(Used(d), m, o)
  <2>1. Cnt(Used(d), j, k) \in Nat /\ Cnt(Used(d), m, o) \in Nat
    BY <1>1, <1>3, CntIs
  <2> QED BY <2>1
<1>13. g = [dir |-> d, idle |-> IF more = End(d) THEN MaxIdle - 4 ELSE 0, dirpos |-> o,
            found |-> IF more = End(d) THEN 0 ELSE disk[d][more], last |-> at.last + x + 1 + y]
  BY <1>7, <1>9, <1>10, <1>12 DEF Found
<1>14. /\ g.dir = d /\ g.dirpos = o /\ g.last = at.last + x + 1 + y
       /\ g.found = IF more = End(d) THEN 0 ELSE disk[d][more]
       /\ g.last \in Nat /\ g.last >= 1
  BY <1>2, <1>13
<1>15. g \in SearchHandle
  <2>1. (IF more = End(d) THEN MaxIdle - 4 ELSE 0) \in 0..MaxIdle
    BY SearchConstants
  <2>2. (IF more = End(d) THEN 0 ELSE disk[d][more]) \in Ino \cup {0}
    BY <1>1, <1>5
  <2>3. at.last + x + 1 + y \in Nat
    BY <1>2
  <2> QED BY <1>13, <2>1, <2>2, <2>3 DEF SearchHandle
<1>16. Moved(Used(d), f.last, f.dirpos, g.last, o)
  <2>1. f.last \in Nat /\ f.dirpos \in Nat
    BY DEF SearchHandle
  <2>2. CASE at.last = Cnt(Used(d), 0, j)
    <3>1. Cnt(Used(d), 0, o) = Cnt(Used(d), 0, j) + x + 1 + y
      BY <1>11, <1>12
    <3>2. g.last = Cnt(Used(d), 0, o)
      BY <1>14, <2>2, <3>1
    <3> QED BY <3>2 DEF Moved
  <2>3. CASE f.dirpos # 0 /\ f.dirpos <= j /\ at.last = f.last + Cnt(Used(d), f.dirpos, j)
    <3>1. Cnt(Used(d), f.dirpos, o) = Cnt(Used(d), f.dirpos, j) + x + 1 + y
      BY <1>11, <1>12, <2>1, <2>3
    <3>2. Cnt(Used(d), f.dirpos, j) \in Nat
      BY <1>1, <2>1, CntIs
    <3>3. g.last = f.last + Cnt(Used(d), f.dirpos, o)
      BY <1>14, <2>1, <2>3, <3>1, <3>2
    <3>4. f.dirpos <= o
      BY <1>7, <1>8, <2>1, <2>3
    <3> QED BY <2>3, <3>3, <3>4 DEF Moved
  <2> QED BY <1>4, <2>2, <2>3
<1>17. \A i \in Used(d) : m < i /\ i < more => disk[d][i] \notin Match[s]
  BY <1>1, <1>3, <1>5
<1>18. 0 \notin Ino
  BY SearchConstants
<1>19. \A i \in Used(d) : i <= o => i < more
  BY <1>1, <1>5, <1>7
<1>20. g.found = 0 => more = End(d)
  BY <1>1, <1>5, <1>14, <1>18
<1> QED BY <1>1, <1>3, <1>5, <1>7, <1>14, <1>15, <1>16, <1>17, <1>19, <1>20

(* It is right for every search.                                             *)
LEMMA FoundNoted ==
  ASSUME NEW s \in Search, NEW d \in Dir, disk[d] \in Row(d), Plain(disk[d]), NEW r \in Searchs,
         NEW g \in SearchHandle, NearTo(r, disk[d], g.last, g.dirpos),
         NEW more, g.found # 0 => /\ more \in Used(d) /\ disk[d][more] = g.found /\ g.dirpos < more
                                  /\ \A i \in Used(d) : i < more => i <= g.dirpos
  PROVE  Noted(r, disk[d], g)
<1> DEFINE F == disk[d]
<1>1. /\ Used(d) = Filled(F)
      /\ Staying(F, r) \in SUBSET Filled(F)
  BY Reading, RowIs
<1>2. ASSUME g.found # 0, NEW e \in Filled(F), F[e] = g.found
      PROVE  e = more
  BY <1>1, <1>2 DEF Plain, Filled
<1> QED BY <1>1, <1>2 DEF Noted

-----------------------------------------------------------------------------
(* Searches: the tables                                                      *)

DiskOk(D) == DOMAIN D = Dir /\ \A d \in Dir : D[d] \in Row(d) /\ Plain(D[d])
TableOk(T, c) ==
  /\ c \in 0..MaxSearchH /\ DOMAIN T \subseteq 0..(c - 1)
  /\ \A k \in DOMAIN T : T[k] \in SearchHandle
HandlesOk(H) == DOMAIN H \in SlotSets /\ \A k \in DOMAIN H : H[k] \in DirHandle

(* Handles that are kept are below the new end of the table.                 *)
LEMMA CutToIs ==
  ASSUME TableOk(dsh, count), NEW gone \in SUBSET DOMAIN dsh
  PROVE  /\ CutTo(gone) \in 0..count
         /\ \A k \in DOMAIN dsh \ gone : k \in Nat /\ k < CutTo(gone)
<1> DEFINE S == {c \in 0..count : \A k \in c..(count - 1) : k \in gone}
<1>1. count \in Nat /\ DOMAIN dsh \subseteq 0..(count - 1)
  BY SearchConstants DEF TableOk
<1>2. count \in S /\ S \in SUBSET Nat
  BY <1>1
<1>3. Min(S) \in S
  <2> HIDE DEF S
  <2> QED BY <1>2, MinIs
<1>4. CutTo(gone) = Min(S)
  BY DEF CutTo
<1>5. Min(S) \in 0..count /\ \A k \in Min(S)..(count - 1) : k \in gone
  BY <1>3
<1> QED BY <1>1, <1>4, <1>5

(* The older handles.                                                        *)
LEMMA AgedIs ==
  ASSUME TableOk(dsh, count)
  PROVE  /\ DOMAIN Aged = DOMAIN dsh \ Expired
         /\ \A k \in DOMAIN Aged :
              /\ Aged[k] \in SearchHandle /\ Aged[k].dir = dsh[k].dir /\ Aged[k].last = dsh[k].last
              /\ Aged[k].dirpos = dsh[k].dirpos /\ Aged[k].found = dsh[k].found
<1>1. DOMAIN Aged = DOMAIN dsh \ Expired
  BY DEF Aged
<1>2. ASSUME NEW k \in DOMAIN dsh \ Expired
      PROVE  /\ Aged[k] \in SearchHandle /\ Aged[k].dir = dsh[k].dir /\ Aged[k].last = dsh[k].last
             /\ Aged[k].dirpos = dsh[k].dirpos /\ Aged[k].found = dsh[k].found
  <2>1. dsh[k] \in SearchHandle /\ dsh[k].idle # MaxIdle
    BY DEF TableOk, Expired
  <2>2. dsh[k].idle + 1 \in 0..MaxIdle
    BY <2>1, SearchConstants DEF SearchHandle
  <2>3. Aged[k] = [dsh[k] EXCEPT !.idle = dsh[k].idle + 1]
    BY DEF Aged
  <2> QED BY <2>1, <2>2, <2>3 DEF SearchHandle
<1> QED BY <1>1, <1>2

(* The handle that is taken has its place in the table.                      *)
LEMMA TakenIs ==
  ASSUME TableOk(dsh, count)
  PROVE  Taken \in Nat /\ Taken < MaxSearchH
<1>1. MaxSearchH \in Nat /\ MaxSearchH >= 1 /\ count \in Nat /\ count <= MaxSearchH
  BY SearchConstants DEF TableOk
<1>2. PICK c \in Nat : c = CutTo(Expired) /\ c <= count
  <2>1. Expired \in SUBSET DOMAIN dsh
    BY DEF Expired
  <2> QED BY <1>1, <2>1, CutToIs
<1>3. CASE Holes # {}
  <2>1. Holes \in SUBSET Nat /\ \A k \in Holes : k < c
    BY <1>2 DEF Holes
  <2>2. Min(Holes) \in Holes
    BY <1>3, <2>1, MinIs
  <2>3. Taken = Min(Holes)
    BY <1>3 DEF Taken
  <2>4. Taken \in Nat /\ Taken < c
    BY <2>1, <2>2, <2>3
  <2> QED BY <1>1, <1>2, <2>4
<1>4. CASE Holes = {} /\ c < MaxSearchH
  BY <1>2, <1>4 DEF Taken
<1>5. CASE Holes = {} /\ ~(c < MaxSearchH)
  <2> DEFINE A == DOMAIN Aged
             I == {Aged[k].idle : k \in A}
             S == {k \in A : \A j \in A : Aged[j].idle <= Aged[k].idle}
  <2>1. \A k \in 0..(c - 1) : k \in A
    BY <1>2, <1>5 DEF Holes
  <2>2. 0 \in A
    BY <1>1, <1>2, <1>5, <2>1
  <2>3. /\ A \subseteq 0..(count - 1)
        /\ \A k \in A : Aged[k].idle \in 0..MaxIdle
    BY AgedIs DEF TableOk, SearchHandle
  <2>4. I \in SUBSET (0..MaxIdle) /\ I # {} /\ MaxIdle \in Nat
    <3>1. Aged[0].idle \in I
      BY <2>2
    <3>2. \A x \in I : x \in 0..MaxIdle
      BY <2>3
    <3> HIDE DEF I, A
    <3> QED BY <3>1, <3>2, SearchConstants
  <2>5. Max(I) \in I /\ \A u \in I : u <= Max(I)
    <3> HIDE DEF I
    <3> QED BY <2>4, MaxIs
  <2>6. PICK k \in A : Max(I) = Aged[k].idle
    BY <2>5
  <2>7. \A j \in A : Aged[j].idle \in I
    OBVIOUS
  <2>8. \A j \in A : Aged[j].idle <= Aged[k].idle
    <3> HIDE DEF I, A
    <3> QED BY <2>5, <2>6, <2>7
  <2>9. k \in S
    BY <2>8
  <2>10. S \in SUBSET (0..(count - 1))
    BY <2>3
  <2>11. Min(S) \in S
    <3> HIDE DEF S
    <3>1. S \in SUBSET Nat /\ S # {}
      BY <1>1, <2>9, <2>10
    <3> QED BY <3>1, MinIs
  <2>12. LongestIdle = Min(S)
    BY DEF LongestIdle
  <2>13. Taken = LongestIdle
    BY <1>2, <1>5 DEF Taken
  <2>14. Taken \in 0..(count - 1)
    <3> HIDE DEF S
    <3> QED BY <2>10, <2>11, <2>12, <2>13
  <2> QED BY <1>1, <2>14
<1> QED BY <1>3, <1>4, <1>5

(* The table a call of the name spaces works on, and its handle in it.       *)
KeyOf(r) == IF Owns(r) THEN r.h ELSE Taken
TabOf(r) == IF Owns(r) THEN dsh ELSE Put(Aged, KeyOf(r), FreshHandle(r.dir))
CountOf(r) == IF Owns(r) THEN count ELSE Max({CutTo(Expired), KeyOf(r) + 1})

(* The table a call works on is one, and its handle is that of the search or *)
(* a fresh one.                                                              *)
LEMMA TabIs ==
  ASSUME TableOk(dsh, count), NEW r \in Searchs, r.dir \in Dir, NEW k, k = KeyOf(r), NEW tab, tab = TabOf(r)
  PROVE  /\ TableOk(tab, CountOf(r)) /\ k \in DOMAIN tab /\ k \in Nat /\ tab[k].dir = r.dir
         /\ \A j \in DOMAIN tab : j # k =>
              /\ j \in DOMAIN dsh /\ tab[j].dir = dsh[j].dir /\ tab[j].last = dsh[j].last
              /\ tab[j].dirpos = dsh[j].dirpos /\ tab[j].found = dsh[j].found
         /\ tab[k].dirpos # 0 => k = r.h /\ k \in DOMAIN dsh /\ tab[k] = dsh[k]
         /\ Owns(r) => k = r.h /\ tab[k] = dsh[k]
         /\ ~Owns(r) => tab[k].dirpos = 0
<1>1. MaxSearchH \in Nat /\ count \in Nat /\ count <= MaxSearchH
  BY SearchConstants DEF TableOk
<1>2. CASE Owns(r)
  <2>1. k = r.h /\ tab = dsh /\ CountOf(r) = count
    BY <1>2 DEF KeyOf, TabOf, CountOf
  <2>2. k \in DOMAIN dsh /\ dsh[k].dir = r.dir /\ k \in Nat
    BY <1>2, <2>1 DEF Owns, Searchs
  <2> QED BY <1>2, <2>1, <2>2
<1>3. CASE ~Owns(r)
  <2>1. k = Taken /\ tab = Put(Aged, k, FreshHandle(r.dir)) /\ CountOf(r) = Max({CutTo(Expired), k + 1})
    BY <1>3 DEF KeyOf, TabOf, CountOf
  <2>2. k \in Nat /\ k < MaxSearchH
    BY <2>1, TakenIs
  <2>3. /\ CutTo(Expired) \in Nat /\ CutTo(Expired) <= count
        /\ \A j \in DOMAIN Aged : j \in Nat /\ j < CutTo(Expired)
    <3>1. Expired \in SUBSET DOMAIN dsh
      BY DEF Expired
    <3> QED BY <1>1, <3>1, CutToIs, AgedIs
  <2>4. PICK c \in Nat : c = CutTo(Expired) /\ c <= count
    BY <2>3
  <2>5. Max({c, k + 1}) \in {c, k + 1} /\ \A u \in {c, k + 1} : u <= Max({c, k + 1})
    <3>1. {c, k + 1} \in SUBSET (0..(c + k + 1)) /\ c + k + 1 \in Nat /\ {c, k + 1} # {}
      BY <2>2
    <3> QED BY <3>1, MaxIs
  <2>6. PICK n \in 0..MaxSearchH : n = CountOf(r) /\ c <= n /\ k < n
    <3>1. Max({c, k + 1}) \in 0..MaxSearchH /\ c <= Max({c, k + 1}) /\ k < Max({c, k + 1})
      BY <1>1, <2>2, <2>4, <2>5
    <3> QED BY <2>1, <2>4, <3>1
  <2>7. /\ DOMAIN tab = DOMAIN Aged \cup {k} /\ tab[k] = FreshHandle(r.dir)
        /\ \A j \in DOMAIN Aged : j # k => tab[j] = Aged[j]
    <3>1. tab = Put(Aged, k, FreshHandle(r.dir))
      BY <2>1
    <3>2. tab = [j \in DOMAIN Aged \cup {k} |-> IF j = k THEN FreshHandle(r.dir) ELSE Aged[j]]
      BY <3>1 DEF Put
    <3>3. k \in DOMAIN Aged \cup {k}
      OBVIOUS
    <3> QED BY <3>2, <3>3
  <2>8. FreshHandle(r.dir) \in SearchHandle /\ FreshHandle(r.dir).dir = r.dir /\ FreshHandle(r.dir).dirpos = 0
    BY SearchConstants DEF FreshHandle, SearchHandle
  <2>9. DOMAIN tab \subseteq 0..(n - 1)
    BY <2>2, <2>3, <2>4, <2>6, <2>7
  <2>10. \A j \in DOMAIN tab : tab[j] \in SearchHandle
    BY <2>7, <2>8, AgedIs
  <2>11. TableOk(tab, CountOf(r))
    BY <2>6, <2>9, <2>10 DEF TableOk
  <2> QED BY <1>3, <2>2, <2>7, <2>8, <2>11, AgedIs
<1> QED BY <1>2, <1>3

-----------------------------------------------------------------------------
(* Searches: the inductive invariant                                         *)

Runs(r) == r.state \in {"more", "last"} /\ ~r.evicted

(* The search r has a handle in the table T of search handles.               *)
Held(r, T) ==
  /\ r.seq >= 0 /\ r.h \in DOMAIN T
  /\ T[r.h].dir = r.dir

(* The search r is on an open handle, near to it, in the table H.            *)
Shares(r, F, H) ==
  /\ r.h \in DOMAIN H /\ H[r.h].dir = r.dir /\ H[r.h].used
  /\ NearTo(r, F, H[r.h].seq, H[r.h].dirpos)

(* A search that runs knows what it was told, and its handle, if it has one, *)
(* is near.  One that is done was told of everything, if it could be.        *)
SearchOk(s, r, D, T, H) ==
  /\ r.evicted => r.kind = "dir"
  /\ r.state = "off" => r.stay = {}
  /\ r.state = "done" /\ ~r.evicted => r.twice = {} /\ (~(r.counted /\ r.removed) => r.stay = {})
  /\ r.state \in {"more", "last"} => r.dir \in Dir
  /\ Runs(r) => /\ Knows(s, r, D[r.dir])
                /\ r.kind = "ns" /\ Held(r, T) => Noted(r, D[r.dir], T[r.h])
                /\ r.kind = "dir" => Shares(r, D[r.dir], H)

SearchInv ==
  /\ DiskOk(disk) /\ TableOk(dsh, count) /\ HandlesOk(dh) /\ search \in [Search -> Searchs]
  /\ \A s \in Search : SearchOk(s, search[s], disk, dsh, dh)

(* It says what the properties say.                                          *)
LEMMA SearchInvSays == SearchInv => NothingSkipped /\ NothingTwice
<1> SUFFICES ASSUME SearchInv PROVE NothingSkipped /\ NothingTwice
  OBVIOUS
<1> SUFFICES ASSUME NEW s \in Search
             PROVE  /\ search[s].state \in {"last", "done"} /\ ~search[s].evicted
                       /\ ~(search[s].counted /\ search[s].removed)
                         => search[s].stay \subseteq search[s].got
                    /\ ~search[s].evicted /\ ~(search[s].counted /\ search[s].added)
                         => search[s].stay \cap search[s].twice = {}
  BY DEF NothingSkipped, NothingTwice
<1>1. SearchOk(s, search[s], disk, dsh, dh) /\ search[s].state \in {"off", "more", "last", "done"}
  BY DEF SearchInv, Searchs
<1> QED BY <1>1 DEF SearchOk, Runs, Knows

(* A search that does not run.                                               *)
LEMMA OffOk == ASSUME NEW s, NEW D, NEW T, NEW H PROVE Off \in Searchs /\ SearchOk(s, Off, D, T, H)
<1>1. /\ Off.state = "off" /\ Off.stay = {} /\ ~Off.evicted
  BY DEF Off
<1>2. Off \in Searchs
  BY DEF Off, Searchs
<1> QED BY <1>1, <1>2 DEF SearchOk, Runs

(* One that ends.                                                            *)
LEMMA EndedOk ==
  ASSUME NEW s, NEW D, NEW T, NEW H, NEW r \in Searchs, NEW c \in BOOLEAN, NEW t, t = Ended(r, c),
         r.evicted => r.kind = "dir", ~r.evicted /\ ~(t.counted /\ t.removed) => t.stay = {}
  PROVE  t \in Searchs /\ SearchOk(s, t, D, T, H)
<1>1. /\ t \in Searchs
      /\ t.state = "done" /\ t.kind = r.kind /\ t.twice = {} /\ t.evicted = r.evicted
  BY EndedIs
<1> QED BY <1>1 DEF SearchOk, Runs

(* One that starts.                                                          *)
LEMMA StartedIs ==
  ASSUME NEW s \in Search, NEW d \in Dir, DiskOk(disk), NEW kind \in {"ns", "dir", "file"},
         NEW h \in Nat, NEW t, t = Started(s, kind, d, h)
  PROVE  /\ t \in Searchs /\ t.state = "more" /\ t.kind = kind /\ t.dir = d /\ t.h = h
         /\ t.seq = -1 /\ t.pos = 0 /\ ~t.evicted
         /\ Knows(s, t, disk[d])
<1> DEFINE F == disk[d]
<1>1. F \in Row(d) /\ Used(d) = Filled(F) /\ Used(d) \in SlotSets /\ \A i \in Used(d) : F[i] \in Ino
  BY Reading, RowIs DEF DiskOk
<1>2. PICK Y : Y = {F[i] : i \in Used(d)} \cap Match[s]
  OBVIOUS
<1>3. Y \in SUBSET Ino
  BY <1>1, <1>2
<1>4. t = [state |-> "more", kind |-> kind, dir |-> d, h |-> h, seq |-> -1, pos |-> 0,
           stay |-> Y, got |-> {}, twice |-> {},
           counted |-> FALSE, removed |-> FALSE, added |-> FALSE, evicted |-> FALSE]
  BY <1>2 DEF Started, Off
<1>5. t \in Searchs
  BY <1>3, <1>4 DEF Searchs
<1>6. /\ t.state = "more" /\ t.kind = kind /\ t.dir = d /\ t.h = h /\ t.seq = -1 /\ t.pos = 0
      /\ t.stay = Y /\ t.got = {} /\ t.twice = {} /\ ~t.evicted /\ t.removed = FALSE /\ t.added = FALSE
  BY <1>4
<1>7. t.stay \subseteq Match[s]
  BY <1>2, <1>6
<1>8. \A x \in t.stay : \E i \in Staying(F, t) : F[i] = x
  BY <1>1, <1>2, <1>6 DEF Staying, Filled
<1>9. Sq(t) = 0 /\ Cnt(Filled(F), 0, 0) = 0
  <2>1. Sq(t) = 0
    BY <1>6 DEF Sq
  <2>2. {} \in SUBSET Filled(F)
    OBVIOUS
  <2> QED BY <1>1, <2>1, <2>2, CntFacts
<1>10. Own(Filled(F), Sq(t), t.pos, t.removed, t.added)
  BY <1>6, <1>9 DEF Own
<1>11. \A i \in Staying(F, t) : ~(i <= t.pos)
  <2>1. \A i \in Staying(F, t) : i \in Nat /\ 0 < i
    BY <1>1, RowIs
  <2> QED BY <1>6, <2>1
<1>12. t.seq < 1 => t.seq = -1 /\ t.pos = 0 /\ t.got = {} /\ t.twice = {}
  BY <1>6
<1> QED BY <1>5, <1>6, <1>7, <1>8, <1>10, <1>11, <1>12 DEF Knows

(* Only the directory handles change.                                        *)
LEMMA DirKept ==
  ASSUME NEW s, NEW r, NEW D, NEW T, NEW H, NEW G, SearchOk(s, r, D, T, H),
         Runs(r) /\ r.kind = "dir" => Shares(r, D[r.dir], G)
  PROVE  SearchOk(s, r, D, T, G)
  BY DEF SearchOk

(* Only the search handles change.                                           *)
LEMMA NsKept ==
  ASSUME NEW s, NEW r, NEW D, NEW T, NEW H, NEW G, SearchOk(s, r, D, T, H),
         Runs(r) /\ r.kind = "ns" /\ Held(r, G) => Noted(r, D[r.dir], G[r.h])
  PROVE  SearchOk(s, r, D, G, H)
  BY DEF SearchOk

(* A number that was counted is near every search.                           *)
LEMMA ExactNear ==
  ASSUME NEW s \in Search, NEW d \in Dir, NEW F \in Row(d), NEW r \in Searchs, Knows(s, r, F),
         NEW n, NEW p \in Nat, n = Cnt(Filled(F), 0, p)
  PROVE  NearTo(r, F, n, p)
<1>1. n \in Nat
  BY RowIs, CntIs
<1>2. Moved(Filled(F), 0, 0, n, p)
  BY DEF Moved
<1> QED BY <1>1, <1>2, NearMoved

(* Before the first call.                                                    *)
LEMMA SearchInvInit == SearchesInit => SearchInv
<1> SUFFICES ASSUME SearchesInit PROVE SearchInv
  OBVIOUS
<1>1. /\ disk = Files /\ DOMAIN dsh = {} /\ count = 0 /\ DOMAIN dh = {}
      /\ search = [s \in Search |-> Off]
  BY DEF SearchesInit
<1>2. DiskOk(disk)
  <2>1. DOMAIN Files = Dir
    BY SearchConstants
  <2>2. ASSUME NEW d \in Dir PROVE Files[d] \in Row(d) /\ Plain(Files[d])
    <3>1. Files[d] \in Seq(Ino \cup {0})
      BY SearchConstants
    <3>2. Slots(d) = DOMAIN Files[d] /\ Files[d] \in [Slots(d) -> Ino \cup {0}]
      BY <3>1 DEF Slots
    <3>3. \A i, j \in Slots(d) : Files[d][i] = Files[d][j] /\ Files[d][i] # 0 => i = j
      BY SearchConstants
    <3> QED BY <3>2, <3>3 DEF Row, Plain
  <2> QED BY <1>1, <2>1, <2>2 DEF DiskOk
<1>3. TableOk(dsh, count)
  BY <1>1, SearchConstants DEF TableOk
<1>4. HandlesOk(dh)
  BY <1>1, FS_EmptySet DEF HandlesOk, SlotSets
<1>5. search \in [Search -> Searchs]
  BY <1>1, OffOk
<1>6. \A s \in Search : SearchOk(s, search[s], disk, dsh, dh)
  BY <1>1, OffOk
<1> QED BY <1>2, <1>3, <1>4, <1>5, <1>6 DEF SearchInv

-----------------------------------------------------------------------------
(* Searches: every step keeps it                                             *)

(* A handle is opened, or made unused, and others lose it.                   *)
LEMMA LosingOk ==
  ASSUME SearchInv, NEW k \in Nat, NEW f \in DirHandle,
         f.dir # 0 => f.dir \in Dir /\ f.used /\ f.seq = Cnt(Used(f.dir), 0, f.dirpos),
         NEW x \in Search, NEW t, t = Losing(k, f)[x], NEW H, H = Put(dh, k, f)
  PROVE  t \in Searchs /\ SearchOk(x, t, disk, dsh, H)
<1>1. PICK r \in Searchs : r = search[x]
  BY DEF SearchInv
<1>2. SearchOk(x, r, disk, dsh, dh)
  BY <1>1 DEF SearchInv
<1>3. t = IF r.kind = "dir" /\ r.h = k /\ r.dir # f.dir /\ r.state # "off"
          THEN [r EXCEPT !.evicted = TRUE] ELSE r
  BY <1>1 DEF Losing
<1>4. CASE r.kind = "dir" /\ r.h = k /\ r.dir # f.dir /\ r.state # "off"
  <2>1. t = [r EXCEPT !.evicted = TRUE]
    BY <1>3, <1>4
  <2>2. t \in Searchs /\ t.evicted /\ t.kind = r.kind /\ t.state = r.state /\ t.dir = r.dir
    BY <2>1 DEF Searchs
  <2> QED BY <1>2, <1>4, <2>2 DEF SearchOk, Runs
<1>5. CASE ~(r.kind = "dir" /\ r.h = k /\ r.dir # f.dir /\ r.state # "off")
  <2>1. t = r
    BY <1>3, <1>5
  <2>2. ASSUME Runs(r), r.kind = "dir" PROVE Shares(r, disk[r.dir], H)
    <3>1. r.dir \in Dir /\ Knows(x, r, disk[r.dir]) /\ Shares(r, disk[r.dir], dh) /\ r.state # "off"
      BY <1>2, <2>2 DEF SearchOk, Runs
    <3>2. /\ DOMAIN H = DOMAIN dh \cup {k} /\ H[k] = f
          /\ \A j \in DOMAIN dh : j # k => H[j] = dh[j]
      BY DEF Put
    <3>3. CASE r.h = k
      <4>1. f.dir = r.dir /\ f.dir # 0
        BY <1>5, <2>2, <3>1, <3>3, SearchConstants
      <4>2. PICK d \in Dir : d = r.dir
        BY <3>1
      <4>3. disk[d] \in Row(d) /\ Used(d) = Filled(disk[d])
        BY Reading DEF SearchInv, DiskOk
      <4>4. f.dirpos \in Nat
        BY DEF DirHandle
      <4>5. NearTo(r, disk[d], f.seq, f.dirpos)
        BY <3>1, <4>1, <4>2, <4>3, <4>4, ExactNear
      <4> QED BY <3>2, <3>3, <4>1, <4>2, <4>5 DEF Shares
    <3>4. CASE r.h # k
      <4>1. r.h \in DOMAIN dh /\ H[r.h] = dh[r.h] /\ r.h \in DOMAIN H
        BY <3>1, <3>2, <3>4 DEF Shares
      <4> QED BY <3>1, <4>1 DEF Shares
    <3> QED BY <3>3, <3>4
  <2> QED BY <1>2, <2>1, <2>2, DirKept
<1> QED BY <1>4, <1>5

(* The handle for a directory is one of the table, or the next.              *)
LEMMA HandleForIs ==
  ASSUME HandlesOk(dh), NEW d \in Dir, NEW k \in HandleFor(d)
  PROVE  k \in Nat
<1> DEFINE same == {j \in DOMAIN dh : dh[j].used /\ dh[j].dir = d}
           free == {j \in DOMAIN dh : ~dh[j].used}
<1>1. DOMAIN dh \in SUBSET Nat /\ Cardinality(DOMAIN dh) \in Nat
  BY FS_CardinalityType DEF HandlesOk, SlotSets
<1>2. free # {} => Min(free) \in Nat
  <2>1. free \in SUBSET Nat
    BY <1>1
  <2> HIDE DEF free
  <2> QED BY <2>1, MinIs
<1>3. k \in same \/ (free # {} /\ k = Min(free)) \/ k = Cardinality(DOMAIN dh) + 1 \/ k \in DOMAIN dh
  BY DEF HandleFor
<1> QED BY <1>1, <1>2, <1>3

(* A table of directory handles stays one.                                   *)
LEMMA HandlePut ==
  ASSUME HandlesOk(dh), NEW k \in Nat, NEW f \in DirHandle
  PROVE  HandlesOk(Put(dh, k, f))
<1>1. DOMAIN Put(dh, k, f) = DOMAIN dh \cup {k}
  BY DEF Put
<1>2. \A j \in DOMAIN dh \cup {k} : Put(dh, k, f)[j] \in DirHandle
  BY DEF Put, HandlesOk
<1>3. DOMAIN dh \cup {k} \in SlotSets
  BY FS_AddElement DEF HandlesOk, SlotSets
<1> QED BY <1>1, <1>2, <1>3 DEF HandlesOk

(* A directory is opened, with the right to search it or without.            *)
LEMMA StepOpenDir ==
  ASSUME SearchInv, NEW s \in Search, NEW d \in Dir, nw_open_dir_handle(s, d)
  PROVE  SearchInv'
<1>1. /\ DiskOk(disk) /\ TableOk(dsh, count) /\ HandlesOk(dh) /\ search \in [Search -> Searchs]
      /\ disk[d] \in Row(d)
  BY DEF SearchInv, DiskOk
<1>2. disk' = disk /\ dsh' = dsh /\ count' = count
  BY DEF nw_open_dir_handle
<1>3. PICK k \in HandleFor(d) :
        \/ /\ dh' = Put(dh, k, OpenAt(d, 0))
           /\ search' = [Losing(k, OpenAt(d, 0)) EXCEPT ![s] = Started(s, "dir", d, k)]
        \/ dh' = Put(dh, k, Unused) /\ search' = Losing(k, Unused)
  BY DEF nw_open_dir_handle
<1>4. k \in Nat
  BY <1>1, HandleForIs
<1>5. CASE dh' = Put(dh, k, Unused) /\ search' = Losing(k, Unused)
  <2>1. Unused \in DirHandle /\ Unused.dir = 0
    BY UnusedIs
  <2>2. \A x \in Search : search'[x] \in Searchs /\ SearchOk(x, search'[x], disk, dsh, dh')
    BY <1>4, <1>5, <2>1, LosingOk
  <2>3. HandlesOk(dh')
    BY <1>1, <1>4, <1>5, <2>1, HandlePut
  <2>4. search' \in [Search -> Searchs]
    BY <1>5, <2>2 DEF Losing
  <2> QED BY <1>1, <1>2, <2>2, <2>3, <2>4 DEF SearchInv
<1>6. CASE /\ dh' = Put(dh, k, OpenAt(d, 0))
           /\ search' = [Losing(k, OpenAt(d, 0)) EXCEPT ![s] = Started(s, "dir", d, k)]
  <2>1. PICK f : f = OpenAt(d, 0)
    OBVIOUS
  <2>2. /\ f \in DirHandle /\ f.dir = d /\ f.used /\ f.dirpos = 0
        /\ f.seq = Cnt(Used(d), 0, 0)
    BY <1>1, <2>1, OpenAtIs
  <2>3. PICK t : t = Started(s, "dir", d, k)
    OBVIOUS
  <2>4. /\ t \in Searchs /\ t.state = "more" /\ t.kind = "dir" /\ t.dir = d /\ t.h = k
        /\ t.seq = -1 /\ t.pos = 0 /\ ~t.evicted
        /\ Knows(s, t, disk[d])
    BY <1>1, <1>4, <2>3, StartedIs
  <2>5. \A x \in Search : x # s => search'[x] = Losing(k, f)[x]
    BY <1>6, <2>1 DEF Losing
  <2>6. search'[s] = t
    BY <1>6, <2>3 DEF Losing
  <2>7. \A x \in Search : x # s => search'[x] \in Searchs /\ SearchOk(x, search'[x], disk, dsh, dh')
    BY <1>4, <1>6, <2>1, <2>2, <2>5, LosingOk
  <2>8. SearchOk(s, t, disk, dsh, dh')
    <3>1. dh'[k] = f /\ k \in DOMAIN dh'
      BY <1>6, <2>1 DEF Put
    <3>2. NearTo(t, disk[d], f.seq, f.dirpos)
      <4>1. Used(d) = Filled(disk[d]) /\ 0 \in Nat
        BY <1>1, Reading
      <4>2. f.seq = Cnt(Filled(disk[d]), 0, 0)
        BY <2>2, <4>1
      <4>3. NearTo(t, disk[d], f.seq, 0)
        BY <1>1, <2>4, <4>1, <4>2, ExactNear
      <4> QED BY <2>2, <4>3
    <3>3. Shares(t, disk[d], dh')
      BY <2>2, <2>4, <3>1, <3>2 DEF Shares
    <3> QED BY <2>4, <3>3 DEF SearchOk
  <2>9. HandlesOk(dh')
    BY <1>1, <1>4, <1>6, <2>1, <2>2, HandlePut
  <2>10. search' \in [Search -> Searchs]
    <3>1. search' = [x \in Search |-> search'[x]]
      BY <1>6 DEF Losing
    <3> QED BY <2>4, <2>6, <2>7, <3>1
  <2> QED BY <1>1, <1>2, <2>6, <2>7, <2>8, <2>9, <2>10 DEF SearchInv
<1> QED BY <1>3, <1>5, <1>6

(* A scan opens the handle of its directory too, and leaves it anywhere.     *)
LEMMA StepScan ==
  ASSUME SearchInv, NEW d \in Dir, nw_scan_dir_info(d)
  PROVE  SearchInv'
<1>1. /\ DiskOk(disk) /\ TableOk(dsh, count) /\ HandlesOk(dh) /\ search \in [Search -> Searchs]
      /\ disk[d] \in Row(d)
  BY DEF SearchInv, DiskOk
<1>2. disk' = disk /\ dsh' = dsh /\ count' = count
  BY DEF nw_scan_dir_info
<1>3. PICK k \in HandleFor(d), pos \in {0} \cup Used(d) :
        dh' = Put(dh, k, OpenAt(d, pos)) /\ search' = Losing(k, OpenAt(d, pos))
  BY DEF nw_scan_dir_info
<1>4. k \in Nat
  BY <1>1, HandleForIs
<1>5. PICK f : f = OpenAt(d, pos)
  OBVIOUS
<1>6. /\ f \in DirHandle /\ f.dir = d /\ f.used /\ f.dirpos = pos
      /\ f.seq = Cnt(Used(d), 0, pos)
  BY <1>1, <1>5, OpenAtIs
<1>7. \A x \in Search : search'[x] \in Searchs /\ SearchOk(x, search'[x], disk, dsh, dh')
  BY <1>3, <1>4, <1>5, <1>6, LosingOk
<1>8. HandlesOk(dh')
  BY <1>1, <1>3, <1>4, <1>5, <1>6, HandlePut
<1>9. search' \in [Search -> Searchs]
  BY <1>3, <1>7 DEF Losing
<1> QED BY <1>1, <1>2, <1>7, <1>8, <1>9 DEF SearchInv

(* The handle of a directory moves: it stays near the searches on it.        *)
LEMMA DirMoved ==
  ASSUME SearchInv, NEW k \in DOMAIN dh, NEW h, h = dh[k], NEW d \in Dir, h.dir = d,
         NEW q \in Nat, NEW f, f = Rewind(h, q),
         NEW z \in DirHandle, z.dir = d, z.used = h.used, f.dirpos <= z.dirpos,
         z.seq = f.seq + Cnt(Used(d), f.dirpos, z.dirpos),
         NEW x \in Search, NEW r, r = search[x], NEW H, H = [dh EXCEPT ![k] = z]
  PROVE  /\ SearchOk(x, r, disk, dsh, H)
         /\ Runs(r) /\ r.kind = "dir" /\ r.h = k => NearTo(r, disk[d], z.seq, z.dirpos)
<1>1. /\ r \in Searchs /\ SearchOk(x, r, disk, dsh, dh) /\ disk[d] \in Row(d) /\ h \in DirHandle
  BY DEF SearchInv, DiskOk, HandlesOk
<1>2. Used(d) = Filled(disk[d])
  BY <1>1, Reading
<1>3. f \in DirHandle
  BY <1>1, RewindIs
<1>4. f.seq \in Nat /\ f.dirpos \in Nat /\ z.seq \in Nat /\ z.dirpos \in Nat
  BY <1>3 DEF DirHandle
<1>5. ASSUME Runs(r), r.kind = "dir", r.h = k PROVE NearTo(r, disk[d], z.seq, z.dirpos)
  <2>1. r.dir = d /\ Knows(x, r, disk[d]) /\ NearTo(r, disk[d], h.seq, h.dirpos)
    BY <1>1, <1>5 DEF SearchOk, Shares
  <2>2. NearTo(r, disk[d], f.seq, f.dirpos)
    BY <1>1, <2>1, RewindNear
  <2>3. /\ Filled(disk[d]) \in SlotSets /\ Staying(disk[d], r) \in SUBSET Filled(disk[d])
    BY <1>1, RowIs
  <2>4. Sq(r) \in Nat
    BY <1>1, SqIs
  <2>5. r.pos \in Nat /\ r.removed \in BOOLEAN /\ r.added \in BOOLEAN
    BY <1>1 DEF Searchs
  <2>6. Near(Filled(disk[d]), Staying(disk[d], r), Sq(r), r.pos, f.seq, f.dirpos, r.removed, r.added)
    BY <2>2 DEF NearTo
  <2>7. Sq(r) \in Int /\ f.seq \in Int /\ z.seq \in Int /\ z.seq = f.seq + Cnt(Filled(disk[d]), f.dirpos, z.dirpos)
    BY <1>2, <1>4, <2>4
  <2>8. Near(Filled(disk[d]), Staying(disk[d], r), Sq(r), r.pos, z.seq, z.dirpos, r.removed, r.added)
    BY <1>4, <2>3, <2>5, <2>6, <2>7, NearOn
  <2> QED BY <2>8 DEF NearTo
<1>6. ASSUME Runs(r), r.kind = "dir" PROVE Shares(r, disk[r.dir], H)
  <2>1. Shares(r, disk[r.dir], dh)
    BY <1>1, <1>6 DEF SearchOk
  <2>2. DOMAIN H = DOMAIN dh /\ H[k] = z /\ \A j \in DOMAIN dh : j # k => H[j] = dh[j]
    OBVIOUS
  <2>3. CASE r.h = k
    BY <1>5, <1>6, <2>1, <2>2, <2>3 DEF Shares
  <2>4. CASE r.h # k
    BY <2>1, <2>2, <2>4 DEF Shares
  <2> QED BY <2>3, <2>4
<1> QED BY <1>1, <1>5, <1>6, DirKept

(* A search on its directory handle.                                         *)
LEMMA StepDirSearch ==
  ASSUME SearchInv, NEW s \in Search, nw_dir_search(s)
  PROVE  SearchInv'
<1>1. /\ DiskOk(disk) /\ TableOk(dsh, count) /\ HandlesOk(dh) /\ search \in [Search -> Searchs]
  BY DEF SearchInv
<1>2. disk' = disk /\ dsh' = dsh /\ count' = count
  BY DEF nw_dir_search
<1>3. PICK r \in Searchs : r = search[s]
  BY <1>1
<1>4. /\ SearchOk(s, r, disk, dsh, dh) /\ r.kind = "dir" /\ r.state = "more"
      /\ r.dir \in Dir /\ r.h \in Nat
  BY <1>3 DEF SearchInv, nw_dir_search, SearchOk, Searchs
<1>5. PICK k : k = r.h
  OBVIOUS
<1>6. ASSUME NEW t \in Searchs, search' = [search EXCEPT ![s] = t], SearchOk(s, t, disk, dsh, dh'),
             HandlesOk(dh'),
             \A x \in Search : SearchOk(x, search[x], disk, dsh, dh')
      PROVE  SearchInv'
  <2>1. search' \in [Search -> Searchs] /\ \A x \in Search : search'[x] = IF x = s THEN t ELSE search[x]
    BY <1>1, <1>6
  <2>2. \A x \in Search : SearchOk(x, search'[x], disk, dsh, dh')
    BY <1>6, <2>1
  <2> QED BY <1>1, <1>2, <1>6, <2>1, <2>2 DEF SearchInv
<1>7. CASE ~Readable(k)
  <2>1. dh' = dh /\ search' = [search EXCEPT ![s] = Ended(r, FALSE)]
    BY <1>3, <1>5, <1>7 DEF nw_dir_search
  <2>2. r.evicted
    <3> SUFFICES ASSUME ~r.evicted PROVE FALSE
      OBVIOUS
    <3>1. k \in DOMAIN dh /\ dh[k].dir = r.dir
      BY <1>4, <1>5 DEF SearchOk, Runs, Shares
    <3> QED BY <1>4, <1>7, <3>1, SearchConstants DEF Readable
  <2>3. PICK t : t = Ended(r, FALSE)
    OBVIOUS
  <2>4. t \in Searchs /\ SearchOk(s, t, disk, dsh, dh')
    BY <1>4, <2>2, <2>3, EndedOk
  <2>5. \A x \in Search : SearchOk(x, search[x], disk, dsh, dh')
    BY <2>1 DEF SearchInv
  <2> QED BY <1>1, <1>6, <2>1, <2>3, <2>4, <2>5
<1>8. CASE Readable(k)
  <2>1. k \in DOMAIN dh /\ dh[k] \in DirHandle /\ dh[k].dir # 0
    BY <1>1, <1>8 DEF Readable, HandlesOk
  <2>2. PICK h \in DirHandle : h = dh[k]
    BY <2>1
  <2>3. PICK d \in Dir : d = h.dir
    BY <2>1, <2>2 DEF DirHandle
  <2>4. PICK q \in Nat : q = Sq(r) /\ q = Max({r.seq, 0})
    BY SqIs
  <2>5. PICK f : f = Rewind(h, q)
    OBVIOUS
  <2>6. PICK p : p = Skipped(d, f, q)
    OBVIOUS
  <2>7. PICK m : m = Matching(s, d, p + 1)
    OBVIOUS
  <2>8. PICK g : g = ReadOut(d, f)
    OBVIOUS
  <2>9. PICK n : n = Max({q, f.seq}) + Between(d, p + 1, m) + 1
    OBVIOUS
  <2>10. PICK e : e = ReadTo(f, n, m)
    OBVIOUS
  <2>11. PICK c \in BOOLEAN : c = (q > 0 /\ (q # h.seq \/ h.dirpos # r.pos))
    OBVIOUS
  <2>12. disk[d] \in Row(d) /\ Plain(disk[d]) /\ Used(d) = Filled(disk[d])
    BY <1>1, Reading DEF DiskOk
  <2>13. /\ p \in Nat /\ f.seq \in Nat /\ f.dirpos \in Nat
         /\ g \in DirHandle /\ g.dir = d /\ g.used = h.used /\ f.dirpos <= g.dirpos
         /\ g.seq = f.seq + Cnt(Used(d), f.dirpos, g.dirpos)
         /\ p # End(d) /\ m # End(d) =>
              /\ e \in DirHandle /\ e.dir = d /\ e.used = h.used /\ e.seq = n /\ e.dirpos = m
              /\ m \in Nat /\ f.dirpos <= m /\ n \in Nat /\ n >= 1
              /\ n = f.seq + Cnt(Used(d), f.dirpos, m)
    BY <2>2, <2>3, <2>5, <2>6, <2>7, <2>8, <2>9, <2>10, <2>12, DirMoves
  <2>14. \/ /\ p = End(d) \/ m = End(d)
            /\ search' = [search EXCEPT ![s] = Ended(r, c)]
            /\ dh' = [dh EXCEPT ![k] = g]
         \/ /\ p # End(d) /\ m # End(d)
            /\ dh' = [dh EXCEPT ![k] = e]
            /\ search' = [search EXCEPT ![s] = Told(r, d, m, n, m, k, "more", c)]
    <3> DEFINE R == search[s]
               Q == Max({R.seq, 0})
               D == dh[R.h].dir
               F == Rewind(dh[R.h], Q)
               P == Skipped(D, F, Q)
               M == Matching(s, D, P + 1)
               N == Max({Q, F.seq}) + Between(D, P + 1, M) + 1
               C == Q > 0 /\ (Q # dh[R.h].seq \/ dh[R.h].dirpos # R.pos)
    <3>1. Readable(R.h)
      BY <1>3, <1>5, <1>8
    <3>2. \/ /\ P = End(D) \/ M = End(D)
             /\ search' = [search EXCEPT ![s] = Ended(R, C)]
             /\ dh' = [dh EXCEPT ![R.h] = ReadOut(D, F)]
          \/ /\ P # End(D) /\ M # End(D)
             /\ dh' = [dh EXCEPT ![R.h] = ReadTo(F, N, M)]
             /\ search' = [search EXCEPT ![s] = Told(R, D, M, N, M, R.h, "more", C)]
      BY <3>1 DEF nw_dir_search, ReadOut, ReadTo
    <3>3. R = r /\ R.h = k /\ Q = q /\ dh[R.h] = h
      BY <1>3, <1>5, <2>2, <2>4
    <3>4. D = d /\ F = f
      BY <2>3, <2>5, <3>3
    <3>5. P = p
      BY <2>6, <3>3, <3>4
    <3>6. M = m
      BY <2>7, <3>4, <3>5
    <3>7. N = n
      BY <2>9, <3>3, <3>4, <3>5, <3>6
    <3>8. C = c
      BY <2>11, <3>3
    <3>9. ReadOut(D, F) = g /\ ReadTo(F, N, M) = e
      BY <2>8, <2>10, <3>4, <3>6, <3>7
    <3> HIDE DEF R, Q, D, F, P, M, N, C
    <3> QED BY <3>2, <3>3, <3>4, <3>5, <3>6, <3>7, <3>8, <3>9
  <2>15. ASSUME ~r.evicted
         PROVE  /\ r.dir = d /\ Knows(s, r, disk[d]) /\ h.used
                /\ GoesOn(r, disk[d], p + 1, c)
    <3>1. r.dir = d /\ Knows(s, r, disk[d]) /\ h.used /\ NearTo(r, disk[d], h.seq, h.dirpos)
      BY <1>4, <1>5, <2>2, <2>3, <2>15 DEF SearchOk, Runs, Shares
    <3>2. q > 0 /\ (q # h.seq \/ h.dirpos # r.pos) => c
      BY <2>11
    <3>3. GoesOn(r, disk[d], p + 1, c)
      BY <2>2, <2>3, <2>4, <2>5, <2>6, <2>11, <2>12, <3>1, <3>2, SkipGoesOn
    <3> QED BY <3>1, <3>3
  <2>16. CASE /\ p = End(d) \/ m = End(d)
              /\ search' = [search EXCEPT ![s] = Ended(r, c)]
              /\ dh' = [dh EXCEPT ![k] = g]
    <3>1. PICK t : t = Ended(r, c)
      OBVIOUS
    <3>2. m = End(d)
      <4>1. CASE p = End(d)
        <5>1. \A i \in Used(d) : i \in Nat /\ i < End(d)
          BY <2>12, RowIs
        <5>2. m # End(d) => m \in Used(d) /\ p + 1 <= m
          <6>1. p + 1 \in Nat
            BY <2>13
          <6> QED BY <2>7, <2>12, <6>1, MatchingIs
        <5> QED BY <2>13, <4>1, <5>1, <5>2
      <4> QED BY <2>16, <4>1
    <3>3. ~r.evicted /\ ~(t.counted /\ t.removed) => t.stay = {}
      <4> SUFFICES ASSUME ~r.evicted, ~(t.counted /\ t.removed) PROVE t.stay = {}
        OBVIOUS
      <4>1. p + 1 \in Nat
        BY <2>13
      <4> QED BY <2>7, <2>11, <2>12, <2>15, <3>1, <3>2, <4>1, Ends
    <3>4. t \in Searchs /\ SearchOk(s, t, disk, dsh, dh')
      BY <1>4, <2>11, <3>1, <3>3, EndedOk
    <3>5. \A x \in Search : SearchOk(x, search[x], disk, dsh, dh')
      BY <2>1, <2>2, <2>3, <2>4, <2>5, <2>13, <2>16, DirMoved
    <3>6. HandlesOk(dh')
      BY <1>1, <2>13, <2>16 DEF HandlesOk
    <3> QED BY <1>6, <2>16, <3>1, <3>4, <3>5, <3>6
  <2>17. CASE /\ p # End(d) /\ m # End(d)
              /\ dh' = [dh EXCEPT ![k] = e]
              /\ search' = [search EXCEPT ![s] = Told(r, d, m, n, m, k, "more", c)]
    <3>1. PICK t : t = Told(r, d, m, n, m, k, "more", c)
      OBVIOUS
    <3>2. m \in Used(d)
      <4>1. p + 1 \in Nat
        BY <2>13
      <4> QED BY <2>7, <2>12, <2>17, <4>1, MatchingIs
    <3>3. n \in Nat /\ m \in Nat /\ k \in Nat /\ n >= 1
      BY <1>4, <1>5, <2>13, <2>17
    <3>4. /\ t \in Searchs /\ t.state = "more" /\ t.kind = r.kind /\ t.dir = r.dir /\ t.h = k
          /\ t.seq = n /\ t.pos = m /\ t.removed = r.removed /\ t.added = r.added
          /\ t.evicted = r.evicted
      <4>1. disk[d] \in Row(d) /\ "more" \in {"more", "last"}
        BY <2>12
      <4> QED BY <3>1, <3>2, <3>3, <4>1, ToldIs
    <3>5. \A x \in Search : SearchOk(x, search[x], disk, dsh, dh')
      <4>1. /\ e \in DirHandle /\ e.dir = d /\ e.used = h.used /\ f.dirpos <= e.dirpos
            /\ e.seq = f.seq + Cnt(Used(d), f.dirpos, e.dirpos)
        BY <2>13, <2>17
      <4> QED BY <2>1, <2>2, <2>3, <2>4, <2>5, <2>17, <4>1, DirMoved
    <3>6. HandlesOk(dh')
      BY <1>1, <2>13, <2>17 DEF HandlesOk
    <3>7. ASSUME ~r.evicted
          PROVE  Knows(s, t, disk[d]) /\ Shares(t, disk[d], dh')
      <4>1. NearTo(r, disk[d], e.seq, e.dirpos)
        <5>1. Runs(r) /\ r.kind = "dir" /\ r.h = k
          BY <1>4, <1>5, <3>7 DEF Runs
        <5> QED BY <1>3, <2>1, <2>2, <2>3, <2>4, <2>5, <2>13, <2>17, <5>1, DirMoved
      <4>2. Own(Used(d), n, m, r.removed, r.added)
        BY <2>12, <2>13, <2>17, <4>1 DEF NearTo, Near
      <4>3. \A i \in Used(d) : ~(m < i /\ i <= m)
        BY <2>12, <3>3, RowIs
      <4>4. Knows(s, t, disk[d])
        <5>1. p + 1 \in Nat /\ m <= m /\ "more" \in {"more", "last"} /\ "more" # "last"
          BY <2>13, <3>3
        <5> QED BY <2>7, <2>11, <2>12, <2>15, <2>17, <3>1, <3>3, <3>7, <4>2, <4>3, <5>1, Tells
      <4>5. NearTo(t, disk[d], n, m)
        <5>1. Sq(t) = n
          BY <3>3, <3>4 DEF Sq
        <5>2. /\ Filled(disk[d]) \in SlotSets /\ Staying(disk[d], t) \in SUBSET Filled(disk[d])
          BY <2>12, RowIs
        <5>3. n \in Int /\ t.removed \in BOOLEAN /\ t.added \in BOOLEAN
          BY <3>3, <3>4 DEF Searchs
        <5>4. Own(Filled(disk[d]), n, m, t.removed, t.added)
          BY <2>12, <3>4, <4>2
        <5>5. Near(Filled(disk[d]), Staying(disk[d], t), n, m, n, m, t.removed, t.added)
          BY <3>3, <5>2, <5>3, <5>4, NearSelf
        <5> QED BY <3>4, <5>1, <5>5 DEF NearTo
      <4>6. k \in DOMAIN dh' /\ dh'[k] = e
        BY <2>1, <2>17
      <4> QED BY <2>13, <2>15, <2>17, <3>4, <3>7, <4>4, <4>5, <4>6 DEF Shares
    <3>8. SearchOk(s, t, disk, dsh, dh')
      BY <1>4, <2>15, <3>4, <3>7 DEF SearchOk, Runs
    <3> QED BY <1>6, <2>17, <3>1, <3>4, <3>5, <3>6, <3>8
  <2> QED BY <2>14, <2>16, <2>17
<1> QED BY <1>7, <1>8

(* The handle of a name space call changes: the others do not mind.          *)
LEMMA NsMoved ==
  ASSUME SearchInv, NEW r \in Searchs, NEW d \in Dir, r.dir = d,
         NEW k, k = KeyOf(r), NEW tab, tab = TabOf(r),
         NEW z \in SearchHandle, z.dir = d,
         \A x \in Search :
           /\ Knows(x, search[x], disk[d])
           /\ tab[k].dirpos # 0 => NearTo(search[x], disk[d], tab[k].last, tab[k].dirpos)
           => Noted(search[x], disk[d], z),
         NEW G, G = Put(tab, k, z)
  PROVE  /\ TableOk(G, CountOf(r)) /\ k \in DOMAIN G /\ G[k] = z
         /\ \A x \in Search : SearchOk(x, search[x], disk, G, dh)
<1>1. TableOk(dsh, count)
  BY DEF SearchInv
<1>2. /\ TableOk(tab, CountOf(r)) /\ k \in DOMAIN tab /\ k \in Nat
      /\ \A j \in DOMAIN tab : j # k =>
           /\ j \in DOMAIN dsh /\ tab[j].dir = dsh[j].dir /\ tab[j].last = dsh[j].last
           /\ tab[j].dirpos = dsh[j].dirpos /\ tab[j].found = dsh[j].found
      /\ tab[k].dirpos # 0 => k \in DOMAIN dsh /\ tab[k] = dsh[k]
      /\ tab[k].dir = d
  BY <1>1, TabIs
<1>3. /\ DOMAIN G = DOMAIN tab /\ G[k] = z
      /\ \A j \in DOMAIN tab : j # k => G[j] = tab[j]
  BY <1>2 DEF Put
<1>4. TableOk(G, CountOf(r))
  BY <1>2, <1>3 DEF TableOk
<1>5. ASSUME NEW x \in Search PROVE SearchOk(x, search[x], disk, G, dh)
  <2>1. PICK t \in Searchs : t = search[x]
    BY DEF SearchInv
  <2>2. SearchOk(x, t, disk, dsh, dh)
    BY <2>1 DEF SearchInv
  <2>3. ASSUME Runs(t), t.kind = "ns", Held(t, G) PROVE Noted(t, disk[t.dir], G[t.h])
    <3>1. /\ t.dir \in Dir /\ Knows(x, t, disk[t.dir])
          /\ Held(t, dsh) => Noted(t, disk[t.dir], dsh[t.h])
      BY <2>2, <2>3 DEF SearchOk, Runs
    <3>2. CASE t.h = k
      <4>1. t.dir = d
        BY <1>3, <2>3, <3>2 DEF Held
      <4>2. ASSUME tab[k].dirpos # 0 PROVE NearTo(t, disk[d], tab[k].last, tab[k].dirpos)
        <5>1. k \in DOMAIN dsh /\ tab[k] = dsh[k] /\ dsh[k].dir = d
          BY <1>2, <4>2
        <5>2. Held(t, dsh)
          BY <2>3, <3>2, <4>1, <5>1 DEF Held
        <5>3. Noted(t, disk[d], tab[k])
          BY <3>1, <3>2, <4>1, <5>1, <5>2
        <5> QED BY <4>2, <5>3 DEF Noted
      <4>3. Noted(t, disk[d], z)
        BY <2>1, <3>1, <4>1, <4>2
      <4> QED BY <1>3, <3>2, <4>1, <4>3
    <3>3. CASE t.h # k
      <4>1. /\ t.h \in DOMAIN tab /\ G[t.h] = tab[t.h] /\ t.h \in DOMAIN dsh
            /\ tab[t.h].dir = dsh[t.h].dir /\ tab[t.h].last = dsh[t.h].last
            /\ tab[t.h].dirpos = dsh[t.h].dirpos /\ tab[t.h].found = dsh[t.h].found
        BY <1>2, <1>3, <2>3, <3>3 DEF Held
      <4>2. Held(t, dsh)
        BY <2>3, <4>1 DEF Held
      <4>3. Noted(t, disk[t.dir], dsh[t.h])
        BY <3>1, <4>2
      <4> QED BY <4>1, <4>3 DEF Noted
    <3> QED BY <3>2, <3>3
  <2> QED BY <2>1, <2>2, <2>3, NsKept
<1> QED BY <1>2, <1>3, <1>4, <1>5

(* A call of the name spaces.                                                *)
LEMMA StepNs ==
  ASSUME SearchInv, NEW s \in Search, nw_search_file_dir(s)
  PROVE  SearchInv'
<1>1. /\ DiskOk(disk) /\ TableOk(dsh, count) /\ HandlesOk(dh) /\ search \in [Search -> Searchs]
  BY DEF SearchInv
<1>2. disk' = disk /\ dh' = dh
  BY DEF nw_search_file_dir
<1>3. PICK r \in Searchs : r = search[s]
  BY <1>1
<1>4. r.kind = "ns" /\ r.state \in {"more", "last"}
  BY <1>3 DEF nw_search_file_dir
<1>5. PICK d \in Dir : d = r.dir
  BY <1>3, <1>4 DEF SearchInv, SearchOk
<1>6. /\ ~r.evicted /\ Runs(r) /\ Knows(s, r, disk[d])
      /\ Held(r, dsh) => Noted(r, disk[d], dsh[r.h])
  BY <1>3, <1>4, <1>5 DEF SearchInv, SearchOk, Runs
<1>7. disk[d] \in Row(d) /\ Plain(disk[d]) /\ Used(d) = Filled(disk[d])
  BY <1>1, Reading DEF DiskOk
<1>8. PICK k : k = KeyOf(r)
  OBVIOUS
<1>9. PICK tab : tab = TabOf(r)
  OBVIOUS
<1>10. /\ TableOk(tab, CountOf(r)) /\ k \in DOMAIN tab /\ k \in Nat /\ tab[k].dir = d
       /\ Owns(r) => k = r.h /\ tab[k] = dsh[k]
       /\ ~Owns(r) => tab[k].dirpos = 0
  BY <1>1, <1>5, <1>8, <1>9, TabIs
<1>11. PICK f \in SearchHandle : f = tab[k]
  BY <1>10 DEF TableOk
<1>12. PICK q \in Nat : q = Sq(r) /\ q = Max({r.seq, 0})
  BY SqIs
<1>13. PICK at : at = Position(d, f, q)
  OBVIOUS
<1>14. PICK m : m = Matching(s, d, at.slot)
  OBVIOUS
<1>15. PICK more : more = Matching(s, d, m + 1)
  OBVIOUS
<1>16. PICK g : g = Found(s, d, at, m, more)
  OBVIOUS
<1>17. PICK v : v = NotFound(d, f, at)
  OBVIOUS
<1>18. PICK c \in BOOLEAN : c = Recounted(r, f, at)
  BY DEF Recounted
<1>19. PICK st : st = IF g.found = 0 THEN "last" ELSE "more"
  OBVIOUS
<1>20. /\ count' = CountOf(r)
       /\ \/ /\ m = End(d) /\ dsh' = Put(tab, k, v)
             /\ search' = [search EXCEPT ![s] = Ended(r, c)]
          \/ /\ m # End(d) /\ dsh' = Put(tab, k, g)
             /\ search' = [search EXCEPT ![s] = Told(r, d, m, g.last, g.dirpos, k, st, c)]
  <2> DEFINE R == search[s]
             D == R.dir
             K == IF Owns(R) THEN R.h ELSE Taken
             T == IF Owns(R) THEN dsh ELSE Put(Aged, K, FreshHandle(D))
             A == Position(D, T[K], Max({R.seq, 0}))
             M == Matching(s, D, A.slot)
             W == Matching(s, D, M + 1)
             G == Found(s, D, A, M, W)
             C == Recounted(R, T[K], A)
  <2>1. /\ count' = IF Owns(R) THEN count ELSE Max({CutTo(Expired), K + 1})
        /\ \/ /\ M = End(D) /\ dsh' = Put(T, K, NotFound(D, T[K], A))
              /\ search' = [search EXCEPT ![s] = Ended(R, C)]
           \/ /\ M # End(D) /\ dsh' = Put(T, K, G)
              /\ search' = [search EXCEPT ![s] =
                   Told(R, D, M, G.last, G.dirpos, K, IF G.found = 0 THEN "last" ELSE "more", C)]
    <3>1. count' = IF Owns(R) THEN count ELSE Max({CutTo(Expired), K + 1})
      BY DEF nw_search_file_dir
    <3>2. \E a \in {Position(D, T[K], Max({R.seq, 0}))} : \E b \in {Matching(s, D, a.slot)} :
               \/ /\ b = End(D) /\ dsh' = Put(T, K, NotFound(D, T[K], a))
                  /\ search' = [search EXCEPT ![s] = Ended(R, Recounted(R, T[K], a))]
               \/ /\ b # End(D)
                  /\ \E u \in {Found(s, D, a, b, Matching(s, D, b + 1))} :
                       /\ dsh' = Put(T, K, u)
                       /\ search' = [search EXCEPT ![s] =
                            Told(R, D, b, u.last, u.dirpos, K, IF u.found = 0 THEN "last" ELSE "more",
                                 Recounted(R, T[K], a))]
      BY DEF nw_search_file_dir
    <3> HIDE DEF R, D, K, T
    <3> QED BY <3>1, <3>2
  <2>2. R = r /\ D = d
    BY <1>3, <1>5
  <2>3. K = k /\ T = tab
    BY <1>5, <1>8, <1>9, <2>2 DEF KeyOf, TabOf
  <2>4. T[K] = f
    BY <1>11, <2>3
  <2>5. A = at
    BY <1>12, <1>13, <2>2, <2>4
  <2>6. M = m
    BY <1>14, <2>2, <2>5
  <2>7. W = more
    BY <1>15, <2>2, <2>6
  <2>8. G = g
    BY <1>16, <2>2, <2>5, <2>6, <2>7
  <2>9. C = c
    BY <1>18, <2>2, <2>4, <2>5
  <2>10. NotFound(D, T[K], A) = v
    BY <1>17, <2>2, <2>4, <2>5
  <2>11. CountOf(r) = IF Owns(R) THEN count ELSE Max({CutTo(Expired), K + 1})
    BY <1>8, <2>2, <2>3 DEF CountOf
  <2> HIDE DEF R, D, K, T, A, M, W, G, C
  <2> QED BY <1>19, <2>1, <2>2, <2>3, <2>4, <2>5, <2>6, <2>7, <2>8, <2>9, <2>10, <2>11
<1>21. ASSUME f.dirpos # 0 PROVE Owns(r) /\ f = dsh[r.h]
  BY <1>10, <1>11, <1>21
<1>22. Noted(r, disk[d], f)
  <2>1. CASE f.dirpos = 0
    BY <2>1 DEF Noted
  <2>2. CASE f.dirpos # 0
    <3>1. Owns(r) /\ f = dsh[r.h]
      BY <1>21, <2>2
    <3>2. Held(r, dsh)
      BY <3>1 DEF Owns, Held
    <3> QED BY <1>6, <3>1, <3>2
  <2> QED BY <2>1, <2>2
<1>23. GoesOn(r, disk[d], at.slot, c)
  BY <1>5, <1>6, <1>7, <1>12, <1>13, <1>18, <1>22, PositionGoesOn DEF Recounted
<1>24. at.slot \in Nat /\ at.last \in Nat /\ at.slot <= End(d) /\ at.slot >= 1
  BY <1>7, <1>13, AtIs
<1>25. f.last \in Nat /\ f.dirpos \in Nat
  BY DEF SearchHandle
<1>26. ASSUME NEW z \in SearchHandle, z.dir = d, NEW t \in Searchs, dsh' = Put(tab, k, z),
              \A x \in Search :
                /\ Knows(x, search[x], disk[d])
                /\ f.dirpos # 0 => NearTo(search[x], disk[d], f.last, f.dirpos)
                => Noted(search[x], disk[d], z),
              search' = [search EXCEPT ![s] = t], SearchOk(s, t, disk, dsh', dh)
       PROVE  SearchInv'
  <2>1. /\ TableOk(dsh', CountOf(r))
        /\ \A x \in Search : SearchOk(x, search[x], disk, dsh', dh)
    BY <1>5, <1>8, <1>9, <1>11, <1>26, NsMoved
  <2>2. search' \in [Search -> Searchs] /\ \A x \in Search : search'[x] = IF x = s THEN t ELSE search[x]
    BY <1>1, <1>26
  <2>3. \A x \in Search : SearchOk(x, search'[x], disk, dsh', dh)
    BY <1>26, <2>1, <2>2
  <2> QED BY <1>1, <1>2, <1>20, <2>1, <2>2, <2>3 DEF SearchInv
<1>27. CASE /\ m = End(d) /\ dsh' = Put(tab, k, v)
            /\ search' = [search EXCEPT ![s] = Ended(r, c)]
  <2>1. v \in SearchHandle /\ v.dir = d /\ v.dirpos = 0
    <3>1. PICK n \in Nat : n = at.last + Between(d, at.slot, End(d))
      <4>1. PICK j \in Nat : at.slot = j + 1
        <5>1. at.slot - 1 \in Nat /\ at.slot = (at.slot - 1) + 1
          BY <1>24
        <5> QED BY <5>1
      <4>2. PICK l \in Nat : End(d) = l + 1
        <5>1. End(d) - 1 \in Nat /\ End(d) = (End(d) - 1) + 1
          BY <1>7, RowIs
        <5> QED BY <5>1
      <4>3. Between(d, at.slot, End(d)) = Cnt(Used(d), j, l)
        BY <1>7, <4>1, <4>2, Reading
      <4>4. Cnt(Used(d), j, l) \in Nat
        BY <1>7, Reading, CntIs
      <4> QED BY <1>24, <4>3, <4>4
    <3>2. v = [f EXCEPT !.idle = MaxIdle - 2, !.dirpos = 0, !.last = n]
      BY <1>17, <3>1 DEF NotFound
    <3>3. MaxIdle - 2 \in 0..MaxIdle
      BY SearchConstants
    <3>4. f.dir = d
      BY <1>10, <1>11
    <3> QED BY <3>2, <3>3, <3>4 DEF SearchHandle
  <2>2. PICK t : t = Ended(r, c)
    OBVIOUS
  <2>3. ~r.evicted /\ ~(t.counted /\ t.removed) => t.stay = {}
    BY <1>5, <1>6, <1>7, <1>14, <1>23, <1>24, <1>27, <2>2, Ends
  <2>4. t \in Searchs /\ SearchOk(s, t, disk, dsh', dh)
    BY <1>6, <2>2, <2>3, EndedOk
  <2>5. \A x \in Search : Noted(search[x], disk[d], v)
    BY <2>1 DEF Noted
  <2> QED BY <1>26, <1>27, <2>1, <2>2, <2>4, <2>5
<1>28. CASE /\ m # End(d) /\ dsh' = Put(tab, k, g)
            /\ search' = [search EXCEPT ![s] = Told(r, d, m, g.last, g.dirpos, k, st, c)]
  <2>1. /\ g \in SearchHandle /\ g.dir = d /\ g.last \in Nat /\ g.last >= 1
        /\ g.dirpos \in Nat /\ m \in Nat /\ m <= g.dirpos /\ m \in Used(d)
        /\ Moved(Used(d), f.last, f.dirpos, g.last, g.dirpos)
        /\ \A i \in Used(d) : m < i /\ i <= g.dirpos => disk[d][i] \notin Match[s]
        /\ g.found = 0 => \A i \in Used(d) : m < i => disk[d][i] \notin Match[s]
        /\ g.found # 0 => /\ more \in Used(d) /\ disk[d][more] = g.found /\ g.dirpos < more
                          /\ \A i \in Used(d) : i < more => i <= g.dirpos
    BY <1>7, <1>13, <1>14, <1>15, <1>16, <1>28, FoundIs
  <2>2. ASSUME NEW x \in Search, NEW t \in Searchs, Knows(x, t, disk[d]),
               f.dirpos # 0 => NearTo(t, disk[d], f.last, f.dirpos)
        PROVE  NearTo(t, disk[d], g.last, g.dirpos) /\ Noted(t, disk[d], g)
    <3>1. NearTo(t, disk[d], g.last, g.dirpos)
      BY <1>7, <1>25, <2>1, <2>2, NearMoved
    <3> QED BY <1>7, <2>1, <3>1, FoundNoted
  <2>3. \A x \in Search :
          /\ Knows(x, search[x], disk[d])
          /\ f.dirpos # 0 => NearTo(search[x], disk[d], f.last, f.dirpos)
          => Noted(search[x], disk[d], g)
    BY <1>1, <2>2
  <2>4. PICK t : t = Told(r, d, m, g.last, g.dirpos, k, st, c)
    OBVIOUS
  <2>5. st \in {"more", "last"} /\ (st = "last" => g.found = 0)
    BY <1>19
  <2>6. /\ t \in Searchs /\ t.state = st /\ t.kind = r.kind /\ t.dir = r.dir /\ t.h = k
        /\ t.seq = g.last /\ t.pos = g.dirpos /\ t.removed = r.removed /\ t.added = r.added
        /\ t.evicted = r.evicted
    <3>1. g.last \in Nat /\ g.dirpos \in Nat /\ k \in Nat /\ st \in {"more", "last"}
      BY <1>10, <2>1, <2>5
    <3>2. m \in Used(d) /\ disk[d] \in Row(d)
      BY <1>7, <2>1
    <3>3. PICK n \in Nat, o \in Nat : n = g.last /\ o = g.dirpos
      BY <3>1
    <3>4. t = Told(r, d, m, n, o, k, st, c)
      BY <2>4, <3>3
    <3>5. k \in Nat
      BY <3>1
    <3>6. CASE st = "more"
      <4>1. t = Told(r, d, m, n, o, k, "more", c) /\ "more" \in {"more", "last"}
        BY <3>4, <3>6
      <4>2. /\ t \in Searchs /\ t.state = "more" /\ t.kind = r.kind /\ t.dir = r.dir /\ t.h = k
            /\ t.seq = n /\ t.pos = o /\ t.removed = r.removed /\ t.added = r.added
            /\ t.evicted = r.evicted
        BY <3>2, <3>5, <4>1, ToldIs
      <4> QED BY <3>3, <3>6, <4>2
    <3>7. CASE st = "last"
      <4>1. t = Told(r, d, m, n, o, k, "last", c) /\ "last" \in {"more", "last"}
        BY <3>4, <3>7
      <4>2. /\ t \in Searchs /\ t.state = "last" /\ t.kind = r.kind /\ t.dir = r.dir /\ t.h = k
            /\ t.seq = n /\ t.pos = o /\ t.removed = r.removed /\ t.added = r.added
            /\ t.evicted = r.evicted
        BY <3>2, <3>5, <4>1, ToldIs
      <4> QED BY <3>3, <3>7, <4>2
    <3> QED BY <3>1, <3>6, <3>7
  <2>7. NearTo(r, disk[d], g.last, g.dirpos)
    <3>1. f.dirpos # 0 => NearTo(r, disk[d], f.last, f.dirpos)
      BY <1>22 DEF Noted
    <3> QED BY <1>6, <2>2, <3>1
  <2>8. Own(Used(d), g.last, g.dirpos, r.removed, r.added)
    BY <1>7, <2>7 DEF NearTo, Near
  <2>9. Knows(s, t, disk[d])
    <3>1. st = "last" => \A i \in Used(d) : m < i => disk[d][i] \notin Match[s]
      BY <2>1, <2>5
    <3> QED BY <1>5, <1>6, <1>7, <1>10, <1>14, <1>23, <1>24, <1>28, <2>1, <2>4, <2>5, <2>8, <3>1, Tells
  <2>10. NearTo(t, disk[d], g.last, g.dirpos)
    <3>1. Sq(t) = g.last
      BY <2>1, <2>6 DEF Sq
    <3>2. /\ Filled(disk[d]) \in SlotSets /\ Staying(disk[d], t) \in SUBSET Filled(disk[d])
      BY <1>7, RowIs
    <3>3. g.last \in Int /\ t.removed \in BOOLEAN /\ t.added \in BOOLEAN
      BY <2>1, <2>6 DEF Searchs
    <3>4. Own(Filled(disk[d]), g.last, g.dirpos, t.removed, t.added)
      BY <1>7, <2>6, <2>8
    <3>5. Near(Filled(disk[d]), Staying(disk[d], t), g.last, g.dirpos, g.last, g.dirpos, t.removed, t.added)
      BY <2>1, <3>2, <3>3, <3>4, NearSelf
    <3> QED BY <2>6, <3>1, <3>5 DEF NearTo
  <2>11. Noted(t, disk[d], g)
    BY <1>7, <2>1, <2>6, <2>10, FoundNoted
  <2>12. k \in DOMAIN dsh' /\ dsh'[k] = g
    BY <1>10, <1>28 DEF Put
  <2>13. SearchOk(s, t, disk, dsh', dh)
    BY <1>4, <1>5, <1>6, <2>5, <2>6, <2>9, <2>11, <2>12 DEF SearchOk
  <2> QED BY <1>26, <1>28, <2>1, <2>3, <2>4, <2>6, <2>13
<1> QED BY <1>20, <1>27, <1>28

(* A call that keeps nothing.                                                *)
LEMMA StepFile ==
  ASSUME SearchInv, NEW s \in Search, nw_search(s)
  PROVE  SearchInv'
<1>1. /\ DiskOk(disk) /\ TableOk(dsh, count) /\ HandlesOk(dh) /\ search \in [Search -> Searchs]
  BY DEF SearchInv
<1>2. disk' = disk /\ dsh' = dsh /\ count' = count /\ dh' = dh
  BY DEF nw_search
<1>3. PICK r \in Searchs : r = search[s]
  BY <1>1
<1>4. r.kind = "file" /\ r.state = "more"
  BY <1>3 DEF nw_search
<1>5. PICK d \in Dir : d = r.dir
  BY <1>3, <1>4 DEF SearchInv, SearchOk
<1>6. ~r.evicted /\ Knows(s, r, disk[d])
  BY <1>3, <1>4, <1>5 DEF SearchInv, SearchOk, Runs
<1>7. disk[d] \in Row(d) /\ Plain(disk[d]) /\ Used(d) = Filled(disk[d]) /\ Used(d) \in SlotSets
  BY <1>1, Reading DEF DiskOk
<1>8. PICK q \in Nat : q = Sq(r) /\ q = Max({r.seq, 0})
  BY SqIs
<1>9. PICK b \in Nat : b = Nth(d, q)
  <2>1. Nth(d, q) \in Nat
    BY <1>7, NthIs
  <2> QED BY <2>1
<1>10. PICK m : m = Matching(s, d, b)
  OBVIOUS
<1>11. PICK c \in BOOLEAN : c = (q > 0)
  <2>1. (q > 0) \in BOOLEAN
    OBVIOUS
  <2> QED BY <2>1, Zenon
<1>12. search' = [search EXCEPT ![s] =
         IF m = End(d) THEN Ended(r, c) ELSE Told(r, d, m, Between(d, 1, m) + 1, m, 0, "more", c)]
  <2> DEFINE R == search[s]
             Q == Max({R.seq, 0})
             M == Matching(s, R.dir, Nth(R.dir, Q))
  <2>1. search' = [search EXCEPT ![s] =
          IF M = End(R.dir) THEN Ended(R, Q > 0)
          ELSE Told(R, R.dir, M, Between(R.dir, 1, M) + 1, M, 0, "more", Q > 0)]
    BY DEF nw_search
  <2>2. R = r /\ R.dir = d /\ Q = q
    BY <1>3, <1>5, <1>8
  <2>3. M = m
    BY <1>9, <1>10, <2>2
  <2>4. (Q > 0) = c
    BY <1>11, <2>2
  <2> HIDE DEF R, Q, M
  <2> QED BY <2>1, <2>2, <2>3, <2>4
<1>13. GoesOn(r, disk[d], b, c)
  <2>1. Sq(r) > 0 => c
    BY <1>8, <1>11
  <2> QED BY <1>6, <1>7, <1>8, <1>9, <2>1, CountGoesOn
<1>14. ASSUME NEW t \in Searchs, search' = [search EXCEPT ![s] = t], SearchOk(s, t, disk, dsh, dh)
       PROVE  SearchInv'
  <2>1. search' \in [Search -> Searchs] /\ \A x \in Search : search'[x] = IF x = s THEN t ELSE search[x]
    BY <1>1, <1>14
  <2>2. \A x \in Search : SearchOk(x, search'[x], disk, dsh, dh)
    BY <1>14, <2>1 DEF SearchInv
  <2> QED BY <1>1, <1>2, <2>1, <2>2 DEF SearchInv
<1>15. CASE m = End(d)
  <2>1. PICK t : t = Ended(r, c)
    OBVIOUS
  <2>2. ~r.evicted /\ ~(t.counted /\ t.removed) => t.stay = {}
    BY <1>5, <1>6, <1>7, <1>9, <1>10, <1>13, <1>15, <2>1, Ends
  <2>3. t \in Searchs /\ SearchOk(s, t, disk, dsh, dh)
    BY <1>6, <2>1, <2>2, EndedOk
  <2> QED BY <1>12, <1>14, <1>15, <2>1, <2>3
<1>16. CASE m # End(d)
  <2>1. m \in Nat /\ m \in Used(d)
    BY <1>7, <1>9, <1>10, <1>16, MatchingIs
  <2>2. PICK n \in Nat : n = Between(d, 1, m) + 1 /\ n = Cnt(Used(d), 0, m) /\ n >= 1
    <3>1. PICK j \in Nat : m = j + 1
      <4>1. m - 1 \in Nat /\ m = (m - 1) + 1
        BY <1>7, <2>1, RowIs
      <4> QED BY <4>1
    <3>2. Between(d, 0 + 1, j + 1) = Cnt(Used(d), 0, j)
      BY <1>7, Reading
    <3>3. Between(d, 1, m) = Cnt(Used(d), 0, j)
      BY <3>1, <3>2
    <3>4. Cnt(Used(d), j, m) = 1
      BY <1>7, <2>1, <3>1, CntOne
    <3>5. Cnt(Used(d), 0, m) = Cnt(Used(d), 0, j) + Cnt(Used(d), j, m)
      <4>1. 0 <= j /\ j <= m
        BY <3>1
      <4> QED BY <1>7, <2>1, <4>1, CntSplit
    <3>6. Cnt(Used(d), 0, j) \in Nat
      BY <1>7, CntIs
    <3> QED BY <3>3, <3>4, <3>5, <3>6
  <2>3. PICK t : t = Told(r, d, m, n, m, 0, "more", c)
    OBVIOUS
  <2>4. t \in Searchs /\ t.state = "more" /\ t.kind = r.kind /\ t.dir = r.dir /\ t.evicted = r.evicted
    <3>1. 0 \in Nat /\ "more" \in {"more", "last"} /\ disk[d] \in Row(d)
      BY <1>7
    <3> QED BY <2>1, <2>3, <3>1, ToldIs
  <2>5. Own(Used(d), n, m, r.removed, r.added)
    <3>1. n \in Int /\ r.removed \in BOOLEAN /\ r.added \in BOOLEAN
      BY DEF Searchs
    <3> QED BY <1>7, <2>1, <2>2, <3>1, OwnExact
  <2>6. Knows(s, t, disk[d])
    <3>1. /\ 0 \in Nat /\ m <= m /\ "more" \in {"more", "last"} /\ "more" # "last"
          /\ \A i \in Used(d) : ~(m < i /\ i <= m)
      BY <1>7, <2>1, RowIs
    <3> QED BY <1>5, <1>6, <1>7, <1>9, <1>10, <1>13, <1>16, <2>1, <2>2, <2>3, <2>5, <3>1, Tells
  <2>7. SearchOk(s, t, disk, dsh, dh)
    BY <1>4, <1>5, <1>6, <2>4, <2>6 DEF SearchOk
  <2> QED BY <1>12, <1>14, <1>16, <2>2, <2>3, <2>4, <2>7
<1> QED BY <1>15, <1>16

(* A search starts.                                                          *)
LEMMA StepStart ==
  ASSUME SearchInv, NEW s \in Search, NEW kind \in {"ns", "file"}, NEW d \in Dir,
         nw_init_search(s, kind, d)
  PROVE  SearchInv'
<1>1. /\ DiskOk(disk) /\ TableOk(dsh, count) /\ HandlesOk(dh) /\ search \in [Search -> Searchs]
  BY DEF SearchInv
<1>2. /\ disk' = disk /\ dsh' = dsh /\ count' = count /\ dh' = dh
      /\ search' = [search EXCEPT ![s] = Started(s, kind, d, 0)]
  BY DEF nw_init_search
<1>3. PICK t : t = Started(s, kind, d, 0)
  OBVIOUS
<1>4. /\ t \in Searchs /\ t.state = "more" /\ t.kind = kind /\ t.dir = d
      /\ t.seq = -1 /\ ~t.evicted /\ Knows(s, t, disk[d])
  <2>1. kind \in {"ns", "dir", "file"} /\ 0 \in Nat
    OBVIOUS
  <2> QED BY <1>1, <1>3, <2>1, StartedIs
<1>5. ~Held(t, dsh)
  BY <1>4 DEF Held
<1>6. SearchOk(s, t, disk, dsh, dh)
  BY <1>4, <1>5 DEF SearchOk
<1>7. search' \in [Search -> Searchs] /\ \A x \in Search : search'[x] = IF x = s THEN t ELSE search[x]
  BY <1>1, <1>2, <1>3, <1>4
<1>8. \A x \in Search : SearchOk(x, search'[x], disk, dsh, dh)
  BY <1>6, <1>7 DEF SearchInv
<1> QED BY <1>1, <1>2, <1>7, <1>8 DEF SearchInv

(* A search is given up.                                                     *)
LEMMA StepForget ==
  ASSUME SearchInv, NEW s \in Search, Forget(s)
  PROVE  SearchInv'
<1>1. /\ DiskOk(disk) /\ TableOk(dsh, count) /\ HandlesOk(dh) /\ search \in [Search -> Searchs]
  BY DEF SearchInv
<1>2. /\ disk' = disk /\ dsh' = dsh /\ count' = count /\ dh' = dh
      /\ search' = [search EXCEPT ![s] = Off]
  BY DEF Forget
<1>3. Off \in Searchs /\ SearchOk(s, Off, disk, dsh, dh)
  BY OffOk
<1>4. search' \in [Search -> Searchs] /\ \A x \in Search : search'[x] = IF x = s THEN Off ELSE search[x]
  BY <1>1, <1>2, <1>3
<1>5. \A x \in Search : SearchOk(x, search'[x], disk, dsh, dh)
  BY <1>3, <1>4 DEF SearchInv
<1> QED BY <1>1, <1>2, <1>4, <1>5 DEF SearchInv

(* The row with x in its slot i.                                            *)
With(F, i, x) == [F EXCEPT ![i] = x]

(* The search after an entry x was removed, and after one was added.         *)
Less(r, x) == [r EXCEPT !.removed = TRUE, !.stay = @ \ {x}]
More(r) == [r EXCEPT !.added = TRUE]

(* The fields after an entry was removed.                                    *)
LEMMA LessIs ==
  ASSUME NEW r \in Searchs, NEW x, NEW t, t = Less(r, x)
  PROVE  /\ t \in Searchs
         /\ t.state = r.state /\ t.kind = r.kind /\ t.dir = r.dir /\ t.h = r.h /\ t.seq = r.seq
         /\ t.pos = r.pos /\ t.stay = r.stay \ {x} /\ t.got = r.got /\ t.twice = r.twice
         /\ (t.counted <=> r.counted) /\ t.removed /\ (t.added <=> r.added)
         /\ (t.evicted <=> r.evicted)
  BY DEF Less, Searchs

(* The fields after an entry was added.                                      *)
LEMMA MoreIs ==
  ASSUME NEW r \in Searchs, NEW t, t = More(r)
  PROVE  /\ t \in Searchs
         /\ t.state = r.state /\ t.kind = r.kind /\ t.dir = r.dir /\ t.h = r.h /\ t.seq = r.seq
         /\ t.pos = r.pos /\ t.stay = r.stay /\ t.got = r.got /\ t.twice = r.twice
         /\ (t.counted <=> r.counted) /\ (t.removed <=> r.removed) /\ t.added
         /\ (t.evicted <=> r.evicted)
  BY DEF More, Searchs

(* An entry is removed while the search r runs.                              *)
LEMMA LessOk ==
  ASSUME NEW s \in Search, NEW r \in Searchs, NEW d \in Dir, NEW F \in Row(d),
         NEW i \in Slots(d), F[i] # 0, Knows(s, r, F),
         NEW G, G = With(F, i, 0), NEW y, y = F[i], NEW t, t = Less(r, y)
  PROVE  /\ Knows(s, t, G)
         /\ \A n \in Nat, p \in Nat : NearTo(r, F, n, p) => NearTo(t, G, n, p)
         /\ \A f \in SearchHandle : Noted(r, F, f) => Noted(t, G, f)
<1>1. /\ t \in Searchs
      /\ t.state = r.state /\ t.seq = r.seq
      /\ t.pos = r.pos /\ t.stay = r.stay \ {y} /\ t.got = r.got /\ t.twice = r.twice
      /\ (t.counted <=> r.counted) /\ t.removed /\ (t.added <=> r.added)
  BY LessIs
<1>2. /\ DOMAIN F = Slots(d) /\ DOMAIN G = Slots(d) /\ G[i] = 0
      /\ \A j \in Slots(d) : j # i => G[j] = F[j]
  BY DEF Row, With
<1>3. /\ Filled(F) \in SlotSets /\ Filled(G) \in SUBSET Filled(F)
      /\ \A j \in Filled(F) : j # i => j \in Filled(G)
      /\ \A j \in Filled(G) : j # i /\ G[j] = F[j]
  BY <1>2, RowIs DEF Filled
<1>4. \A j \in Staying(G, t) : j \in Staying(F, r) /\ G[j] = F[j]
  BY <1>1, <1>2 DEF Staying
<1>5. r.pos \in Nat /\ r.removed \in BOOLEAN /\ r.added \in BOOLEAN
  BY DEF Searchs
<1>6. Sq(t) = Sq(r) /\ Sq(r) \in Nat
  <2>1. Sq(r) \in Nat
    BY SqIs
  <2> QED BY <1>1, <2>1 DEF Sq
<1>7. ASSUME NEW n \in Nat, NEW p \in Nat
      PROVE  /\ Own(Filled(F), n, p, r.removed, r.added) => Own(Filled(G), n, p, t.removed, t.added)
             /\ NearTo(r, F, n, p) => NearTo(t, G, n, p)
  <2>1. n \in Int /\ Sq(r) \in Int
    BY <1>6
  <2>2. /\ Own(Filled(F), n, p, r.removed, r.added) => Own(Filled(G), n, p, t.removed, t.added)
        /\ Near(Filled(F), Staying(F, r), Sq(r), r.pos, n, p, r.removed, r.added)
             => Near(Filled(G), Staying(G, t), Sq(r), r.pos, n, p, t.removed, t.added)
    <3>1. PICK S, T : S = Staying(F, r) /\ T = Staying(G, t)
      OBVIOUS
    <3>2. PICK U \in SlotSets : U = Filled(F)
      BY <1>3
    <3>3. PICK V \in SUBSET U : V = Filled(G)
      BY <1>3, <3>2
    <3>4. PICK sq \in Int, ps \in Nat : sq = Sq(r) /\ ps = r.pos
      BY <1>5, <2>1
    <3>5. PICK rem \in BOOLEAN, add \in BOOLEAN : rem = r.removed /\ add = r.added
      BY <1>5
    <3>6. PICK gone, more : gone = t.removed /\ more = t.added
      OBVIOUS
    <3>7. gone /\ (more <=> add)
      BY <1>1, <3>5, <3>6
    <3>8. /\ Cnt(U, 0, p) \in Nat /\ Cnt(V, 0, p) \in Nat /\ Cnt(V, 0, p) <= Cnt(U, 0, p)
          /\ Cnt(U, p, ps) \in Nat /\ Cnt(V, p, ps) \in Nat
          /\ Cnt(V, p, ps) <= Cnt(U, p, ps)
      BY <1>5, <3>2, <3>3, <3>4, CntFacts
    <3>9. /\ Own(U, n, p, rem, add) => Own(V, n, p, gone, more)
          /\ Near(U, S, sq, ps, n, p, rem, add) => Near(V, T, sq, ps, n, p, gone, more)
      BY <2>1, <3>4, <3>5, <3>7, <3>8 DEF Near, Own
    <3> QED BY <3>1, <3>2, <3>3, <3>4, <3>5, <3>6, <3>9
  <2> QED BY <1>1, <1>6, <2>2 DEF NearTo
<1>8. Knows(s, t, G)
  <2>1. t.stay \subseteq Match[s]
    BY <1>1 DEF Knows
  <2>2. ASSUME NEW x \in t.stay PROVE \E j \in Staying(G, t) : G[j] = x
    <3>1. PICK j \in Staying(F, r) : F[j] = x
      BY <1>1, <2>2 DEF Knows
    <3>2. j # i /\ j \in Slots(d) /\ F[j] # 0
      BY <1>1, <1>2, <2>2, <3>1 DEF Staying
    <3> QED BY <1>2, <2>2, <3>1, <3>2 DEF Staying
  <2>3. Own(Filled(G), Sq(t), t.pos, t.removed, t.added)
    BY <1>1, <1>5, <1>6, <1>7 DEF Knows
  <2>4. ~(t.counted /\ t.removed) => \A j \in Staying(G, t) : j <= t.pos => G[j] \in t.got
    BY <1>1, <1>4 DEF Knows
  <2>5. ~(t.counted /\ t.added) => /\ t.stay \cap t.twice = {}
                                   /\ \A j \in Staying(G, t) : G[j] \in t.got => j <= t.pos
    BY <1>1, <1>4 DEF Knows
  <2>6. t.state = "last" /\ ~(t.counted /\ t.removed) => t.stay \subseteq t.got
    BY <1>1 DEF Knows
  <2>7. t.seq < 1 => t.seq = -1 /\ t.pos = 0 /\ t.got = {} /\ t.twice = {}
    BY <1>1 DEF Knows
  <2> QED BY <2>1, <2>2, <2>3, <2>4, <2>5, <2>6, <2>7 DEF Knows
<1>9. ASSUME NEW f \in SearchHandle, Noted(r, F, f), f.dirpos # 0
      PROVE  /\ NearTo(t, G, f.last, f.dirpos)
             /\ f.found # 0 /\ ~r.added =>
                  \A e \in Filled(G) : G[e] = f.found =>
                     f.dirpos < e /\ \A j \in Filled(G) : j < e => j <= f.dirpos
  <2>1. f.last \in Nat /\ f.dirpos \in Nat
    BY DEF SearchHandle
  <2>2. NearTo(t, G, f.last, f.dirpos)
    BY <1>7, <1>9, <2>1 DEF Noted
  <2>3. f.found # 0 /\ ~r.added =>
          \A e \in Filled(F) : F[e] = f.found =>
             f.dirpos < e /\ \A j \in Filled(F) : j < e => j <= f.dirpos
    BY <1>9 DEF Noted
  <2> QED BY <1>3, <2>2, <2>3
<1>10. \A f \in SearchHandle : Noted(r, F, f) => Noted(t, G, f)
  BY <1>1, <1>9 DEF Noted
<1> QED BY <1>7, <1>8, <1>10

(* One is added while it runs.                                               *)
LEMMA MoreOk ==
  ASSUME NEW s \in Search, NEW r \in Searchs, NEW d \in Dir, NEW F \in Row(d),
         NEW i \in Slots(d), F[i] = 0, Knows(s, r, F),
         NEW x \in Ino, \A j \in Slots(d) : F[j] # x,
         NEW G, G = With(F, i, x), NEW t, t = More(r)
  PROVE  /\ Knows(s, t, G)
         /\ \A n \in Nat, p \in Nat : NearTo(r, F, n, p) => NearTo(t, G, n, p)
         /\ \A f \in SearchHandle : Noted(r, F, f) => Noted(t, G, f)
<1>1. /\ t \in Searchs
      /\ t.state = r.state /\ t.seq = r.seq
      /\ t.pos = r.pos /\ t.stay = r.stay /\ t.got = r.got /\ t.twice = r.twice
      /\ (t.counted <=> r.counted) /\ (t.removed <=> r.removed) /\ t.added
  BY MoreIs
<1>2. x # 0
  BY SearchConstants
<1>3. /\ DOMAIN F = Slots(d) /\ DOMAIN G = Slots(d) /\ G[i] = x
      /\ \A j \in Slots(d) : j # i => G[j] = F[j]
      /\ G \in Row(d)
  BY DEF Row, With
<1>4. /\ Filled(G) \in SlotSets /\ Filled(F) \in SUBSET Filled(G)
      /\ \A j \in Filled(F) : j # i /\ G[j] = F[j]
  <2>1. Filled(G) \in SlotSets
    BY <1>3, RowIs
  <2> QED BY <1>2, <1>3, <2>1 DEF Filled
<1>5. x \notin r.stay
  BY <1>3 DEF Knows, Staying
<1>6. Staying(G, t) = Staying(F, r) /\ \A j \in Staying(F, r) : G[j] = F[j]
  BY <1>1, <1>3, <1>5 DEF Staying
<1>7. r.pos \in Nat /\ r.removed \in BOOLEAN /\ r.added \in BOOLEAN
  BY DEF Searchs
<1>8. Sq(t) = Sq(r) /\ Sq(r) \in Nat
  <2>1. Sq(r) \in Nat
    BY SqIs
  <2> QED BY <1>1, <2>1 DEF Sq
<1>9. ASSUME NEW n \in Nat, NEW p \in Nat
      PROVE  /\ Own(Filled(F), n, p, r.removed, r.added) => Own(Filled(G), n, p, t.removed, t.added)
             /\ NearTo(r, F, n, p) => NearTo(t, G, n, p)
  <2>1. n \in Int /\ Sq(r) \in Int
    BY <1>8
  <2>2. /\ Own(Filled(F), n, p, r.removed, r.added) => Own(Filled(G), n, p, t.removed, t.added)
        /\ Near(Filled(F), Staying(F, r), Sq(r), r.pos, n, p, r.removed, r.added)
             => Near(Filled(G), Staying(F, r), Sq(r), r.pos, n, p, t.removed, t.added)
    <3>1. PICK S : S = Staying(F, r)
      OBVIOUS
    <3>2. PICK V \in SlotSets : V = Filled(G)
      BY <1>4
    <3>3. PICK U \in SUBSET V : U = Filled(F)
      BY <1>4, <3>2
    <3>4. PICK sq \in Int, ps \in Nat : sq = Sq(r) /\ ps = r.pos
      BY <1>7, <2>1
    <3>5. PICK rem \in BOOLEAN, add \in BOOLEAN : rem = r.removed /\ add = r.added
      BY <1>7
    <3>6. PICK gone, more : gone = t.removed /\ more = t.added
      OBVIOUS
    <3>7. more /\ (gone <=> rem)
      BY <1>1, <3>5, <3>6
    <3>8. /\ Cnt(U, 0, p) \in Nat /\ Cnt(V, 0, p) \in Nat /\ Cnt(U, 0, p) <= Cnt(V, 0, p)
          /\ Cnt(U, p, ps) \in Nat /\ Cnt(V, p, ps) \in Nat
          /\ Cnt(U, p, ps) <= Cnt(V, p, ps)
      <4>1. \A x1, x2 \in Nat : /\ Cnt(V, x1, x2) \in Nat /\ Cnt(U, x1, x2) \in Nat
                                /\ Cnt(U, x1, x2) <= Cnt(V, x1, x2)
        BY <3>2, <3>3, CntFacts
      <4>2. 0 \in Nat /\ p \in Nat /\ ps \in Nat
        BY <3>4
      <4> QED BY <4>1, <4>2
    <3>9. /\ Own(U, n, p, rem, add) => Own(V, n, p, gone, more)
          /\ Near(U, S, sq, ps, n, p, rem, add) => Near(V, S, sq, ps, n, p, gone, more)
      BY <2>1, <3>4, <3>5, <3>7, <3>8 DEF Near, Own
    <3> QED BY <3>1, <3>2, <3>3, <3>4, <3>5, <3>6, <3>9
  <2> QED BY <1>1, <1>6, <1>8, <2>2 DEF NearTo
<1>10. Knows(s, t, G)
  <2>1. Own(Filled(G), Sq(t), t.pos, t.removed, t.added)
    BY <1>1, <1>7, <1>8, <1>9 DEF Knows
  <2>2. t.stay \subseteq Match[s] /\ \A y \in t.stay : \E j \in Staying(G, t) : G[j] = y
    BY <1>1, <1>6 DEF Knows
  <2>3. ~(t.counted /\ t.removed) => \A j \in Staying(G, t) : j <= t.pos => G[j] \in t.got
    BY <1>1, <1>6 DEF Knows
  <2>4. ~(t.counted /\ t.added) => /\ t.stay \cap t.twice = {}
                                   /\ \A j \in Staying(G, t) : G[j] \in t.got => j <= t.pos
    BY <1>1, <1>6 DEF Knows
  <2>5. t.state = "last" /\ ~(t.counted /\ t.removed) => t.stay \subseteq t.got
    BY <1>1 DEF Knows
  <2>6. t.seq < 1 => t.seq = -1 /\ t.pos = 0 /\ t.got = {} /\ t.twice = {}
    BY <1>1 DEF Knows
  <2> QED BY <2>1, <2>2, <2>3, <2>4, <2>5, <2>6 DEF Knows
<1>11. ASSUME NEW f \in SearchHandle, Noted(r, F, f), f.dirpos # 0
       PROVE  /\ NearTo(t, G, f.last, f.dirpos)
              /\ f.found # 0 /\ ~t.removed =>
                   \E e \in Filled(G) : /\ G[e] = f.found /\ f.dirpos < e
                                        /\ \A j \in Staying(G, t) : j < e => j <= f.dirpos
  <2>1. f.last \in Nat /\ f.dirpos \in Nat
    BY DEF SearchHandle
  <2>2. NearTo(t, G, f.last, f.dirpos)
    BY <1>9, <1>11, <2>1 DEF Noted
  <2>3. ASSUME f.found # 0, ~t.removed
        PROVE  \E e \in Filled(G) : /\ G[e] = f.found /\ f.dirpos < e
                                    /\ \A j \in Staying(G, t) : j < e => j <= f.dirpos
    <3>1. PICK e \in Filled(F) : /\ F[e] = f.found /\ f.dirpos < e
                                 /\ \A j \in Staying(F, r) : j < e => j <= f.dirpos
      BY <1>1, <1>11, <2>3 DEF Noted
    <3> QED BY <1>4, <1>6, <3>1
  <2> QED BY <2>2, <2>3
<1>12. \A f \in SearchHandle : Noted(r, F, f) => Noted(t, G, f)
  BY <1>1, <1>11 DEF Noted
<1> QED BY <1>9, <1>10, <1>12

(* A directory changes: what is kept for those that search it is kept.       *)
LEMMA ChangedOk ==
  ASSUME SearchInv, NEW d \in Dir, NEW D, \A e \in Dir : e # d => D[e] = disk[e],
         NEW x \in Search, NEW r \in Searchs, r = search[x], NEW t \in Searchs,
         ~Concerned(x, d) => t = r,
         Concerned(x, d) =>
           /\ t.state = r.state /\ t.kind = r.kind /\ t.dir = r.dir /\ t.h = r.h /\ t.seq = r.seq
           /\ t.evicted = r.evicted
           /\ Knows(x, r, disk[d]) =>
                /\ Knows(x, t, D[d])
                /\ \A n \in Nat, p \in Nat : NearTo(r, disk[d], n, p) => NearTo(t, D[d], n, p)
                /\ \A f \in SearchHandle : Noted(r, disk[d], f) => Noted(t, D[d], f)
  PROVE  SearchOk(x, t, D, dsh, dh)
<1>1. SearchOk(x, r, disk, dsh, dh) /\ TableOk(dsh, count) /\ HandlesOk(dh)
  BY DEF SearchInv
<1>2. CASE ~Concerned(x, d)
  <2>1. t = r /\ (r.state \in {"more", "last"} => r.dir # d)
    BY <1>2 DEF Concerned
  <2>2. r.state \in {"more", "last"} => D[r.dir] = disk[r.dir]
    BY <1>1, <2>1 DEF SearchOk
  <2> QED BY <1>1, <2>1, <2>2 DEF SearchOk, Runs
<1>3. CASE Concerned(x, d)
  <2>1. r.state \in {"more", "last"} /\ r.dir = d
    BY <1>3 DEF Concerned
  <2>2. ASSUME Runs(t)
        PROVE  /\ Knows(x, t, D[d])
               /\ t.kind = "ns" /\ Held(t, dsh) => Noted(t, D[d], dsh[t.h])
               /\ t.kind = "dir" => Shares(t, D[d], dh)
    <3>1. Runs(r)
      BY <1>3, <2>2 DEF Runs
    <3>2. /\ Knows(x, r, disk[d])
          /\ r.kind = "ns" /\ Held(r, dsh) => Noted(r, disk[d], dsh[r.h])
          /\ r.kind = "dir" => Shares(r, disk[d], dh)
      BY <1>1, <2>1, <3>1 DEF SearchOk
    <3>3. ASSUME t.kind = "ns", Held(t, dsh) PROVE Noted(t, D[d], dsh[t.h])
      <4>1. Held(r, dsh) /\ dsh[r.h] \in SearchHandle
        BY <1>1, <1>3, <3>3 DEF Held, TableOk
      <4> QED BY <1>3, <3>2, <3>3, <4>1
    <3>4. ASSUME t.kind = "dir" PROVE Shares(t, D[d], dh)
      <4>1. Shares(r, disk[d], dh)
        BY <1>3, <3>2, <3>4
      <4>2. dh[r.h].seq \in Nat /\ dh[r.h].dirpos \in Nat
        BY <1>1, <4>1 DEF Shares, HandlesOk, DirHandle
      <4> QED BY <1>3, <3>2, <4>1, <4>2 DEF Shares
    <3> QED BY <1>3, <3>2, <3>3, <3>4
  <2> QED BY <1>1, <1>3, <2>1, <2>2 DEF SearchOk, Runs
<1> QED BY <1>2, <1>3

(* An entry is removed from a directory.                                     *)
LEMMA StepRemove ==
  ASSUME SearchInv, NEW d \in Dir, NEW i \in Slots(d), RemoveFile(d, i)
  PROVE  SearchInv'
<1>1. /\ DiskOk(disk) /\ TableOk(dsh, count) /\ HandlesOk(dh) /\ search \in [Search -> Searchs]
  BY DEF SearchInv
<1>2. PICK F, y : F = disk[d] /\ y = F[i]
  OBVIOUS
<1>3. /\ F[i] # 0 /\ disk' = [disk EXCEPT ![d] = With(F, i, 0)]
      /\ dsh' = dsh /\ count' = count /\ dh' = dh
      /\ search' = [x \in Search |-> IF Concerned(x, d) THEN Less(search[x], y) ELSE search[x]]
  BY <1>2 DEF RemoveFile, Less, With
<1>4. PICK G : G = With(F, i, 0)
  OBVIOUS
<1>5. DOMAIN disk = Dir /\ F \in Row(d) /\ Plain(F)
  BY <1>1, <1>2 DEF DiskOk
<1>6. PICK D : D = [disk EXCEPT ![d] = G]
  OBVIOUS
<1>7. disk' = D /\ DOMAIN D = Dir /\ D[d] = G /\ \A e \in Dir : e # d => D[e] = disk[e]
  BY <1>3, <1>4, <1>5, <1>6
<1>8. G \in Row(d) /\ Plain(G)
  <2>1. DOMAIN F = Slots(d) /\ DOMAIN G = Slots(d) /\ G[i] = 0
        /\ \A j \in Slots(d) : j # i => G[j] = F[j]
    BY <1>4, <1>5 DEF Row, With
  <2>2. G \in Row(d)
    BY <1>4, <1>5 DEF Row, With
  <2> QED BY <1>5, <2>1, <2>2 DEF Plain
<1>9. DiskOk(D)
  BY <1>1, <1>7, <1>8 DEF DiskOk
<1>10. ASSUME NEW x \in Search
       PROVE  search'[x] \in Searchs /\ SearchOk(x, search'[x], D, dsh, dh)
  <2>1. PICK r \in Searchs : r = search[x]
    BY <1>1
  <2>2. CASE ~Concerned(x, d)
    <3>1. search'[x] = r
      BY <1>3, <2>1, <2>2
    <3>2. SearchOk(x, r, D, dsh, dh)
      BY <1>7, <2>1, <2>2, ChangedOk
    <3> QED BY <3>1, <3>2
  <2>3. CASE Concerned(x, d)
    <3>1. PICK t : t = Less(r, y)
      OBVIOUS
    <3>2. /\ t \in Searchs /\ t.state = r.state /\ t.kind = r.kind /\ t.dir = r.dir /\ t.h = r.h
          /\ t.seq = r.seq
      BY <3>1, LessIs
    <3>3. t.evicted = r.evicted
      BY <3>1 DEF Less, Searchs
    <3>4. Knows(x, r, F) =>
            /\ Knows(x, t, G)
            /\ \A n \in Nat, p \in Nat : NearTo(r, F, n, p) => NearTo(t, G, n, p)
            /\ \A f \in SearchHandle : Noted(r, F, f) => Noted(t, G, f)
      <4>1. F[i] # 0 /\ y = F[i] /\ F \in Row(d)
        BY <1>2, <1>3, <1>5
      <4> QED BY <1>4, <3>1, <4>1, LessOk
    <3>5. SearchOk(x, t, D, dsh, dh)
      BY <1>2, <1>7, <2>1, <2>3, <3>2, <3>3, <3>4, ChangedOk
    <3>6. search'[x] = t
      BY <1>3, <2>1, <2>3, <3>1
    <3> QED BY <3>2, <3>5, <3>6
  <2> QED BY <2>2, <2>3
<1>11. search' \in [Search -> Searchs]
  BY <1>3, <1>10
<1> QED BY <1>1, <1>3, <1>7, <1>9, <1>10, <1>11 DEF SearchInv

(* One is added, whose inode is in none.                                     *)
LEMMA StepCreate ==
  ASSUME SearchInv, NEW d \in Dir, NEW i \in Slots(d), NEW y \in Ino, CreateFile(d, i, y)
  PROVE  SearchInv'
<1>1. /\ DiskOk(disk) /\ TableOk(dsh, count) /\ HandlesOk(dh) /\ search \in [Search -> Searchs]
  BY DEF SearchInv
<1>2. PICK F : F = disk[d]
  OBVIOUS
<1>3. /\ F[i] = 0 /\ disk' = [disk EXCEPT ![d] = With(F, i, y)]
      /\ SlotOf(d, y) = End(d)
      /\ dsh' = dsh /\ count' = count /\ dh' = dh
      /\ search' = [x \in Search |-> IF Concerned(x, d) THEN More(search[x]) ELSE search[x]]
  BY <1>2 DEF CreateFile, More, With
<1>4. PICK G : G = With(F, i, y)
  OBVIOUS
<1>5. DOMAIN disk = Dir /\ F \in Row(d) /\ Plain(F)
  BY <1>1, <1>2 DEF DiskOk
<1>6. PICK D : D = [disk EXCEPT ![d] = G]
  OBVIOUS
<1>7. disk' = D /\ DOMAIN D = Dir /\ D[d] = G /\ \A e \in Dir : e # d => D[e] = disk[e]
  BY <1>3, <1>4, <1>5, <1>6
<1>8. \A j \in Slots(d) : F[j] # y
  <2>1. \A j \in Used(d) : F[j] # y
    BY <1>2, <1>3, <1>5, SlotOfIs
  <2>2. y # 0
    BY SearchConstants
  <2> QED BY <1>2, <2>1, <2>2 DEF Used
<1>9. G \in Row(d) /\ Plain(G)
  <2>1. DOMAIN F = Slots(d) /\ DOMAIN G = Slots(d) /\ G[i] = y
        /\ \A j \in Slots(d) : j # i => G[j] = F[j]
    BY <1>4, <1>5 DEF Row, With
  <2>2. G \in Row(d)
    BY <1>4, <1>5 DEF Row, With
  <2> QED BY <1>5, <1>8, <2>1, <2>2 DEF Plain
<1>10. DiskOk(D)
  BY <1>1, <1>7, <1>9 DEF DiskOk
<1>11. ASSUME NEW x \in Search
       PROVE  search'[x] \in Searchs /\ SearchOk(x, search'[x], D, dsh, dh)
  <2>1. PICK r \in Searchs : r = search[x]
    BY <1>1
  <2>2. CASE ~Concerned(x, d)
    <3>1. search'[x] = r
      BY <1>3, <2>1, <2>2
    <3>2. SearchOk(x, r, D, dsh, dh)
      BY <1>7, <2>1, <2>2, ChangedOk
    <3> QED BY <3>1, <3>2
  <2>3. CASE Concerned(x, d)
    <3>1. PICK t : t = More(r)
      OBVIOUS
    <3>2. /\ t \in Searchs /\ t.state = r.state /\ t.kind = r.kind /\ t.dir = r.dir /\ t.h = r.h
          /\ t.seq = r.seq
      BY <3>1, MoreIs
    <3>3. t.evicted = r.evicted
      BY <3>1 DEF More, Searchs
    <3>4. Knows(x, r, F) =>
            /\ Knows(x, t, G)
            /\ \A n \in Nat, p \in Nat : NearTo(r, F, n, p) => NearTo(t, G, n, p)
            /\ \A f \in SearchHandle : Noted(r, F, f) => Noted(t, G, f)
      <4>1. F[i] = 0 /\ F \in Row(d)
        BY <1>2, <1>3, <1>5
      <4> QED BY <1>4, <1>8, <3>1, <4>1, MoreOk
    <3>5. SearchOk(x, t, D, dsh, dh)
      BY <1>2, <1>7, <2>1, <2>3, <3>2, <3>3, <3>4, ChangedOk
    <3>6. search'[x] = t
      BY <1>3, <2>1, <2>3, <3>1
    <3> QED BY <3>2, <3>5, <3>6
  <2> QED BY <2>2, <2>3
<1>12. search' \in [Search -> Searchs]
  BY <1>3, <1>11
<1> QED BY <1>1, <1>3, <1>7, <1>10, <1>11, <1>12 DEF SearchInv

(* The directory handles without those of d that are open.                   *)
Closed(d) == [k \in DOMAIN dh |-> IF dh[k].dir = d THEN [dh[k] EXCEPT !.used = FALSE] ELSE dh[k]]

(* Those of other directories stay.                                          *)
LEMMA ClosedIs ==
  ASSUME HandlesOk(dh), NEW d \in Dir, NEW H, H = Trim(Closed(d))
  PROVE  /\ HandlesOk(H)
         /\ \A k \in DOMAIN dh : dh[k].used /\ dh[k].dir # d => k \in DOMAIN H /\ H[k] = dh[k]
<1>1. PICK g : g = Closed(d)
  OBVIOUS
<1>2. DOMAIN dh \in SUBSET Nat /\ IsFiniteSet(DOMAIN dh) /\ \A k \in DOMAIN dh : dh[k] \in DirHandle
  BY DEF HandlesOk, SlotSets
<1>3. DOMAIN g = DOMAIN dh
  BY <1>1 DEF Closed
<1>4. \A k \in DOMAIN dh : g[k] \in DirHandle /\ (dh[k].dir # d => g[k] = dh[k])
  BY <1>1, <1>2 DEF Closed, DirHandle
<1>5. H = [k \in {j \in DOMAIN dh : \E i \in DOMAIN dh : i >= j /\ g[i].used} |-> g[k]]
  BY <1>1, <1>3 DEF Trim
<1>6. /\ DOMAIN H = {j \in DOMAIN dh : \E i \in DOMAIN dh : i >= j /\ g[i].used}
      /\ \A k \in DOMAIN H : H[k] = g[k]
  BY <1>5
<1>7. DOMAIN H \in SUBSET DOMAIN dh
  BY <1>6
<1>8. IsFiniteSet(DOMAIN H)
  BY <1>2, <1>7, FS_Subset
<1>9. HandlesOk(H)
  BY <1>2, <1>4, <1>6, <1>7, <1>8 DEF HandlesOk, SlotSets
<1>10. ASSUME NEW k \in DOMAIN dh, dh[k].used, dh[k].dir # d
       PROVE  k \in DOMAIN H /\ H[k] = dh[k]
  <2>1. g[k] = dh[k] /\ k \in Nat
    BY <1>2, <1>4, <1>10
  <2>2. k >= k /\ g[k].used
    BY <1>10, <2>1
  <2> QED BY <1>6, <2>1, <2>2
<1> QED BY <1>9, <1>10

(* A directory is removed, and made again.                                   *)
LEMMA StepRmdir ==
  ASSUME SearchInv, NEW d \in Dir, NEW ns \in BOOLEAN, rmdir(d, ns)
  PROVE  SearchInv'
<1>1. /\ DiskOk(disk) /\ TableOk(dsh, count) /\ HandlesOk(dh) /\ search \in [Search -> Searchs]
  BY DEF SearchInv
<1>2. PICK gone : gone = IF ns THEN {k \in DOMAIN dsh : dsh[k].dir = d} ELSE {}
  OBVIOUS
<1>3. /\ dh' = Trim(Closed(d)) \/ dh' = dh
      /\ dsh' = [k \in DOMAIN dsh \ gone |-> dsh[k]]
      /\ count' = CutTo(gone)
      /\ disk' = disk
      /\ search' = [x \in Search |-> IF search[x].dir = d THEN Off ELSE search[x]]
  BY <1>2 DEF rmdir, Closed
<1>4. gone \in SUBSET DOMAIN dsh
  BY <1>2
<1>5. PICK H, T, c : H = dh' /\ T = dsh' /\ c = count'
  OBVIOUS
<1>6. /\ HandlesOk(H)
      /\ \A k \in DOMAIN dh : dh[k].used /\ dh[k].dir # d => k \in DOMAIN H /\ H[k] = dh[k]
  BY <1>1, <1>3, <1>5, ClosedIs
<1>7. DOMAIN T \in SUBSET DOMAIN dsh /\ \A k \in DOMAIN T : T[k] = dsh[k]
  BY <1>3, <1>5
<1>8. TableOk(T, c)
  <2>1. c \in 0..count /\ \A k \in DOMAIN dsh \ gone : k \in Nat /\ k < c
    BY <1>1, <1>3, <1>4, <1>5, CutToIs
  <2>2. count \in 0..MaxSearchH /\ \A k \in DOMAIN dsh : dsh[k] \in SearchHandle
    BY <1>1 DEF TableOk
  <2>3. MaxSearchH \in Nat /\ count \in Nat
    BY <2>2, SearchConstants
  <2>4. DOMAIN T = DOMAIN dsh \ gone
    BY <1>3, <1>5
  <2>5. c \in 0..MaxSearchH
    BY <2>1, <2>2, <2>3
  <2>6. DOMAIN T \subseteq 0..(c - 1)
    BY <2>1, <2>4, <2>5
  <2> QED BY <1>7, <2>2, <2>5, <2>6 DEF TableOk
<1>9. ASSUME NEW x \in Search
      PROVE  search'[x] \in Searchs /\ SearchOk(x, search'[x], disk, T, H)
  <2>1. CASE search[x].dir = d
    <3>1. search'[x] = Off
      BY <1>3, <2>1
    <3> QED BY <3>1, OffOk
  <2>2. CASE search[x].dir # d
    <3>1. PICK r \in Searchs : r = search[x]
      BY <1>1
    <3>2. search'[x] = r /\ r.dir # d /\ SearchOk(x, r, disk, dsh, dh)
      BY <1>3, <2>2, <3>1 DEF SearchInv
    <3>3. Runs(r) /\ r.kind = "ns" /\ Held(r, T) => Noted(r, disk[r.dir], T[r.h])
      BY <1>7, <3>2 DEF Held, SearchOk
    <3>4. SearchOk(x, r, disk, T, dh)
      BY <3>2, <3>3, NsKept
    <3>5. Runs(r) /\ r.kind = "dir" => Shares(r, disk[r.dir], H)
      BY <1>6, <3>2 DEF Shares, SearchOk
    <3>6. SearchOk(x, r, disk, T, H)
      BY <3>4, <3>5, DirKept
    <3> QED BY <3>2, <3>6
  <2> QED BY <2>1, <2>2
<1>10. search' \in [Search -> Searchs]
  BY <1>3, <1>9
<1>11. DiskOk(disk')
  BY <1>1, <1>3
<1>12. \A x \in Search : SearchOk(x, search'[x], disk', dsh', dh')
  BY <1>3, <1>5, <1>9
<1> QED BY <1>5, <1>6, <1>8, <1>10, <1>11, <1>12 DEF SearchInv

(* At a login or logout all are given up.                                    *)
LEMMA StepInitConnect == ASSUME SearchInv, nw_init_connect PROVE SearchInv'
<1>1. PICK N : N = [k \in {} |-> Unused]
  OBVIOUS
<1>2. /\ dsh' = N /\ count' = 0 /\ dh' = N /\ disk' = disk
      /\ search' = [s \in Search |-> Off]
  BY <1>1 DEF nw_init_connect
<1>3. DOMAIN N = {}
  BY <1>1
<1>4. TableOk(N, 0)
  <2>1. MaxSearchH \in Nat
    BY SearchConstants
  <2> QED BY <1>3, <2>1 DEF TableOk
<1>5. HandlesOk(N)
  BY <1>3, FS_EmptySet DEF HandlesOk, SlotSets
<1>6. \A s \in Search : search'[s] = Off
  BY <1>2
<1>7. search' \in [Search -> Searchs]
  BY <1>2, OffOk
<1>8. \A s \in Search : SearchOk(s, search'[s], disk', dsh', dh')
  BY <1>6, OffOk
<1>9. DiskOk(disk')
  BY <1>2 DEF SearchInv
<1> QED BY <1>2, <1>4, <1>5, <1>7, <1>8, <1>9 DEF SearchInv

(* Every step keeps what searches know.                                      *)
LEMMA SearchInvNext == SearchInv /\ [SearchesNext]_searchVars => SearchInv'
<1> SUFFICES ASSUME SearchInv, [SearchesNext]_searchVars PROVE SearchInv'
  OBVIOUS
<1>1. CASE UNCHANGED searchVars
  BY <1>1 DEF SearchInv, searchVars
<1>2. ASSUME NEW s \in Search, nw_search_file_dir(s) PROVE SearchInv'
  BY <1>2, StepNs
<1>3. ASSUME NEW s \in Search, nw_dir_search(s) PROVE SearchInv'
  BY <1>3, StepDirSearch
<1>4. ASSUME NEW s \in Search, nw_search(s) PROVE SearchInv'
  BY <1>4, StepFile
<1>5. ASSUME NEW s \in Search, Forget(s) PROVE SearchInv'
  BY <1>5, StepForget
<1>6. ASSUME NEW s \in Search, NEW d \in Dir, nw_open_dir_handle(s, d) PROVE SearchInv'
  BY <1>6, StepOpenDir
<1>7. ASSUME NEW s \in Search, NEW d \in Dir, NEW kind \in {"ns", "file"},
             nw_init_search(s, kind, d)
      PROVE  SearchInv'
  BY <1>7, StepStart
<1>8. ASSUME NEW d \in Dir, nw_scan_dir_info(d) PROVE SearchInv'
  BY <1>8, StepScan
<1>9. ASSUME NEW d \in Dir, NEW i \in Slots(d), RemoveFile(d, i) PROVE SearchInv'
  BY <1>9, StepRemove
<1>10. ASSUME NEW d \in Dir, NEW i \in Slots(d), NEW ino \in Ino, CreateFile(d, i, ino)
       PROVE  SearchInv'
  BY <1>10, StepCreate
<1>11. ASSUME NEW d \in Dir, NEW ns \in BOOLEAN, rmdir(d, ns) PROVE SearchInv'
  BY <1>11, StepRmdir
<1>12. CASE nw_init_connect
  BY <1>12, StepInitConnect
<1> QED BY <1>1, <1>2, <1>3, <1>4, <1>5, <1>6, <1>7, <1>8, <1>9, <1>10, <1>11, <1>12 DEF SearchesNext

(* A search that says there is no more has told the client of every entry    *)
(* that matches and was there all the time, as NothingSkipped says, for any   *)
(* directories, searches and tables of handles (namspace.c:1576,             *)
(* connect.c:737).                                                           *)
THEOREM SearchesNothingSkipped == SearchesSpec => []NothingSkipped
<1>1. SearchInv => NothingSkipped
  BY SearchInvSays
<1> QED BY <1>1, SearchInvInit, SearchInvNext, PTL DEF SearchesSpec

(* No entry that was there all the time is told twice, as NothingTwice says  *)
(* (namspace.c:1704).                                                        *)
THEOREM SearchesNothingTwice == SearchesSpec => []NothingTwice
<1>1. SearchInv => NothingTwice
  BY SearchInvSays
<1> QED BY <1>1, SearchInvInit, SearchInvNext, PTL DEF SearchesSpec

=============================================================================
