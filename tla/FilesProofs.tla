----------------------------- MODULE FilesProofs -----------------------------
(***************************************************************************)
(* Proofs about Files, for any processes, files, handles, ranges and        *)
(* logical records.  Three inductive invariants, one for each part of the   *)
(* state: OpenInv of the handles and the opens under way, LockInv of the    *)
(* record locks (it needs OpenInv: a handle that is being opened is no open *)
(* handle yet), LogInv of the logical records.                              *)
(***************************************************************************)
EXTENDS Files, TLAPS, FiniteSetTheorems, SequenceTheorems

-----------------------------------------------------------------------------
(* Types                                                                    *)

HandleRec == [fd : BOOLEAN, keep : BOOLEAN, task : Task \cup {0},
              file : File \cup {NoFile}, access : SUBSET Access]
Opening == [st : {"tested", "opened"}, h : Handle, file : File, access : SUBSET Access,
            creat : BOOLEAN, keep : BOOLEAN, task : Task, raced : BOOLEAN, clipped : BOOLEAN]
Refusal == [st : {"refused"}, raced : BOOLEAN, clipped : BOOLEAN]
Writing == [st : {"writing"}, file : File, bytes : SUBSET Byte]
Pending == {Idle} \cup Opening \cup Refusal \cup Writing
Area == [locks : Nat, exclusive : BOOLEAN]

HandleTypes ==
  /\ load \in Load
  /\ fh \in [Proc -> [Handle -> HandleRec]]
  /\ count \in [Proc -> 0 .. MaxFileHandles]
  /\ last \in [Proc -> 0 .. MaxFileHandles]
  /\ pend \in [Proc -> Pending]

LockTypes ==
  /\ locks \in [Proc -> [File -> Seq(Entry)]]
  /\ klock \in [Proc -> [File -> [Byte -> Modes]]]
  /\ spoiled \in [Proc -> [File -> BOOLEAN]]
  /\ dirty \in [Proc -> BOOLEAN]

LogTypes ==
  /\ areas \in [Proc -> [Rec -> Area]]
  /\ klog \in [Proc -> [Rec -> Modes]]

(* Type correctness: every variable of Files has its type.                  *)
TypeOK == HandleTypes /\ LockTypes /\ LogTypes

-----------------------------------------------------------------------------
(* What the invariants add                                                  *)

(* An open handle is below the count and has a file.                        *)
CountCovers ==
  \A p \in Proc, h \in Handle :
    fh[p][h].fd => ~(h > count[p]) /\ fh[p][h].file \in File

(* An open under way: its handle is not open yet, it truncates only a file  *)
(* it creates, and what was tested holds unless another open came between.  *)
IsOpening(p) == pend[p].st \in {"tested", "opened"}
Sound(p, r) ==
  /\ ~fh[p][r.h].fd
  /\ r.clipped => r.creat
  /\ r.creat /\ ~r.raced => Compatible(r.file, r.access)
OpensSound == \A p \in Proc : IsOpening(p) => pend[p].h <= count[p] /\ Sound(p, pend[p])

OpenInv == HandleTypes /\ CountCovers /\ OpensSound /\ RefusedOpenHarmless

(* The kernel's record locks exclude each other.                            *)
KernelExclusive ==
  \A f \in File, p, q \in Proc : p # q =>
    \A b \in Byte : klock[p][f][b] = "wr" => klock[q][f][b] = "none"

Mode(exclusive) == IF exclusive THEN "wr" ELSE "rd"

(* The locks a process lists and has not spoiled do not overlap, and the    *)
(* kernel has every byte of them locked for it.                             *)
Disjoint(L) == \A i, j \in DOMAIN L : i # j => Covers(L[i]) \cap Covers(L[j]) = {}
Holds(L, k) == \A i \in DOMAIN L : \A b \in Covers(L[i]) : k[b] = Mode(L[i].exclusive)
Held == \A p \in Proc, f \in File :
          ~spoiled[p][f] => Disjoint(locks[p][f]) /\ Holds(locks[p][f], klock[p][f])

LockInv == LockTypes /\ EntriesLive /\ KernelExclusive /\ Held

(* The kernel's locks on the lock files exclude each other, and a process   *)
(* that lists a logical record has it locked.                               *)
LogInv ==
  /\ LogTypes
  /\ \A r \in Rec, p, q \in Proc : p # q /\ klog[p][r] = "wr" => klog[q][r] = "none"
  /\ \A p \in Proc, r \in Rec : areas[p][r] # NoArea => klog[p][r] = Mode(areas[p][r].exclusive)

-----------------------------------------------------------------------------
(* The operators                                                            *)

(* Every set of natural numbers has a least one.                            *)
LEMMA MinIs ==
  ASSUME NEW S \in SUBSET Nat, S # {}
  PROVE  Min(S) \in S /\ \A u \in S : Min(S) <= u
<1>1. PICK t \in S : \A u \in S : <<u, t>> \notin OpToRel(<, Nat)
  BY NatLessThanWellFounded, WFMin
<1>2. \A u \in S : ~(u < t)
  BY <1>1 DEF OpToRel
<1>3. \A u \in S : t <= u
  BY <1>2
<1> QED BY <1>3 DEF Min

(* Of two numbers, the one that is the greatest.                            *)
LEMMA MaxOfTwo ==
  ASSUME NEW a \in Nat, NEW b \in Nat
  PROVE  Max({a, b}) = IF a >= b THEN a ELSE b
BY DEF Max

(* Of two numbers, the one that is the least.                               *)
LEMMA MinOfTwo ==
  ASSUME NEW a \in Nat, NEW b \in Nat
  PROVE  Min({a, b}) = IF a <= b THEN a ELSE b
BY DEF Min

(* The entries that share_unlock_all leaves are entries of the list, of     *)
(* other descriptors.                                                       *)
LEMMA OthersIs ==
  ASSUME NEW L \in Seq(Entry), NEW fds
  PROVE  /\ Others(L, fds) \in Seq(Entry)
         /\ \A n \in DOMAIN Others(L, fds) :
              \E i \in DOMAIN L : Others(L, fds)[n] = L[i] /\ L[i].fd \notin fds
<1> DEFINE kept == {i \in DOMAIN L : L[i].fd \notin fds}
           upto(n) == {i \in kept : Cardinality(kept \cap (1 .. i)) >= n}
<1>1. kept \in SUBSET (1 .. Len(L)) /\ IsFiniteSet(kept) /\ Cardinality(kept) \in Nat
  <2>1. Len(L) \in Nat /\ DOMAIN L = 1 .. Len(L)
    OBVIOUS
  <2>2. IsFiniteSet(1 .. Len(L))
    BY <2>1, FS_Interval
  <2>3. kept \in SUBSET (1 .. Len(L))
    BY <2>1
  <2>4. IsFiniteSet(kept)
    BY <2>2, <2>3, FS_Subset
  <2> QED BY <2>3, <2>4, FS_CardinalityType
<1>2. ASSUME NEW n \in 1 .. Cardinality(kept)
      PROVE  Min(upto(n)) \in kept
  <2>1. kept # {}
    <3>1. CASE kept = {}
      <4>1. Cardinality(kept) = 0
        BY <3>1, FS_EmptySet
      <4> QED BY <4>1
    <3> QED BY <3>1
  <2> DEFINE down == {Len(L) - i : i \in kept}
  <2>2. down \in SUBSET Nat /\ down # {}
    <3>1. \A i \in kept : Len(L) - i \in Nat
      BY <1>1
    <3> QED BY <3>1, <2>1
  <2>3. PICK m \in kept : Min(down) = Len(L) - m
    BY <2>2, MinIs
  <2>4. \A i \in kept : i <= m
    <3>1. \A i \in kept : Len(L) - m <= Len(L) - i
      <4>1. \A u \in down : Min(down) <= u
        BY <2>2, MinIs
      <4> QED BY <4>1, <2>3
    <3>2. \A i \in kept : i \in Nat /\ m \in Nat /\ Len(L) \in Nat
      BY <1>1
    <3> QED BY <3>1, <3>2
  <2>5. kept \cap (1 .. m) = kept
    <3>1. \A i \in kept : i \in 1 .. m
      <4>1. \A i \in kept : i \in 1 .. Len(L) /\ m \in 1 .. Len(L)
        BY <1>1
      <4> QED BY <4>1, <2>4
    <3> QED BY <3>1
  <2>6. m \in upto(n)
    <3>1. Cardinality(kept) >= n
      BY <1>1
    <3> QED BY <3>1, <2>5
  <2>7. upto(n) \in SUBSET Nat
    BY <1>1
  <2>8. Min(upto(n)) \in upto(n)
    <3> HIDE DEF upto
    <3> QED BY <2>6, <2>7, MinIs
  <2> QED BY <2>8
<1>3. \A n \in 1 .. Cardinality(kept) : Min(upto(n)) \in DOMAIN L /\ L[Min(upto(n))].fd \notin fds
  BY <1>2
<1>4. Others(L, fds) = [n \in 1 .. Cardinality(kept) |-> L[Min(upto(n))]]
  BY DEF Others
<1>5. \A i \in DOMAIN L : L[i] \in Entry
  OBVIOUS
<1> HIDE DEF upto, kept
<1>6. Others(L, fds) \in Seq(Entry)
  <2>1. \A n \in 1 .. Cardinality(kept) : L[Min(upto(n))] \in Entry
    BY <1>3, <1>5
  <2>2. Others(L, fds) \in [1 .. Cardinality(kept) -> Entry]
    BY <2>1, <1>4
  <2> QED BY <2>2, <1>1
<1>7. DOMAIN Others(L, fds) = 1 .. Cardinality(kept)
  BY <1>4
<1> QED BY <1>3, <1>4, <1>6, <1>7

(* A lock inserted into a list: the entries before it, it, those behind it. *)
LEMMA InsertIs ==
  ASSUME NEW L \in Seq(Entry), NEW i \in 1 .. Len(L) + 1, NEW e \in Entry
  PROVE  /\ InsertAt(L, i, e) \in Seq(Entry)
         /\ DOMAIN InsertAt(L, i, e) = 1 .. Len(L) + 1
         /\ \A j \in 1 .. Len(L) + 1 :
              /\ j < i => InsertAt(L, i, e)[j] = L[j]
              /\ j = i => InsertAt(L, i, e)[j] = e
              /\ j > i => InsertAt(L, i, e)[j] = L[j - 1]
<1> DEFINE front == SubSeq(L, 1, i - 1)
           back == SubSeq(L, i, Len(L))
<1>1. front \in Seq(Entry) /\ Len(front) = i - 1 /\ \A j \in 1 .. i - 1 : front[j] = L[j]
  OBVIOUS
<1>2. back \in Seq(Entry) /\ Len(back) = Len(L) - i + 1
      /\ \A j \in 1 .. Len(L) - i + 1 : back[j] = L[i + j - 1]
  OBVIOUS
<1>3. InsertAt(L, i, e) = front \o <<e>> \o back
  BY DEF InsertAt
<1> DEFINE mid == front \o <<e>>
<1> HIDE DEF front, back
<1>4. mid \in Seq(Entry) /\ Len(mid) = i /\ mid[i] = e /\ \A j \in 1 .. i - 1 : mid[j] = L[j]
  BY <1>1
<1> HIDE DEF mid
<1>5. Len(mid \o back) = Len(L) + 1 /\ mid \o back \in Seq(Entry)
  <2>1. mid \o back \in Seq(Entry) /\ Len(mid \o back) = Len(mid) + Len(back)
    BY <1>2, <1>4, ConcatProperties
  <2>2. Len(L) \in Nat /\ i \in Int
    OBVIOUS
  <2> QED BY <2>1, <2>2, <1>2, <1>4
<1>6. ASSUME NEW j \in 1 .. Len(L) + 1
      PROVE  (mid \o back)[j] = IF j < i THEN L[j] ELSE IF j = i THEN e ELSE L[j - 1]
  <2>1. CASE j <= i
    <3>1. (mid \o back)[j] = mid[j]
      BY <2>1, <1>2, <1>4
    <3> QED BY <3>1, <2>1, <1>4
  <2>2. CASE j > i
    <3>1. (mid \o back)[j] = back[j - i]
      BY <2>2, <1>2, <1>4
    <3>2. j - i \in 1 .. Len(L) - i + 1 /\ i + (j - i) - 1 = j - 1
      BY <2>2
    <3>3. back[j - i] = L[j - 1]
      BY <3>2, <1>2
    <3> QED BY <3>1, <3>3, <2>2
  <2>3. j <= i \/ j > i
    <3>1. Len(L) \in Nat
      OBVIOUS
    <3> QED BY <3>1
  <2> QED BY <2>1, <2>2, <2>3
<1>7. InsertAt(L, i, e) = mid \o back
  BY <1>3 DEF mid
<1> DEFINE M == InsertAt(L, i, e)
<1> HIDE DEF M
<1>8. M \in Seq(Entry) /\ Len(M) = Len(L) + 1
  BY <1>5, <1>7 DEF M
<1>9. DOMAIN M = 1 .. Len(L) + 1
  BY <1>8
<1>10. \A j \in 1 .. Len(L) + 1 : M[j] = IF j < i THEN L[j] ELSE IF j = i THEN e ELSE L[j - 1]
  BY <1>6, <1>7 DEF M
<1>11. \A j \in 1 .. Len(L) + 1 : j \in Int /\ i \in Int
  <2>1. Len(L) \in Nat
    OBVIOUS
  <2> QED BY <2>1
<1>12. \A j \in 1 .. Len(L) + 1 : /\ j < i => M[j] = L[j]
                                  /\ j = i => M[j] = e
                                  /\ j > i => M[j] = L[j - 1]
  BY <1>10, <1>11
<1> QED BY <1>8, <1>9, <1>12 DEF M

(* An entry removed from a list: the entries before and those behind it.    *)
LEMMA RemoveIs ==
  ASSUME NEW L \in Seq(Entry), NEW i \in 1 .. Len(L)
  PROVE  /\ RemoveAt(L, i) \in Seq(Entry)
         /\ DOMAIN RemoveAt(L, i) = 1 .. Len(L) - 1
         /\ \A j \in 1 .. Len(L) - 1 : RemoveAt(L, i)[j] = IF j < i THEN L[j] ELSE L[j + 1]
<1> DEFINE front == SubSeq(L, 1, i - 1)
           back == SubSeq(L, i + 1, Len(L))
<1>1. front \in Seq(Entry) /\ Len(front) = i - 1 /\ \A j \in 1 .. i - 1 : front[j] = L[j]
  OBVIOUS
<1>2. back \in Seq(Entry) /\ Len(back) = Len(L) - i
      /\ \A j \in 1 .. Len(L) - i : back[j] = L[i + j]
  OBVIOUS
<1>3. RemoveAt(L, i) = front \o back
  BY DEF RemoveAt
<1> HIDE DEF front, back
<1>4. Len(front \o back) = Len(L) - 1 /\ front \o back \in Seq(Entry)
  <2>1. front \o back \in Seq(Entry) /\ Len(front \o back) = Len(front) + Len(back)
    BY <1>1, <1>2, ConcatProperties
  <2>2. Len(L) \in Nat /\ i \in Int
    OBVIOUS
  <2> QED BY <2>1, <2>2, <1>1, <1>2
<1>5. ASSUME NEW j \in 1 .. Len(L) - 1
      PROVE  (front \o back)[j] = IF j < i THEN L[j] ELSE L[j + 1]
  <2>1. CASE j < i
    BY <2>1, <1>1, <1>2
  <2>2. CASE j >= i
    <3>1. (front \o back)[j] = back[j - (i - 1)]
      BY <2>2, <1>1, <1>2
    <3>2. j - (i - 1) \in 1 .. Len(L) - i /\ i + (j - (i - 1)) = j + 1
      BY <2>2
    <3> QED BY <3>1, <3>2, <2>2, <1>2
  <2>3. j < i \/ j >= i
    <3>1. Len(L) \in Nat
      OBVIOUS
    <3> QED BY <3>1
  <2> QED BY <2>1, <2>2, <2>3
<1>6. \A j \in 1 .. Len(L) - 1 : RemoveAt(L, i)[j] = IF j < i THEN L[j] ELSE L[j + 1]
  BY <1>3, <1>5
<1>7. RemoveAt(L, i) \in Seq(Entry) /\ Len(RemoveAt(L, i)) = Len(L) - 1
  BY <1>3, <1>4
<1>8. DOMAIN RemoveAt(L, i) = 1 .. Len(L) - 1
  BY <1>7
<1> QED BY <1>6, <1>7, <1>8

(* new_file_handle returns a handle that is not open, or 0.                 *)
LEMMA NewHandleIs ==
  ASSUME HandleTypes, CountCovers, NEW p \in Proc, NewHandle(p) # 0
  PROVE  NewHandle(p) \in Handle /\ ~fh[p][NewHandle(p)].fd
<1> DEFINE after == {h \in last[p] + 1 .. count[p] : Reusable(p, h)}
           all == {h \in 1 .. count[p] : Reusable(p, h)}
<1>1. count[p] \in 0 .. MaxFileHandles /\ last[p] \in 0 .. MaxFileHandles /\ MaxFileHandles \in Nat
  BY FilesConstants DEF HandleTypes
<1>2. after \subseteq Handle /\ all \subseteq Handle /\ Handle \subseteq Nat
  BY <1>1 DEF Handle
<1>3. \A S \in {after, all} : S # {} => Min(S) \in Handle /\ Reusable(p, Min(S))
  <2>1. after # {} => Min(after) \in after
    BY <1>2, MinIs
  <2>2. all # {} => Min(all) \in all
    BY <1>2, MinIs
  <2> QED BY <2>1, <2>2, <1>2
<1>4. CASE after # {}
  BY <1>4, <1>3 DEF NewHandle, Reusable
<1>5. CASE after = {} /\ count[p] < MaxFileHandles
  <2>1. NewHandle(p) = count[p] + 1
    BY <1>1, <1>5 DEF NewHandle
  <2>2. count[p] + 1 \in Handle /\ count[p] + 1 > count[p]
    BY <1>1, <1>5 DEF Handle
  <2> QED BY <2>1, <2>2 DEF CountCovers
<1>6. CASE after = {} /\ count[p] = MaxFileHandles /\ all # {}
  <2>1. NewHandle(p) = Min(all)
    BY <1>1, <1>6 DEF NewHandle
  <2> QED BY <2>1, <1>3, <1>6 DEF Reusable
<1>7. CASE after = {} /\ ~(count[p] < MaxFileHandles) /\ ~(count[p] = MaxFileHandles /\ all # {})
  <2>1. NewHandle(p) = CASE after # {} -> Min(after)
                         [] after = {} /\ count[p] < MaxFileHandles -> count[p] + 1
                         [] after = {} /\ count[p] = MaxFileHandles /\ all # {} -> Min(all)
                         [] OTHER -> 0
    BY DEF NewHandle
  <2> HIDE DEF after, all
  <2>2. NewHandle(p) = 0
    BY <1>7, <2>1
  <2> QED BY <2>2
<1> QED BY <1>4, <1>5, <1>6, <1>7

-----------------------------------------------------------------------------
(* Opens                                                                    *)

(* A step that opens no handle.                                             *)
OnlyCloses == \A p \in Proc, h \in Handle : fh'[p][h].fd => fh'[p][h] = fh[p][h]

(* A step that opens no handle keeps OpenInv, if it lowers the count of a   *)
(* process only with all handles closed and leaves or makes sound opens.    *)
LEMMA ClosesKeep ==
  ASSUME OpenInv, HandleTypes', OnlyCloses,
         \A p \in Proc, h \in Handle : fh'[p][h].fd => count'[p] >= count[p],
         \A p \in Proc : IsOpening(p)' => pend'[p].h <= count'[p] /\ Sound(p, pend'[p]),
         \A p \in Proc : pend'[p].st = "refused" =>
           pend'[p] = pend[p] \/ (pend'[p].clipped => pend'[p].raced)
  PROVE  OpenInv'
<1>1. CountCovers'
  <2>1. ASSUME NEW p \in Proc, NEW h \in Handle, fh'[p][h].fd
        PROVE  ~(h > count'[p]) /\ fh'[p][h].file \in File
    <3>1. fh'[p][h] = fh[p][h] /\ fh[p][h].fd
      BY <2>1 DEF OnlyCloses
    <3>2. ~(h > count[p]) /\ fh[p][h].file \in File
      BY <3>1 DEF OpenInv, CountCovers
    <3>3. h > count'[p] => h > count[p]
      <4>1. count[p] \in Nat /\ count'[p] \in Nat /\ h \in Nat
        BY FilesConstants DEF OpenInv, HandleTypes, Handle
      <4>2. count'[p] >= count[p]
        BY <2>1
      <4> QED BY <4>1, <4>2, <2>1
    <3> QED BY <3>1, <3>2, <3>3
  <2> QED BY <2>1 DEF CountCovers
<1>2. OpensSound'
  <2> SUFFICES ASSUME NEW p \in Proc, IsOpening(p)'
               PROVE  (pend[p].h <= count[p] /\ Sound(p, pend[p]))'
    BY DEF OpensSound
  <2>1. Sound(p, pend'[p])
    OBVIOUS
  <2>2. pend'[p].h \in Handle
    <3>1. pend'[p] \in Pending /\ pend'[p].st \in {"tested", "opened"}
      BY DEF HandleTypes, IsOpening
    <3>2. pend'[p] \in Opening
      BY <3>1 DEF Pending, Idle, Refusal, Writing
    <3> QED BY <3>2 DEF Opening
  <2>3. ~fh'[p][pend'[p].h].fd
    BY <2>1, <2>2 DEF Sound, OnlyCloses
  <2>4. ASSUME Compatible(pend'[p].file, pend'[p].access)
        PROVE  Compatible(pend[p].file, pend[p].access)'
    BY <2>4 DEF Compatible, OnlyCloses
  <2> QED BY <2>1, <2>3, <2>4 DEF Sound
<1>3. RefusedOpenHarmless'
  BY DEF RefusedOpenHarmless, OpenInv
<1> QED BY <1>1, <1>2, <1>3 DEF OpenInv

(* In the first state no handle is open.                                    *)
LEMMA OpenInit == Init => OpenInv
<1> SUFFICES ASSUME Init PROVE OpenInv
  OBVIOUS
<1>1. FreeHandle \in HandleRec /\ ~FreeHandle.fd
  BY DEF FreeHandle, HandleRec
<1>2. Idle \in Pending /\ Idle.st = "idle"
  BY DEF Idle, Pending
<1>3. HandleTypes
  <2>1. 0 \in 0 .. MaxFileHandles
    BY FilesConstants
  <2> QED BY <1>1, <1>2, <2>1 DEF Init, HandleTypes
<1>4. \A p \in Proc, h \in Handle : fh[p][h] = FreeHandle
  BY DEF Init
<1>5. \A p \in Proc : pend[p].st = "idle"
  BY <1>2 DEF Init
<1> QED BY <1>1, <1>3, <1>4, <1>5 DEF OpenInv, CountCovers, OpensSound, IsOpening, RefusedOpenHarmless

(* A step that leaves handles and requests alone keeps OpenInv.             *)
LEMMA OpenStutters ==
  ASSUME OpenInv, UNCHANGED <<load, fh, count, pend>>, last' \in [Proc -> 0 .. MaxFileHandles]
  PROVE  OpenInv'
BY DEF OpenInv, HandleTypes, CountCovers, OpensSound, IsOpening, Sound, Compatible, RefusedOpenHarmless

(* file_creat_open: the handle it takes is not open, and the file is tested *)
(* if it is created.                                                        *)
LEMMA OpenTestKeeps ==
  ASSUME OpenInv, load' = load, NEW p \in Proc, NEW f \in File, NEW o \in Opens[load], NEW t \in Task,
         OpenTest(p, f, o.access, o.creat, o.keep, t)
  PROVE  OpenInv'
<1> PICK h : h = NewHandle(p)
  OBVIOUS
<1>1. h \in Handle /\ ~fh[p][h].fd /\ h # 0
  BY NewHandleIs DEF OpenInv, OpenTest
<1>2. o.access \in SUBSET Access /\ o.creat \in BOOLEAN /\ o.keep \in BOOLEAN
  BY FilesConstants DEF OpenInv, HandleTypes
<1> PICK r : r = [st |-> "tested", h |-> h, file |-> f, access |-> o.access,
                  creat |-> o.creat, keep |-> o.keep, task |-> t,
                  raced |-> FALSE, clipped |-> FALSE]
  OBVIOUS
<1>3. r \in Opening /\ r.st = "tested" /\ r.h = h /\ ~r.clipped
      /\ r.creat = o.creat /\ r.file = f /\ r.access = o.access
  BY <1>1, <1>2 DEF Opening
<1>4. pend' = [pend EXCEPT ![p] = r]
  BY DEF OpenTest
<1> PICK w : w = [FreeHandle EXCEPT !.task = t]
  OBVIOUS
<1>5. w \in HandleRec /\ w.fd = FALSE
  BY DEF HandleRec, FreeHandle
<1>6. fh' = [fh EXCEPT ![p][h] = w]
  BY DEF OpenTest
<1>7. count'[p] >= count[p] /\ h <= count'[p] /\ count' \in [Proc -> 0 .. MaxFileHandles]
      /\ \A q \in Proc \ {p} : count'[q] = count[q]
  <2>1. count[p] \in 0 .. MaxFileHandles /\ h \in 1 .. MaxFileHandles /\ MaxFileHandles \in Nat
    BY <1>1, FilesConstants DEF OpenInv, HandleTypes, Handle
  <2>2. Max({count[p], h}) = IF count[p] >= h THEN count[p] ELSE h
    BY <2>1, MaxOfTwo
  <2>3. count' = [count EXCEPT ![p] = Max({count[p], h})]
    BY DEF OpenTest
  <2>4. count \in [Proc -> 0 .. MaxFileHandles]
    BY DEF OpenInv, HandleTypes
  <2>5. Max({count[p], h}) \in 0 .. MaxFileHandles /\ Max({count[p], h}) >= count[p]
        /\ h <= Max({count[p], h})
    BY <2>1, <2>2
  <2> QED BY <2>3, <2>4, <2>5
<1>8. last' \in [Proc -> 0 .. MaxFileHandles]
  <2>1. last \in [Proc -> 0 .. MaxFileHandles] /\ MaxFileHandles \in Nat \ {0}
    BY FilesConstants DEF OpenInv, HandleTypes
  <2>2. Min({last[p] + 1, MaxFileHandles}) \in 0 .. MaxFileHandles
    <3>1. Min({last[p] + 1, MaxFileHandles}) =
            IF last[p] + 1 <= MaxFileHandles THEN last[p] + 1 ELSE MaxFileHandles
      BY <2>1, MinOfTwo
    <3> QED BY <2>1, <3>1
  <2>3. last' = [last EXCEPT ![p] = IF Wraps(p) THEN 1 ELSE Min({last[p] + 1, MaxFileHandles})]
    BY DEF OpenTest
  <2>4. 1 \in 0 .. MaxFileHandles
    BY <2>1
  <2> QED BY <2>1, <2>2, <2>3, <2>4
<1>9. HandleTypes'
  <2>1. fh' \in [Proc -> [Handle -> HandleRec]]
    BY <1>1, <1>5, <1>6 DEF OpenInv, HandleTypes
  <2>2. pend' \in [Proc -> Pending]
    BY <1>3, <1>4 DEF OpenInv, HandleTypes, Pending
  <2> QED BY <2>1, <2>2, <1>7, <1>8 DEF OpenInv, HandleTypes
<1>10. OnlyCloses
  BY <1>5, <1>6 DEF OnlyCloses, OpenInv, HandleTypes
<1>11. pend'[p] = r /\ \A q \in Proc \ {p} : pend'[q] = pend[q]
  BY <1>4 DEF OpenInv, HandleTypes
<1>12. Sound(p, r)
  <2>1. o.creat => Compatible(f, o.access)
    BY DEF OpenTest, Tested
  <2> QED BY <1>1, <1>3, <2>1 DEF Sound
<1>13. \A q \in Proc : IsOpening(q)' => pend'[q].h <= count'[q] /\ Sound(q, pend'[q])
  <2>1. r.h <= count'[p]
    BY <1>3, <1>7
  <2> QED BY <2>1, <1>7, <1>11, <1>12 DEF OpenInv, OpensSound, IsOpening
<1>14. \A q \in Proc : pend'[q].st = "refused" => pend'[q] = pend[q]
  BY <1>3, <1>11
<1>15. \A q \in Proc : count'[q] >= count[q]
  <2>1. \A q \in Proc : count[q] \in Nat
    BY FilesConstants DEF OpenInv, HandleTypes
  <2> QED BY <1>7, <2>1
<1> QED BY <1>9, <1>10, <1>13, <1>14, <1>15, ClosesKeep

(* What an open under way is.                                               *)
LEMMA OpeningIs ==
  ASSUME HandleTypes, NEW p \in Proc
  PROVE  /\ IsOpening(p) => pend[p] \in Opening
         /\ pend[p].st = "refused" => pend[p] \in Refusal
         /\ pend[p].st = "writing" => pend[p] \in Writing
BY DEF HandleTypes, Pending, Idle, Opening, Refusal, Writing, IsOpening

(* A step that changes only requests, and none into an open, keeps OpenInv. *)
LEMMA RequestKeeps ==
  ASSUME OpenInv, load' = load, UNCHANGED hvars, NEW p \in Proc, NEW r \in Pending,
         pend' = [pend EXCEPT ![p] = r],
         r.st \in {"tested", "opened"} => r.h <= count[p] /\ Sound(p, r),
         r.st = "refused" => (r.clipped => r.raced)
  PROVE  OpenInv'
<1>1. pend'[p] = r /\ \A q \in Proc \ {p} : pend'[q] = pend[q]
  BY DEF OpenInv, HandleTypes
<1>2. HandleTypes'
  BY DEF OpenInv, HandleTypes, hvars
<1>3. OnlyCloses
  BY DEF OnlyCloses, hvars
<1>4. \A q \in Proc : IsOpening(q)' => pend'[q].h <= count'[q] /\ Sound(q, pend'[q])
  BY <1>1 DEF OpenInv, OpensSound, IsOpening, hvars
<1>5. \A q \in Proc : pend'[q].st = "refused" =>
        pend'[q] = pend[q] \/ (pend'[q].clipped => pend'[q].raced)
  BY <1>1
<1>6. \A q \in Proc : count'[q] >= count[q]
  BY FilesConstants DEF OpenInv, HandleTypes, hvars
<1> QED BY <1>2, <1>3, <1>4, <1>5, <1>6, ClosesKeep

(* The file is opened, and truncated if it is created.                      *)
LEMMA OpenFileKeeps ==
  ASSUME OpenInv, load' = load, NEW p \in Proc, OpenFile(p)
  PROVE  OpenInv'
<1>1. UNCHANGED hvars /\ pend[p].st = "tested"
  BY DEF OpenFile
<1>2. Idle \in Pending /\ Idle.st = "idle"
  BY DEF Idle, Pending
<1>3. CASE pend' = [pend EXCEPT ![p] = Idle]
  BY <1>1, <1>2, <1>3, RequestKeeps
<1>4. CASE pend' = [pend EXCEPT ![p].st = "opened", ![p].clipped = pend[p].creat]
  <2> PICK c : c = pend[p].creat
    OBVIOUS
  <2> PICK w : w = pend[p]
    OBVIOUS
  <2> PICK r : r = [w EXCEPT !.st = "opened", !.clipped = c]
    OBVIOUS
  <2>1. w \in Opening
    BY <1>1, OpeningIs DEF OpenInv, IsOpening
  <2>2. c = w.creat /\ c \in BOOLEAN
    BY <2>1 DEF Opening
  <2>3. r \in Opening /\ r.st = "opened" /\ r.clipped = c
        /\ r.h = w.h /\ r.creat = c /\ r.raced = w.raced /\ r.file = w.file /\ r.access = w.access
    BY <2>1, <2>2 DEF Opening
  <2>4. pend' = [pend EXCEPT ![p] = r]
    BY <1>4 DEF OpenInv, HandleTypes
  <2>5. w.h <= count[p] /\ Sound(p, w)
    BY <1>1 DEF OpenInv, OpensSound, IsOpening
  <2>6. r.h <= count[p] /\ Sound(p, r)
    BY <2>2, <2>3, <2>5 DEF Sound
  <2>7. r \in Pending
    BY <2>3 DEF Pending
  <2>8. r.st = "refused" => (r.clipped => r.raced)
    BY <2>3
  <2> QED BY <1>1, <2>4, <2>6, <2>7, <2>8, RequestKeeps
<1> QED BY <1>3, <1>4 DEF OpenFile

(* share_file adds the open, which every other open of the file sees, or it *)
(* refuses it: then the test of a file to be created was overtaken.         *)
LEMMA ShareAddKeeps ==
  ASSUME OpenInv, load' = load, NEW p \in Proc, ShareAdd(p)
  PROVE  OpenInv'
<1> PICK r : r = pend[p]
  OBVIOUS
<1>1. r \in Opening /\ r.st = "opened" /\ IsOpening(p)
  BY OpeningIs DEF OpenInv, ShareAdd, IsOpening
<1>2. r.h \in Handle /\ r.file \in File /\ r.access \in SUBSET Access
      /\ r.keep \in BOOLEAN /\ r.task \in Task
  BY <1>1 DEF Opening
<1>3. UNCHANGED <<count, last>>
  BY DEF ShareAdd
<1>4. CASE ~Compatible(r.file, r.access)
  <2> PICK w : w = [st |-> "refused", raced |-> r.raced, clipped |-> r.clipped]
    OBVIOUS
  <2>1. w \in Pending /\ w.st = "refused" /\ w.raced = r.raced /\ w.clipped = r.clipped
    BY <1>1 DEF Pending, Refusal, Opening
  <2>2. pend' = [pend EXCEPT ![p] = w] /\ fh' = fh
    BY <1>4 DEF ShareAdd
  <2>3. w.clipped => w.raced
    BY <1>1, <1>4, <2>1 DEF OpenInv, OpensSound, Sound
  <2> QED BY <1>3, <2>1, <2>2, <2>3, RequestKeeps DEF hvars
<1>5. CASE Compatible(r.file, r.access)
  <2> PICK w : w = [fd |-> TRUE, keep |-> r.keep, task |-> r.task, file |-> r.file, access |-> r.access]
    OBVIOUS
  <2>1. w \in HandleRec /\ w.file = r.file /\ r.file \in File
    BY <1>2 DEF HandleRec
  <2>2. fh' = [fh EXCEPT ![p][r.h] = w] /\ pend' = [Raced(p, r.file) EXCEPT ![p] = Idle]
    BY <1>5 DEF ShareAdd
  <2>3. \A q \in Proc, h \in Handle :
          fh'[q][h] = IF q = p /\ h = r.h THEN w ELSE fh[q][h]
    BY <1>2, <2>2 DEF OpenInv, HandleTypes
  <2>4. pend'[p] = Idle /\ Idle.st = "idle" /\ Idle \in Pending
    BY <2>2 DEF Idle, Pending, Raced
  <2>5. ASSUME NEW q \in Proc \ {p}
        PROVE  /\ pend'[q] \in Pending
               /\ pend'[q].st = pend[q].st
               /\ pend[q].st = "refused" => pend'[q] = pend[q]
               /\ IsOpening(q) => /\ pend'[q].h = pend[q].h /\ pend'[q].file = pend[q].file
                                  /\ pend'[q].access = pend[q].access
                                  /\ pend'[q].creat = pend[q].creat
                                  /\ pend'[q].clipped = pend[q].clipped
                                  /\ ~pend'[q].raced => ~pend[q].raced /\ pend[q].file # r.file
    <3> PICK v : v = pend[q]
      OBVIOUS
    <3>1. pend'[q] = IF v.st \in {"tested", "opened"} /\ v.file = r.file
                     THEN [v EXCEPT !.raced = TRUE] ELSE v
      BY <2>2 DEF Raced
    <3>2. v \in Pending /\ (v.st \in {"tested", "opened"} => v \in Opening)
      BY OpeningIs DEF OpenInv, HandleTypes, IsOpening
    <3>3. CASE v.st \in {"tested", "opened"} /\ v.file = r.file
      <4> PICK u : u = [v EXCEPT !.raced = TRUE]
        OBVIOUS
      <4>1. u \in Opening /\ u.st = v.st /\ u.h = v.h /\ u.file = v.file /\ u.access = v.access
            /\ u.creat = v.creat /\ u.clipped = v.clipped /\ u.raced = TRUE
        BY <3>2, <3>3 DEF Opening
      <4>2. v.st # "refused"
        BY <3>3
      <4> QED BY <3>1, <3>3, <4>1, <4>2 DEF Pending, IsOpening
    <3>4. CASE ~(v.st \in {"tested", "opened"} /\ v.file = r.file)
      BY <3>1, <3>2, <3>4 DEF IsOpening
    <3> QED BY <3>3, <3>4
  <2>6. HandleTypes'
    <3>1. fh' \in [Proc -> [Handle -> HandleRec]]
      BY <1>2, <2>1, <2>2 DEF OpenInv, HandleTypes
    <3>2. pend' \in [Proc -> Pending]
      <4>1. \A q \in Proc : pend'[q] \in Pending
        BY <2>4, <2>5
      <4>2. pend' = [q \in Proc |-> pend'[q]]
        BY <2>2 DEF Raced
      <4> QED BY <4>1, <4>2
    <3> QED BY <1>3, <3>1, <3>2 DEF OpenInv, HandleTypes
  <2>7. CountCovers'
    <3>1. r.h <= count[p]
      BY <1>1 DEF OpenInv, OpensSound
    <3>2. ~(r.h > count[p])
      <4>1. r.h \in Nat /\ count[p] \in Nat
        BY <1>2, FilesConstants DEF OpenInv, HandleTypes, Handle
      <4> QED BY <3>1, <4>1
    <3> QED BY <1>3, <2>1, <2>3, <3>2 DEF OpenInv, CountCovers
  <2>8. OpensSound'
    <3> SUFFICES ASSUME NEW q \in Proc, IsOpening(q)'
                 PROVE  (pend[q].h <= count[q] /\ Sound(q, pend[q]))'
      BY DEF OpensSound
    <3>1. q # p /\ IsOpening(q)
      BY <2>4, <2>5 DEF IsOpening
    <3>2. pend[q].h <= count[q] /\ Sound(q, pend[q])
      BY <3>1 DEF OpenInv, OpensSound
    <3>3. pend[q].h \in Handle
      BY <3>1, OpeningIs DEF OpenInv, Opening
    <3>4. ASSUME pend[q].file # r.file, Compatible(pend[q].file, pend[q].access)
          PROVE  Compatible(pend[q].file, pend[q].access)'
      <4> PICK f : f = pend[q].file
        OBVIOUS
      <4> PICK a : a = pend[q].access
        OBVIOUS
      <4>1. Compatible(f, a)'
        BY <2>1, <2>3, <3>4 DEF Compatible
      <4>2. pend'[q].file = f /\ pend'[q].access = a
        BY <2>5, <3>1
      <4> QED BY <4>1, <4>2 DEF Compatible
    <3>5. ~fh'[q][pend'[q].h].fd
      BY <2>3, <2>5, <3>1, <3>2, <3>3 DEF Sound
    <3>6. pend'[q].clipped => pend'[q].creat
      BY <2>5, <3>1, <3>2 DEF Sound
    <3>7. pend'[q].creat /\ ~pend'[q].raced => Compatible(pend[q].file, pend[q].access)'
      BY <2>5, <3>1, <3>2, <3>4 DEF Sound
    <3>8. pend'[q].h <= count'[q]
      BY <1>3, <2>5, <3>1, <3>2
    <3> QED BY <3>5, <3>6, <3>7, <3>8 DEF Sound
  <2>9. RefusedOpenHarmless'
    BY <2>4, <2>5 DEF OpenInv, RefusedOpenHarmless
  <2> QED BY <2>6, <2>7, <2>8, <2>9 DEF OpenInv
<1> QED BY <1>4, <1>5

(* A process that closes some of its handles keeps OpenInv.                 *)
LEMMA HandlesClosed ==
  ASSUME OpenInv, load' = load, UNCHANGED <<count, last, pend>>, NEW p \in Proc,
         NEW H \in [Handle -> HandleRec], fh' = [fh EXCEPT ![p] = H],
         \A h \in Handle : H[h].fd => H[h] = fh[p][h]
  PROVE  OpenInv'
<1>1. HandleTypes'
  BY DEF OpenInv, HandleTypes
<1>2. OnlyCloses
  BY DEF OnlyCloses, OpenInv, HandleTypes
<1>3. \A q \in Proc : IsOpening(q)' => pend'[q].h <= count'[q] /\ Sound(q, pend'[q])
  BY DEF OpenInv, OpensSound, IsOpening
<1>4. \A q \in Proc : count'[q] >= count[q]
  BY FilesConstants DEF OpenInv, HandleTypes
<1> QED BY <1>1, <1>2, <1>3, <1>4, ClosesKeep

(* nw_close_file.                                                           *)
LEMMA CloseFileKeeps ==
  ASSUME OpenInv, load' = load, NEW p \in Proc, NEW h \in Handle,
         NEW reset \in BOOLEAN, NEW t \in Task \cup {0}, CloseFile(p, h, reset, t)
  PROVE  OpenInv'
<1> PICK r : r = fh[p][h]
  OBVIOUS
<1>1. r \in HandleRec
  BY DEF OpenInv, HandleTypes
<1> PICK keep \in BOOLEAN : keep = (r.keep /\ ~reset)
  OBVIOUS
<1> PICK w : w = [FreeHandle EXCEPT !.keep = keep, !.task = r.task]
  OBVIOUS
<1>2. w \in HandleRec /\ ~w.fd
  BY <1>1 DEF FreeHandle, HandleRec
<1> DEFINE H == [fh[p] EXCEPT ![h] = w]
<1>3. fh' = [fh EXCEPT ![p][h] = w] /\ UNCHANGED <<count, last, pend>>
  BY DEF CloseFile
<1>4. fh' = [fh EXCEPT ![p] = H]
  BY <1>3
<1>5. H \in [Handle -> HandleRec]
  BY <1>2 DEF OpenInv, HandleTypes
<1>6. \A g \in Handle : H[g].fd => H[g] = fh[p][g]
  BY <1>2 DEF OpenInv, HandleTypes
<1> HIDE DEF H
<1> PICK G : G = H
  OBVIOUS
<1>7. G \in [Handle -> HandleRec] /\ fh' = [fh EXCEPT ![p] = G]
  BY <1>4, <1>5
<1>8. \A g \in Handle : G[g].fd => G[g] = fh[p][g]
  BY <1>6
<1>9. UNCHANGED <<count, last, pend>>
  BY <1>3
<1> QED BY <1>7, <1>8, <1>9, HandlesClosed

(* init_file_module(task).                                                  *)
LEMMA EndOfTaskKeeps ==
  ASSUME OpenInv, load' = load, NEW p \in Proc, NEW t \in Task, EndOfTask(p, t)
  PROVE  OpenInv'
<1> DEFINE gone == {h \in Handle : fh[p][h].fd /\ fh[p][h].task = t}
           H == [h \in Handle |-> IF h \in gone
                   THEN [FreeHandle EXCEPT !.keep = fh[p][h].keep, !.task = t] ELSE fh[p][h]]
<1>1. fh' = [fh EXCEPT ![p] = H] /\ UNCHANGED <<count, last, pend>>
  BY DEF EndOfTask
<1>2. ASSUME NEW h \in Handle
      PROVE  H[h] \in HandleRec /\ (H[h].fd => H[h] = fh[p][h])
  <2>1. fh[p][h] \in HandleRec
    BY DEF OpenInv, HandleTypes
  <2> PICK k : k = fh[p][h].keep
    OBVIOUS
  <2>2. k \in BOOLEAN
    BY <2>1 DEF HandleRec
  <2> PICK w : w = [FreeHandle EXCEPT !.keep = k, !.task = t]
    OBVIOUS
  <2>3. w \in HandleRec /\ ~w.fd
    BY <2>2 DEF FreeHandle, HandleRec
  <2>4. H[h] = IF h \in gone THEN w ELSE fh[p][h]
    OBVIOUS
  <2> HIDE DEF H, gone
  <2> QED BY <2>1, <2>3, <2>4
<1>3. H \in [Handle -> HandleRec]
  <2>1. H = [h \in Handle |-> H[h]]
    OBVIOUS
  <2> HIDE DEF H
  <2> QED BY <1>2, <2>1
<1> HIDE DEF H
<1> PICK G : G = H
  OBVIOUS
<1>4. G \in [Handle -> HandleRec] /\ fh' = [fh EXCEPT ![p] = G]
  BY <1>1, <1>3
<1>5. \A g \in Handle : G[g].fd => G[g] = fh[p][g]
  BY <1>2
<1> QED BY <1>1, <1>4, <1>5, HandlesClosed

(* init_file_module(-1), and the end of a process.                          *)
LEMMA DropHandlesKeeps ==
  ASSUME OpenInv, load' = load, NEW p \in Proc, DropHandles(p)
  PROVE  OpenInv'
<1>1. FreeHandle \in HandleRec /\ ~FreeHandle.fd
  BY DEF FreeHandle, HandleRec
<1>2. Idle \in Pending /\ Idle.st = "idle"
  BY DEF Idle, Pending
<1>3. HandleTypes'
  <2>1. 0 \in 0 .. MaxFileHandles
    BY FilesConstants
  <2>2. [h \in Handle |-> FreeHandle] \in [Handle -> HandleRec]
    BY <1>1
  <2> QED BY <1>2, <2>1, <2>2 DEF OpenInv, HandleTypes, DropHandles
<1>4. \A q \in Proc, h \in Handle : fh'[q][h] = IF q = p THEN FreeHandle ELSE fh[q][h]
  BY DEF OpenInv, HandleTypes, DropHandles
<1>5. OnlyCloses
  BY <1>1, <1>4 DEF OnlyCloses
<1>6. /\ pend'[p] = Idle
      /\ \A q \in Proc \ {p} : pend'[q] = pend[q] /\ count'[q] = count[q]
  BY DEF OpenInv, HandleTypes, DropHandles
<1>7. \A q \in Proc : IsOpening(q)' => pend'[q].h <= count'[q] /\ Sound(q, pend'[q])
  BY <1>2, <1>6 DEF OpenInv, OpensSound, IsOpening
<1>8. \A q \in Proc, h \in Handle : fh'[q][h].fd => count'[q] >= count[q]
  <2>1. \A q \in Proc : count[q] \in Nat
    BY FilesConstants DEF OpenInv, HandleTypes
  <2> QED BY <2>1, <1>1, <1>4, <1>6
<1>9. \A q \in Proc : pend'[q].st = "refused" => pend'[q] = pend[q]
  BY <1>2, <1>6
<1> QED BY <1>3, <1>5, <1>7, <1>8, <1>9, ClosesKeep

(* Every step keeps OpenInv.                                                *)
LEMMA OpenNext == OpenInv /\ [Next]_vars => OpenInv'
<1> SUFFICES ASSUME OpenInv, [Next]_vars PROVE OpenInv'
  OBVIOUS
<1>1. CASE UNCHANGED vars
  BY <1>1, OpenStutters DEF vars, OpenInv, HandleTypes
<1>2. CASE Next
  <2>0. load' = load
    BY <1>2 DEF Next
  <2> PICK p \in Proc :
         \/ load # "logical" /\ FileRequest(p) /\ UNCHANGED lvars
         \/ load \in {"record", "io"} /\ RecordRequest(p) /\ UNCHANGED lvars
         \/ load = "io" /\ ChangeRequest(p) /\ UNCHANGED lvars
         \/ load = "logical" /\ LogicalRequest(p) /\ UNCHANGED <<hvars, pend, rvars>>
         \/ Logout(p)
         \/ Exit(p)
    BY <1>2 DEF Next
  <2>1. Idle \in Pending /\ Idle.st = "idle"
    BY DEF Idle, Pending
  <2>2. CASE UNCHANGED <<hvars, pend>>
    BY <2>0, <2>2, OpenStutters DEF hvars, OpenInv, HandleTypes
  <2>3. CASE FileRequest(p)
    <3>1. CASE \E f \in File, o \in Opens[load], t \in Task :
                 OpenTest(p, f, o.access, o.creat, o.keep, t)
      BY <2>0, <3>1, OpenTestKeeps
    <3>2. CASE OpenFile(p)
      BY <2>0, <3>2, OpenFileKeeps
    <3>3. CASE ShareAdd(p)
      BY <2>0, <3>3, ShareAddKeeps
    <3>4. CASE Refused(p)
      <4>1. pend' = [pend EXCEPT ![p] = Idle] /\ UNCHANGED hvars
        BY <3>4 DEF Refused
      <4> QED BY <2>0, <2>1, <4>1, RequestKeeps
    <3>5. CASE \E t \in Task : EndOfTask(p, t)
      BY <2>0, <3>5, EndOfTaskKeeps
    <3>6. CASE \E h \in Handle, reset \in BOOLEAN, t \in Task \cup {0} : CloseFile(p, h, reset, t)
      BY <2>0, <3>6, CloseFileKeeps
    <3> QED BY <2>3, <3>1, <3>2, <3>3, <3>4, <3>5, <3>6 DEF FileRequest
  <2>4. CASE RecordRequest(p)
    <3>1. ASSUME NEW h \in Handle, NEW s \in Starts, NEW l \in Lens,
                 UnlockRecord(p, h, s, l) \/ \E x \in BOOLEAN : LockRecord(p, h, s, l, x)
          PROVE  UNCHANGED <<hvars, pend>>
      <4>1. CASE UnlockRecord(p, h, s, l)
        BY <4>1 DEF UnlockRecord
      <4>2. CASE \E x \in BOOLEAN : LockRecord(p, h, s, l, x)
        BY <4>2 DEF LockRecord
      <4> QED BY <3>1, <4>1, <4>2
    <3>2. UNCHANGED <<hvars, pend>>
      BY <2>4, <3>1 DEF RecordRequest
    <3> QED BY <3>2, <2>2
  <2>5. CASE ChangeRequest(p)
    <3>1. CASE Write(p)
      <4>1. pend' = [pend EXCEPT ![p] = Idle] /\ UNCHANGED hvars
        BY <3>1 DEF Write
      <4> QED BY <2>0, <2>1, <4>1, RequestKeeps
    <3>2. ASSUME NEW h \in Handle, NEW s \in Starts, NEW l \in Lens, WriteTest(p, h, s, l)
          PROVE  OpenInv'
      <4> PICK w : w = [st |-> "writing", file |-> fh[p][h].file, bytes |-> Bytes(s, l)]
        OBVIOUS
      <4>1. w \in Pending /\ w.st = "writing"
        <5>1. Bytes(s, l) \in SUBSET Byte
          BY DEF Bytes
        <5>2. fh[p][h].file \in File
          BY <3>2 DEF WriteTest, OpenInv, CountCovers
        <5> QED BY <5>1, <5>2 DEF Pending, Writing
      <4>2. pend' = [pend EXCEPT ![p] = w] /\ UNCHANGED hvars
        BY <3>2 DEF WriteTest
      <4> QED BY <2>0, <4>1, <4>2, RequestKeeps
    <3>3. CASE \E h \in Handle, s \in Starts :
                 Truncate(p, h, s) \/ \E l \in Lens : ServerCopy(p, h, s, l)
      <4>1. UNCHANGED <<hvars, pend>>
        BY <3>3 DEF Truncate, ServerCopy
      <4> QED BY <4>1, <2>2
    <3> QED BY <2>5, <3>1, <3>2, <3>3 DEF ChangeRequest
  <2>6. CASE Logout(p) \/ Exit(p)
    <3>1. DropHandles(p)
      BY <2>6 DEF Logout, Exit
    <3> QED BY <2>0, <3>1, DropHandlesKeeps
  <2> QED BY <2>2, <2>3, <2>4, <2>5, <2>6
<1> QED BY <1>1, <1>2

(* OpenInv holds in every state.                                            *)
LEMMA OpenAlways == Spec => []OpenInv
BY OpenInit, OpenNext, PTL DEF Spec

(* An open that is refused for its share mode has not truncated the file,   *)
(* unless another process opened it between the test (nwfile.c:399) and the *)
(* open that truncates (nwfile.c:454).                                      *)
THEOREM RefusalHarmless == Spec => []RefusedOpenHarmless
<1>1. OpenInv => RefusedOpenHarmless
  BY DEF OpenInv
<1> QED BY <1>1, OpenAlways, PTL

-----------------------------------------------------------------------------
(* Logical records                                                          *)

(* In the first state nothing is locked.                                    *)
LEMMA LogInit == Init => LogInv
<1> SUFFICES ASSUME Init PROVE LogInv
  OBVIOUS
<1>1. NoArea \in Area
  BY DEF NoArea, Area
<1>2. \A p \in Proc, r \in Rec : areas[p][r] = NoArea /\ klog[p][r] = "none"
  BY DEF Init
<1>3. LogTypes
  BY <1>1 DEF Init, LogTypes, Modes
<1> QED BY <1>2, <1>3 DEF LogInv

(* nw_log_logical_record: a first lock is taken only if the kernel grants   *)
(* it, a second one only if both are shared.                                *)
LEMMA LockLogicalKeeps ==
  ASSUME LogInv, NEW p \in Proc, NEW r \in Rec, NEW x \in BOOLEAN, LockLogical(p, r, x)
  PROVE  LogInv'
<1> PICK la : la = areas[p][r]
  OBVIOUS
<1>1. la \in Area
  BY DEF LogInv, LogTypes
<1> PICK w : w = [locks |-> la.locks + 1, exclusive |-> x]
  OBVIOUS
<1>2. w \in Area /\ w.exclusive = x
  BY <1>1 DEF Area
<1>3. areas' = [areas EXCEPT ![p][r] = w]
  BY DEF LockLogical
<1>4. \A q \in Proc, s \in Rec : areas'[q][s] = IF q = p /\ s = r THEN w ELSE areas[q][s]
  BY <1>3 DEF LogInv, LogTypes
<1>5. areas' \in [Proc -> [Rec -> Area]]
  BY <1>2, <1>3 DEF LogInv, LogTypes
<1>6. CASE la = NoArea
  <2> PICK m \in Modes : m = Mode(x)
    BY DEF Modes, Mode
  <2>1. klog' = [klog EXCEPT ![p][r] = m] /\ ~LogConflict(p, r, x)
    BY <1>6 DEF LockLogical, Mode
  <2>2. klog' \in [Proc -> [Rec -> Modes]]
    BY <2>1 DEF LogInv, LogTypes
  <2>3. \A q \in Proc, s \in Rec : klog'[q][s] = IF q = p /\ s = r THEN m ELSE klog[q][s]
    BY <2>1 DEF LogInv, LogTypes
  <2>4. \A q \in Proc \ {p} : klog[q][r] # "wr" /\ (m = "wr" => klog[q][r] = "none")
    <3>1. \A q \in Proc : klog[q][r] \in Modes
      BY DEF LogInv, LogTypes
    <3>2. m = "wr" => x
      BY DEF Mode
    <3> QED BY <2>1, <3>1, <3>2 DEF LogConflict, Modes
  <2>5. ASSUME NEW s \in Rec, NEW q \in Proc, NEW u \in Proc, q # u, klog'[q][s] = "wr"
        PROVE  klog'[u][s] = "none"
    <3>1. CASE s # r \/ (q # p /\ u # p)
      BY <2>3, <2>5, <3>1 DEF LogInv
    <3>2. CASE s = r /\ q = p
      BY <2>3, <2>4, <2>5, <3>2
    <3>3. CASE s = r /\ u = p
      BY <2>3, <2>4, <2>5, <3>3
    <3> QED BY <3>1, <3>2, <3>3
  <2>6. \A q \in Proc, s \in Rec :
          areas'[q][s] # NoArea => klog'[q][s] = Mode(areas'[q][s].exclusive)
    BY <1>2, <1>4, <2>3 DEF LogInv
  <2> QED BY <1>5, <2>2, <2>5, <2>6 DEF LogInv, LogTypes
<1>7. CASE la # NoArea
  <2>1. klog' = klog /\ ~la.exclusive /\ ~x
    BY <1>7 DEF LockLogical
  <2>2. Mode(la.exclusive) = Mode(x)
    BY <2>1 DEF Mode
  <2>3. klog[p][r] = Mode(x)
    BY <1>7, <2>2 DEF LogInv
  <2>4. \A q \in Proc, s \in Rec :
          areas'[q][s] # NoArea => klog'[q][s] = Mode(areas'[q][s].exclusive)
    BY <1>2, <1>4, <2>1, <2>3 DEF LogInv
  <2> QED BY <1>5, <2>1, <2>4 DEF LogInv, LogTypes
<1> QED BY <1>6, <1>7

(* A process that gives up locks keeps LogInv, as long as it lists none of  *)
(* those it gives up.                                                       *)
LEMMA LocksDropped ==
  ASSUME LogInv, LogTypes', NEW p \in Proc,
         \A q \in Proc \ {p}, s \in Rec : areas'[q][s] = areas[q][s] /\ klog'[q][s] = klog[q][s],
         \A s \in Rec : klog'[p][s] = klog[p][s] \/ (klog'[p][s] = "none" /\ areas'[p][s] = NoArea),
         \A s \in Rec : areas'[p][s] # NoArea =>
           areas[p][s] # NoArea /\ areas'[p][s].exclusive = areas[p][s].exclusive
  PROVE  LogInv'
<1>1. \A q \in Proc, s \in Rec : klog'[q][s] = klog[q][s] \/ klog'[q][s] = "none"
  OBVIOUS
<1>2. ASSUME NEW s \in Rec, NEW q \in Proc, NEW u \in Proc, q # u, klog'[q][s] = "wr"
      PROVE  klog'[u][s] = "none"
  BY <1>1, <1>2 DEF LogInv
<1>3. ASSUME NEW q \in Proc, NEW s \in Rec, areas'[q][s] # NoArea
      PROVE  klog'[q][s] = Mode(areas'[q][s].exclusive)
  <2>1. CASE q = p
    <3>1. klog'[p][s] = klog[p][s] /\ areas[p][s] # NoArea
          /\ areas'[p][s].exclusive = areas[p][s].exclusive
      BY <1>3, <2>1
    <3>2. klog[p][s] = Mode(areas[p][s].exclusive)
      BY <3>1 DEF LogInv
    <3> QED BY <2>1, <3>1, <3>2
  <2>2. CASE q # p
    BY <1>3, <2>2 DEF LogInv
  <2> QED BY <2>1, <2>2
<1> QED BY <1>2, <1>3 DEF LogInv

(* The last lock of a record is given up, and with it the lock file when no *)
(* other record of it is listed.                                            *)
LEMMA UnlockLogicalKeeps ==
  ASSUME LogInv, NEW p \in Proc, NEW r \in Rec, UnlockLogical(p, r)
  PROVE  LogInv'
<1> PICK la \in Area : la = areas[p][r]
  BY DEF LogInv, LogTypes
<1>1. la # NoArea
  BY DEF UnlockLogical
<1>2. NoArea \in Area
  BY DEF NoArea, Area
<1>3. CASE la.locks > 1
  <2> PICK v \in Nat : v = la.locks - 1
    BY <1>3 DEF Area
  <2> PICK w : w = [la EXCEPT !.locks = v]
    OBVIOUS
  <2>1. w \in Area /\ w.exclusive = la.exclusive
    BY DEF Area
  <2>2. areas' = [areas EXCEPT ![p][r] = w] /\ klog' = klog
    <3>1. areas' = [areas EXCEPT ![p][r].locks = la.locks - 1] /\ klog' = klog
      BY <1>3 DEF UnlockLogical
    <3> QED BY <3>1
  <2>3. \A q \in Proc, s \in Rec : areas'[q][s] = IF q = p /\ s = r THEN w ELSE areas[q][s]
    BY <2>2 DEF LogInv, LogTypes
  <2>4. LogTypes'
    BY <2>1, <2>2 DEF LogInv, LogTypes
  <2>5. \A s \in Rec : areas'[p][s] # NoArea =>
          areas[p][s] # NoArea /\ areas'[p][s].exclusive = areas[p][s].exclusive
    BY <1>1, <2>1, <2>3
  <2> QED BY <2>2, <2>3, <2>4, <2>5, LocksDropped
<1>4. CASE ~(la.locks > 1)
  <2> PICK D : D = Forgotten(p, r)
    OBVIOUS
  <2>1. \A s \in D : s = r \/ areas[p][s] = NoArea
    BY DEF Forgotten
  <2>2. /\ areas' = [areas EXCEPT ![p][r] = NoArea]
        /\ klog' = [klog EXCEPT ![p] = [s \in Rec |-> IF s \in D THEN "none" ELSE klog[p][s]]]
    BY <1>4 DEF UnlockLogical
  <2>3. \A q \in Proc, s \in Rec : areas'[q][s] = IF q = p /\ s = r THEN NoArea ELSE areas[q][s]
    BY <2>2 DEF LogInv, LogTypes
  <2>4. \A q \in Proc, s \in Rec : klog'[q][s] = IF q = p /\ s \in D THEN "none" ELSE klog[q][s]
    BY <2>2 DEF LogInv, LogTypes
  <2>5. LogTypes'
    <3>1. areas' \in [Proc -> [Rec -> Area]]
      BY <1>2, <2>2 DEF LogInv, LogTypes
    <3>2. [s \in Rec |-> IF s \in D THEN "none" ELSE klog[p][s]] \in [Rec -> Modes]
      BY DEF LogInv, LogTypes, Modes
    <3>3. klog' \in [Proc -> [Rec -> Modes]]
      BY <2>2, <3>2 DEF LogInv, LogTypes
    <3> QED BY <3>1, <3>3 DEF LogTypes
  <2>6. \A s \in Rec : klog'[p][s] = klog[p][s] \/ (klog'[p][s] = "none" /\ areas'[p][s] = NoArea)
    BY <2>1, <2>3, <2>4
  <2>7. \A s \in Rec : areas'[p][s] # NoArea =>
          areas[p][s] # NoArea /\ areas'[p][s].exclusive = areas[p][s].exclusive
    BY <2>3
  <2>8. \A q \in Proc \ {p}, s \in Rec : areas'[q][s] = areas[q][s] /\ klog'[q][s] = klog[q][s]
    BY <2>3, <2>4
  <2> QED BY <2>5, <2>6, <2>7, <2>8, LocksDropped
<1> QED BY <1>3, <1>4

(* The end of a process gives up all.                                       *)
LEMMA ExitDropsLogical ==
  ASSUME LogInv, NEW p \in Proc, Exit(p)
  PROVE  LogInv'
<1>1. NoArea \in Area
  BY DEF NoArea, Area
<1>2. areas' = [areas EXCEPT ![p] = [s \in Rec |-> NoArea]]
      /\ klog' = [klog EXCEPT ![p] = [s \in Rec |-> "none"]]
  BY DEF Exit
<1>3. LogTypes'
  <2>1. [s \in Rec |-> NoArea] \in [Rec -> Area] /\ [s \in Rec |-> "none"] \in [Rec -> Modes]
    BY <1>1 DEF Modes
  <2> QED BY <1>2, <2>1 DEF LogInv, LogTypes
<1>4. \A s \in Rec : areas'[p][s] = NoArea /\ klog'[p][s] = "none"
  BY <1>2 DEF LogInv, LogTypes
<1>5. \A q \in Proc \ {p}, s \in Rec : areas'[q][s] = areas[q][s] /\ klog'[q][s] = klog[q][s]
  BY <1>2 DEF LogInv, LogTypes
<1> QED BY <1>3, <1>4, <1>5, LocksDropped

(* Every step keeps LogInv.                                                 *)
LEMMA LogNext == LogInv /\ [Next]_vars => LogInv'
<1> SUFFICES ASSUME LogInv, [Next]_vars PROVE LogInv'
  OBVIOUS
<1>1. CASE UNCHANGED lvars
  BY <1>1 DEF lvars, LogInv, LogTypes
<1>2. CASE UNCHANGED vars
  BY <1>1, <1>2 DEF vars, lvars
<1>3. CASE Next
  <2> PICK p \in Proc :
         \/ load # "logical" /\ FileRequest(p) /\ UNCHANGED lvars
         \/ load \in {"record", "io"} /\ RecordRequest(p) /\ UNCHANGED lvars
         \/ load = "io" /\ ChangeRequest(p) /\ UNCHANGED lvars
         \/ load = "logical" /\ LogicalRequest(p) /\ UNCHANGED <<hvars, pend, rvars>>
         \/ Logout(p)
         \/ Exit(p)
    BY <1>3 DEF Next
  <2>1. CASE LogicalRequest(p)
    BY <2>1, LockLogicalKeeps, UnlockLogicalKeeps DEF LogicalRequest
  <2>2. CASE Logout(p)
    BY <1>1, <2>2 DEF Logout
  <2>3. CASE Exit(p)
    BY <2>3, ExitDropsLogical
  <2> QED BY <1>1, <2>1, <2>2, <2>3
<1> QED BY <1>2, <1>3

(* A logical record that a process lists as locked exclusively is listed by *)
(* no other process (nwfile.c:1192), however locks on other records of the  *)
(* same lock file come and go.                                              *)
THEOREM LogicalLocks == Spec => []LogicalExclusive
<1>1. LogInv => LogicalExclusive
  <2> SUFFICES ASSUME LogInv, NEW r \in Rec, NEW p \in Proc, NEW q \in Proc,
                      p # q, areas[p][r].exclusive, areas[q][r] # NoArea
               PROVE  FALSE
    BY DEF LogicalExclusive
  <2>1. areas[p][r] # NoArea
    BY DEF NoArea
  <2>2. klog[p][r] = "wr"
    BY <2>1 DEF LogInv, Mode
  <2>3. klog[q][r] = "none"
    BY <2>2 DEF LogInv
  <2>4. klog[q][r] \in {"rd", "wr"}
    BY DEF LogInv, Mode
  <2> QED BY <2>3, <2>4
<1> QED BY <1>1, LogInit, LogNext, PTL DEF Spec

-----------------------------------------------------------------------------
(* Record locks                                                             *)

(* In the first state no lock is listed.                                    *)
LEMMA LockInit == Init => LockInv
<1> SUFFICES ASSUME Init PROVE LockInv
  OBVIOUS
<1>1. << >> \in Seq(Entry) /\ NoLocks \in [Byte -> Modes] /\ \A b \in Byte : NoLocks[b] = "none"
  BY DEF NoLocks, Modes
<1>2. LockTypes
  BY <1>1 DEF Init, LockTypes
<1>3. \A p \in Proc, f \in File : locks[p][f] = << >> /\ klock[p][f] = NoLocks
  BY DEF Init
<1>4. EntriesLive
  BY <1>3 DEF EntriesLive
<1>5. KernelExclusive
  BY <1>1, <1>3 DEF KernelExclusive
<1>6. Held
  BY <1>3 DEF Held, Disjoint, Holds
<1> QED BY <1>2, <1>4, <1>5, <1>6 DEF LockInv

(* A step that leaves the locks alone and closes no handle keeps LockInv.   *)
LEMMA LockFrame ==
  ASSUME LockInv, UNCHANGED <<locks, klock, spoiled>>, dirty' \in [Proc -> BOOLEAN],
         \A p \in Proc, h \in Handle : fh[p][h].fd => fh'[p][h].fd /\ fh'[p][h].file = fh[p][h].file
  PROVE  LockInv'
<1>1. LockTypes' /\ KernelExclusive' /\ Held'
  <2>1. LockTypes'
    BY DEF LockInv, LockTypes
  <2>2. KernelExclusive'
    BY DEF LockInv, KernelExclusive
  <2>3. Held'
    BY DEF LockInv, Held
  <2> QED BY <2>1, <2>2, <2>3
<1>2. EntriesLive'
  <2> SUFFICES ASSUME NEW p \in Proc, NEW f \in File, NEW i \in DOMAIN locks[p][f]
               PROVE  fh'[p][locks[p][f][i].fd].fd /\ fh'[p][locks[p][f][i].fd].file = f
    BY DEF EntriesLive
  <2>1. locks[p][f] \in Seq(Entry)
    BY DEF LockInv, LockTypes
  <2>2. locks[p][f][i] \in Entry
    BY <2>1
  <2>3. locks[p][f][i].fd \in Handle
    BY <2>2 DEF Entry
  <2>4. fh[p][locks[p][f][i].fd].fd /\ fh[p][locks[p][f][i].fd].file = f
    BY DEF LockInv, EntriesLive
  <2> QED BY <2>3, <2>4
<1> QED BY <1>1, <1>2 DEF LockInv

(* A step in which p closes the descriptors of gone, on the files hit.      *)
ListsOf(p, hit, gone) ==
  \A q \in Proc, f \in File :
    IF q = p /\ f \in hit
    THEN /\ locks'[q][f] = Others(locks[q][f], gone)
         /\ klock'[q][f] = NoLocks
         /\ ~spoiled'[q][f] => locks'[q][f] = << >>
    ELSE /\ locks'[q][f] = locks[q][f] /\ klock'[q][f] = klock[q][f]
         /\ spoiled'[q][f] = spoiled[q][f]
HandlesOf(p, hit, gone) ==
  \A q \in Proc, h \in Handle : fh[q][h].fd =>
    IF q = p /\ h \in gone THEN fh[q][h].file \in hit
    ELSE fh'[q][h].fd /\ fh'[q][h].file = fh[q][h].file

(* The files whose descriptors are closed lose the kernel's locks, and the  *)
(* entries of other descriptors of theirs are spoiled.                      *)
LEMMA ListsClosed ==
  ASSUME LockInv, LockTypes', NEW p \in Proc, NEW hit \in SUBSET File, NEW gone,
         ListsOf(p, hit, gone), HandlesOf(p, hit, gone)
  PROVE  LockInv'
<1>1. \A b \in Byte : NoLocks[b] = "none"
  BY DEF NoLocks
<1>2. KernelExclusive'
  <2>1. \A q \in Proc, f \in File, b \in Byte :
          klock'[q][f][b] = klock[q][f][b] \/ klock'[q][f][b] = "none"
    BY <1>1 DEF ListsOf
  <2>2. ASSUME NEW f \in File, NEW q \in Proc, NEW u \in Proc, q # u, NEW b \in Byte,
               klock'[q][f][b] = "wr"
        PROVE  klock'[u][f][b] = "none"
    <3>1. klock[q][f][b] = "wr"
      BY <2>1, <2>2
    <3>2. klock[u][f][b] = "none"
      BY <2>2, <3>1 DEF LockInv, KernelExclusive
    <3> QED BY <2>1, <3>2
  <2> QED BY <2>2 DEF KernelExclusive
<1>3. EntriesLive'
  <2> SUFFICES ASSUME NEW q \in Proc, NEW f \in File, NEW n \in DOMAIN locks'[q][f]
               PROVE  fh'[q][locks'[q][f][n].fd].fd /\ fh'[q][locks'[q][f][n].fd].file = f
    BY DEF EntriesLive
  <2> PICK L : L = locks[q][f]
    OBVIOUS
  <2>1. L \in Seq(Entry)
    BY DEF LockInv, LockTypes
  <2>2. ASSUME NEW i \in DOMAIN L
        PROVE  L[i].fd \in Handle /\ fh[q][L[i].fd].fd /\ fh[q][L[i].fd].file = f
    <3>1. L[i] \in Entry
      BY <2>1
    <3> QED BY <3>1 DEF LockInv, EntriesLive, Entry
  <2>3. CASE q = p /\ f \in hit
    <3>1. locks'[q][f] = Others(L, gone)
      BY <2>3 DEF ListsOf
    <3>2. n \in DOMAIN Others(L, gone)
      BY <3>1
    <3>3. PICK i \in DOMAIN L : Others(L, gone)[n] = L[i] /\ L[i].fd \notin gone
      BY <2>1, <3>2, OthersIs
    <3>4. ~(L[i].fd \in gone)
      BY <3>3
    <3> QED BY <2>2, <3>1, <3>3, <3>4 DEF HandlesOf
  <2>4. CASE ~(q = p /\ f \in hit)
    <3>1. locks'[q][f] = L
      BY <2>4 DEF ListsOf
    <3>2. L[n].fd \in Handle /\ fh[q][L[n].fd].fd /\ fh[q][L[n].fd].file = f
      BY <2>2, <3>1
    <3>3. ~(q = p /\ L[n].fd \in gone)
      BY <2>4, <3>2 DEF HandlesOf
    <3> QED BY <3>1, <3>2, <3>3 DEF HandlesOf
  <2> QED BY <2>3, <2>4
<1>4. Held'
  <2> SUFFICES ASSUME NEW q \in Proc, NEW f \in File, ~spoiled'[q][f]
               PROVE  Disjoint(locks'[q][f]) /\ Holds(locks'[q][f], klock'[q][f])
    BY DEF Held
  <2>1. CASE q = p /\ f \in hit
    <3>1. locks'[q][f] = << >>
      BY <2>1 DEF ListsOf
    <3> QED BY <3>1 DEF Disjoint, Holds
  <2>2. CASE ~(q = p /\ f \in hit)
    <3>1. locks'[q][f] = locks[q][f] /\ klock'[q][f] = klock[q][f] /\ ~spoiled[q][f]
      BY <2>2 DEF ListsOf
    <3>2. Disjoint(locks[q][f]) /\ Holds(locks[q][f], klock[q][f])
      BY <3>1 DEF LockInv, Held
    <3> QED BY <3>1, <3>2
  <2> QED BY <2>1, <2>2
<1> QED BY <1>2, <1>3, <1>4 DEF LockInv

(* share_unlock_all and close of one descriptor.                            *)
LEMMA CloseFdKeeps ==
  ASSUME LockInv, NEW p \in Proc, NEW f \in File, NEW h \in Handle, CloseFd(p, f, h),
         fh[p][h].fd => fh[p][h].file = f,
         \A q \in Proc, g \in Handle : q # p \/ g # h => fh'[q][g] = fh[q][g]
  PROVE  LockInv'
<1> PICK rest : rest = Others(locks[p][f], {h})
  OBVIOUS
<1> PICK s \in BOOLEAN : s = (rest # << >>)
  OBVIOUS
<1>1. rest \in Seq(Entry)
  BY OthersIs DEF LockInv, LockTypes
<1>2. NoLocks \in [Byte -> Modes]
  BY DEF NoLocks, Modes
<1>3. /\ locks' = [locks EXCEPT ![p][f] = rest]
      /\ klock' = [klock EXCEPT ![p][f] = NoLocks]
      /\ spoiled' = [spoiled EXCEPT ![p][f] = s]
  BY DEF CloseFd, OtherEntries
<1>4. dirty' \in [Proc -> BOOLEAN]
  <2> PICK d \in BOOLEAN : d = (dirty[p] /\ rest # << >>)
    OBVIOUS
  <2>1. dirty' = [dirty EXCEPT ![p] = d]
    BY DEF CloseFd, OtherEntries
  <2> QED BY <2>1 DEF LockInv, LockTypes
<1>5. LockTypes'
  BY <1>1, <1>2, <1>3, <1>4 DEF LockInv, LockTypes
<1>6. \A q \in Proc, g \in File :
        /\ locks'[q][g] = IF q = p /\ g = f THEN rest ELSE locks[q][g]
        /\ klock'[q][g] = IF q = p /\ g = f THEN NoLocks ELSE klock[q][g]
        /\ spoiled'[q][g] = IF q = p /\ g = f THEN s ELSE spoiled[q][g]
  BY <1>3 DEF LockInv, LockTypes
<1>7. \A q \in Proc, g \in File :
        IF q = p /\ g \in {f}
        THEN /\ locks'[q][g] = Others(locks[q][g], {h})
             /\ klock'[q][g] = NoLocks
             /\ ~spoiled'[q][g] => locks'[q][g] = << >>
        ELSE /\ locks'[q][g] = locks[q][g] /\ klock'[q][g] = klock[q][g]
             /\ spoiled'[q][g] = spoiled[q][g]
  <2> SUFFICES ASSUME NEW q \in Proc, NEW g \in File
               PROVE  IF q = p /\ g \in {f}
                      THEN /\ locks'[q][g] = Others(locks[q][g], {h})
                           /\ klock'[q][g] = NoLocks
                           /\ ~spoiled'[q][g] => locks'[q][g] = << >>
                      ELSE /\ locks'[q][g] = locks[q][g] /\ klock'[q][g] = klock[q][g]
                           /\ spoiled'[q][g] = spoiled[q][g]
    OBVIOUS
  <2>1. CASE q = p /\ g = f
    <3>1. locks'[q][g] = rest /\ klock'[q][g] = NoLocks /\ spoiled'[q][g] = s
      BY <1>6, <2>1
    <3> QED BY <2>1, <3>1
  <2>2. CASE ~(q = p /\ g = f)
    BY <1>6, <2>2
  <2> QED BY <2>1, <2>2
<1>8. \A q \in Proc, g \in Handle : fh[q][g].fd =>
        IF q = p /\ g \in {h} THEN fh[q][g].file \in {f}
        ELSE fh'[q][g].fd /\ fh'[q][g].file = fh[q][g].file
  OBVIOUS
<1> PICK hit \in SUBSET File : hit = {f}
  OBVIOUS
<1> PICK gone : gone = {h}
  OBVIOUS
<1>9. ListsOf(p, hit, gone)
  BY <1>7 DEF ListsOf
<1>10. HandlesOf(p, hit, gone)
  BY <1>8 DEF HandlesOf
<1> QED BY <1>5, <1>9, <1>10, ListsClosed

(* nw_close_file.                                                           *)
LEMMA CloseFileLocks ==
  ASSUME LockInv, OpenInv, NEW p \in Proc, NEW h \in Handle,
         NEW reset \in BOOLEAN, NEW t \in Task \cup {0}, CloseFile(p, h, reset, t)
  PROVE  LockInv'
<1>1. \A q \in Proc, g \in Handle : q # p \/ g # h => fh'[q][g] = fh[q][g]
  BY DEF CloseFile, OpenInv, HandleTypes
<1>2. CASE fh[p][h].fd
  <2> PICK f : f = fh[p][h].file
    OBVIOUS
  <2>1. f \in File
    BY <1>2 DEF OpenInv, CountCovers
  <2>2. CloseFd(p, f, h)
    BY <1>2 DEF CloseFile
  <2>3. fh[p][h].fd => fh[p][h].file = f
    OBVIOUS
  <2> QED BY <1>1, <2>1, <2>2, <2>3, CloseFdKeeps
<1>3. CASE ~fh[p][h].fd
  <2>1. UNCHANGED rvars
    BY <1>3 DEF CloseFile
  <2>2. UNCHANGED <<locks, klock, spoiled>> /\ dirty' \in [Proc -> BOOLEAN]
    BY <2>1 DEF rvars, LockInv, LockTypes
  <2>3. \A q \in Proc, g \in Handle : fh[q][g].fd => fh'[q][g].fd /\ fh'[q][g].file = fh[q][g].file
    BY <1>1, <1>3
  <2> QED BY <2>2, <2>3, LockFrame
<1> QED BY <1>2, <1>3

(* share_file refuses an open, and its descriptor is closed.                *)
LEMMA ShareAddLocks ==
  ASSUME LockInv, OpenInv, NEW p \in Proc, ShareAdd(p)
  PROVE  LockInv'
<1> PICK r : r = pend[p]
  OBVIOUS
<1>1. r \in Opening /\ IsOpening(p)
  BY OpeningIs DEF OpenInv, ShareAdd, IsOpening
<1>2. r.h \in Handle /\ r.file \in File
  BY <1>1 DEF Opening
<1>3. ~fh[p][r.h].fd
  BY <1>1 DEF OpenInv, OpensSound, Sound
<1>4. CASE Compatible(r.file, r.access)
  <2>1. UNCHANGED rvars /\ \A q \in Proc, g \in Handle : q # p \/ g # r.h => fh'[q][g] = fh[q][g]
    BY <1>4 DEF ShareAdd, OpenInv, HandleTypes
  <2>2. UNCHANGED <<locks, klock, spoiled>> /\ dirty' \in [Proc -> BOOLEAN]
    BY <2>1 DEF rvars, LockInv, LockTypes
  <2>3. \A q \in Proc, g \in Handle : fh[q][g].fd => fh'[q][g].fd /\ fh'[q][g].file = fh[q][g].file
    BY <1>3, <2>1
  <2> QED BY <2>2, <2>3, LockFrame
<1>5. CASE ~Compatible(r.file, r.access)
  <2> PICK f : f = r.file
    OBVIOUS
  <2> PICK h : h = r.h
    OBVIOUS
  <2>1. CloseFd(p, f, h) /\ fh' = fh
    BY <1>5 DEF ShareAdd
  <2>2. f \in File /\ h \in Handle /\ ~fh[p][h].fd
    BY <1>2, <1>3
  <2>3. \A q \in Proc, g \in Handle : q # p \/ g # h => fh'[q][g] = fh[q][g]
    BY <2>1
  <2>4. fh[p][h].fd => fh[p][h].file = f
    BY <2>2
  <2>5. CloseFd(p, f, h)
    BY <2>1
  <2> QED BY <2>2, <2>3, <2>4, <2>5, CloseFdKeeps
<1> QED BY <1>4, <1>5

(* init_file_module(task) closes the descriptors of the task.               *)
LEMMA EndOfTaskLocks ==
  ASSUME LockInv, OpenInv, NEW p \in Proc, NEW t \in Task, EndOfTask(p, t)
  PROVE  LockInv'
<1> PICK gone : gone = {h \in Handle : fh[p][h].fd /\ fh[p][h].task = t}
  OBVIOUS
<1> PICK hit : hit = {fh[p][h].file : h \in gone}
  OBVIOUS
<1> DEFINE rest(f) == IF f \in hit THEN Others(locks[p][f], gone) ELSE locks[p][f]
<1>1. hit \in SUBSET File
  BY DEF OpenInv, CountCovers
<1>2. \A f \in File : rest(f) \in Seq(Entry)
  BY OthersIs DEF LockInv, LockTypes
<1>3. /\ locks' = [locks EXCEPT ![p] = [f \in File |-> rest(f)]]
      /\ klock' = [klock EXCEPT ![p] = [f \in File |-> IF f \in hit THEN NoLocks ELSE klock[p][f]]]
      /\ spoiled' = [spoiled EXCEPT ![p] =
                       [f \in File |-> IF f \in hit THEN rest(f) # << >> ELSE spoiled[p][f]]]
      /\ dirty' = [dirty EXCEPT ![p] = @ /\ \E f \in File : rest(f) # << >>]
  BY DEF EndOfTask
<1>4. NoLocks \in [Byte -> Modes]
  BY DEF NoLocks, Modes
<1>5. LockTypes'
  <2>1. locks' \in [Proc -> [File -> Seq(Entry)]]
    <3> HIDE DEF rest
    <3>1. [f \in File |-> rest(f)] \in [File -> Seq(Entry)]
      BY <1>2
    <3> QED BY <1>3, <3>1 DEF LockInv, LockTypes
  <2>2. klock' \in [Proc -> [File -> [Byte -> Modes]]]
    <3>1. [f \in File |-> IF f \in hit THEN NoLocks ELSE klock[p][f]] \in [File -> [Byte -> Modes]]
      BY <1>4 DEF LockInv, LockTypes
    <3> QED BY <1>3, <3>1 DEF LockInv, LockTypes
  <2>3. spoiled' \in [Proc -> [File -> BOOLEAN]]
    <3> PICK S \in [File -> BOOLEAN] :
           S = [f \in File |-> IF f \in hit THEN rest(f) # << >> ELSE spoiled[p][f]]
      <4>1. \A f \in File : spoiled[p][f] \in BOOLEAN
        BY DEF LockInv, LockTypes
      <4> HIDE DEF rest
      <4> QED BY <4>1
    <3> QED BY <1>3 DEF LockInv, LockTypes
  <2>4. dirty' \in [Proc -> BOOLEAN]
    <3> PICK d \in BOOLEAN : d = (dirty[p] /\ \E f \in File : rest(f) # << >>)
      OBVIOUS
    <3>1. dirty' = [dirty EXCEPT ![p] = d]
      BY <1>3
    <3> QED BY <3>1 DEF LockInv, LockTypes
  <2> QED BY <2>1, <2>2, <2>3, <2>4 DEF LockTypes
<1>6. ListsOf(p, hit, gone)
  <2> SUFFICES ASSUME NEW q \in Proc, NEW f \in File
               PROVE  IF q = p /\ f \in hit
                      THEN /\ locks'[q][f] = Others(locks[q][f], gone)
                           /\ klock'[q][f] = NoLocks
                           /\ ~spoiled'[q][f] => locks'[q][f] = << >>
                      ELSE /\ locks'[q][f] = locks[q][f] /\ klock'[q][f] = klock[q][f]
                           /\ spoiled'[q][f] = spoiled[q][f]
    BY DEF ListsOf
  <2>1. CASE q # p
    BY <1>3, <2>1 DEF LockInv, LockTypes
  <2>2. CASE q = p
    <3>1. locks'[q][f] = rest(f)
      <4> HIDE DEF rest
      <4> QED BY <1>3, <2>2 DEF LockInv, LockTypes
    <3>2. klock'[q][f] = IF f \in hit THEN NoLocks ELSE klock[p][f]
      BY <1>3, <2>2 DEF LockInv, LockTypes
    <3>3. spoiled'[q][f] = IF f \in hit THEN rest(f) # << >> ELSE spoiled[p][f]
      <4> HIDE DEF rest
      <4> QED BY <1>3, <2>2 DEF LockInv, LockTypes
    <3> QED BY <2>2, <3>1, <3>2, <3>3
  <2> QED BY <2>1, <2>2
<1>7. HandlesOf(p, hit, gone)
  <2>1. \A q \in Proc, g \in Handle : ~(q = p /\ g \in gone) => fh'[q][g] = fh[q][g]
    BY DEF EndOfTask, OpenInv, HandleTypes
  <2>2. \A g \in gone : fh[p][g].file \in hit
    OBVIOUS
  <2> QED BY <2>1, <2>2 DEF HandlesOf
<1> HIDE DEF rest
<1> QED BY <1>1, <1>5, <1>6, <1>7, ListsClosed

(* A process closes all its handles.                                        *)
LEMMA DropHandlesLocks ==
  ASSUME LockInv, OpenInv, NEW p \in Proc, DropHandles(p)
  PROVE  LockInv'
<1>1. << >> \in Seq(Entry) /\ NoLocks \in [Byte -> Modes] /\ \A b \in Byte : NoLocks[b] = "none"
  BY DEF NoLocks, Modes
<1>2. LockTypes'
  <2>1. /\ [f \in File |-> << >>] \in [File -> Seq(Entry)]
        /\ [f \in File |-> NoLocks] \in [File -> [Byte -> Modes]]
        /\ [f \in File |-> FALSE] \in [File -> BOOLEAN]
    BY <1>1
  <2> QED BY <2>1 DEF DropHandles, LockInv, LockTypes
<1>3. /\ \A f \in File : locks'[p][f] = << >> /\ klock'[p][f] = NoLocks
      /\ \A q \in Proc \ {p}, f \in File : /\ locks'[q][f] = locks[q][f]
                                           /\ klock'[q][f] = klock[q][f]
                                           /\ spoiled'[q][f] = spoiled[q][f]
      /\ \A q \in Proc \ {p}, h \in Handle : fh'[q][h] = fh[q][h]
  BY DEF DropHandles, LockInv, LockTypes, OpenInv, HandleTypes
<1>4. EntriesLive'
  <2> SUFFICES ASSUME NEW q \in Proc, NEW f \in File, NEW n \in DOMAIN locks'[q][f]
               PROVE  fh'[q][locks'[q][f][n].fd].fd /\ fh'[q][locks'[q][f][n].fd].file = f
    BY DEF EntriesLive
  <2>1. q # p
    BY <1>3
  <2> PICK L : L = locks[q][f]
    OBVIOUS
  <2>2. locks'[q][f] = L /\ n \in DOMAIN L
    BY <1>3, <2>1
  <2>3. L \in Seq(Entry)
    BY DEF LockInv, LockTypes
  <2>4. L[n] \in Entry
    BY <2>2, <2>3
  <2>5. L[n].fd \in Handle
    BY <2>4 DEF Entry
  <2>6. fh[q][L[n].fd].fd /\ fh[q][L[n].fd].file = f
    BY <2>2 DEF LockInv, EntriesLive
  <2> QED BY <1>3, <2>1, <2>2, <2>5, <2>6
<1>5. KernelExclusive'
  <2>1. \A q \in Proc, f \in File, b \in Byte :
          klock'[q][f][b] = klock[q][f][b] \/ klock'[q][f][b] = "none"
    BY <1>1, <1>3
  <2>2. ASSUME NEW f \in File, NEW q \in Proc, NEW u \in Proc, q # u, NEW b \in Byte,
               klock'[q][f][b] = "wr"
        PROVE  klock'[u][f][b] = "none"
    <3>1. klock[q][f][b] = "wr"
      BY <2>1, <2>2
    <3>2. klock[u][f][b] = "none"
      BY <2>2, <3>1 DEF LockInv, KernelExclusive
    <3> QED BY <2>1, <3>2
  <2> QED BY <2>2 DEF KernelExclusive
<1>6. Held'
  <2> SUFFICES ASSUME NEW q \in Proc, NEW f \in File, ~spoiled'[q][f]
               PROVE  Disjoint(locks'[q][f]) /\ Holds(locks'[q][f], klock'[q][f])
    BY DEF Held
  <2>1. CASE q = p
    <3>1. locks'[q][f] = << >>
      BY <1>3, <2>1
    <3> QED BY <3>1 DEF Disjoint, Holds
  <2>2. CASE q # p
    BY <1>3, <2>2 DEF LockInv, Held
  <2> QED BY <2>1, <2>2
<1> QED BY <1>2, <1>4, <1>5, <1>6 DEF LockInv

(* The list position that share_lock searches.                              *)
LEMMA FindIs ==
  ASSUME NEW L \in Seq(Entry), NEW u \in BOOLEAN, NEW s, NEW l
  PROVE  Find(L, u, s, l) \in 1 .. Len(L) + 1
<1> DEFINE match(e) == \/ e.start - s < l
                       \/ l = 0 /\ (IF u THEN e.start = s ELSE e.start <= s)
           hits == {i \in DOMAIN L : match(L[i])}
<1>1. hits \in SUBSET Nat /\ hits \subseteq 1 .. Len(L) /\ Len(L) \in Nat
  OBVIOUS
<1>2. Find(L, u, s, l) = IF hits = {} THEN Len(L) + 1 ELSE Min(hits)
  BY DEF Find
<1> HIDE DEF hits
<1>3. CASE hits = {}
  BY <1>1, <1>2, <1>3
<1>4. CASE hits # {}
  <2>1. Min(hits) \in hits
    BY <1>1, <1>4, MinIs
  <2> PICK n : n = Min(hits)
    OBVIOUS
  <2>2. n \in 1 .. Len(L) + 1
    <3>1. n \in 1 .. Len(L)
      BY <1>1, <2>1
    <3> QED BY <1>1, <3>1
  <2>3. Find(L, u, s, l) = Min(hits)
    BY <1>2, <1>4
  <2> QED BY <2>2, <2>3
<1> QED BY <1>3, <1>4

(* A lock on bytes that no entry covers keeps the entries disjoint.         *)
LEMMA InsertHolds ==
  ASSUME NEW L \in Seq(Entry), NEW i \in 1 .. Len(L) + 1, NEW e \in Entry,
         NEW k, NEW m, Disjoint(L), Holds(L, k),
         \A j \in DOMAIN L : Covers(L[j]) \cap Covers(e) = {},
         \A b \in Byte : m[b] = IF b \in Covers(e) THEN Mode(e.exclusive) ELSE k[b]
  PROVE  Disjoint(InsertAt(L, i, e)) /\ Holds(InsertAt(L, i, e), m)
<1>0. /\ DOMAIN InsertAt(L, i, e) = 1 .. Len(L) + 1
      /\ \A j \in 1 .. Len(L) + 1 :
           /\ j < i => InsertAt(L, i, e)[j] = L[j]
           /\ j = i => InsertAt(L, i, e)[j] = e
           /\ j > i => InsertAt(L, i, e)[j] = L[j - 1]
  BY InsertIs
<1> PICK M : M = InsertAt(L, i, e)
  OBVIOUS
<1> DEFINE at(j) == IF j < i THEN j ELSE j - 1
<1>1. DOMAIN M = 1 .. Len(L) + 1 /\ Len(L) \in Nat /\ DOMAIN L = 1 .. Len(L)
  BY <1>0
<1>1a. ASSUME NEW j \in 1 .. Len(L) + 1
      PROVE  M[j] = IF j < i THEN L[j] ELSE IF j = i THEN e ELSE L[j - 1]
  <2>1. /\ j < i => InsertAt(L, i, e)[j] = L[j]
        /\ j = i => InsertAt(L, i, e)[j] = e
        /\ j > i => InsertAt(L, i, e)[j] = L[j - 1]
    BY <1>0
  <2>2. j < i \/ j = i \/ j > i
    BY <1>1
  <2> QED BY <1>1, <2>1, <2>2
<1>2. ASSUME NEW j \in DOMAIN M
      PROVE  IF j = i THEN M[j] = e ELSE at(j) \in DOMAIN L /\ M[j] = L[at(j)]
  <2>1. M[j] = IF j < i THEN L[j] ELSE IF j = i THEN e ELSE L[j - 1]
    BY <1>1a, <1>1
  <2>2. j # i => at(j) \in DOMAIN L
    BY <1>1
  <2> QED BY <2>1, <2>2
<1>3. \A j, n \in DOMAIN M : j # n /\ j # i /\ n # i => at(j) # at(n)
  BY <1>1
<1> HIDE DEF at
<1>4. Disjoint(M)
  <2> SUFFICES ASSUME NEW j \in DOMAIN M, NEW n \in DOMAIN M, j # n
               PROVE  Covers(M[j]) \cap Covers(M[n]) = {}
    BY DEF Disjoint
  <2>1. CASE j = i
    BY <1>2, <2>1
  <2>2. CASE n = i
    BY <1>2, <2>2
  <2>3. CASE j # i /\ n # i
    <3>1. at(j) \in DOMAIN L /\ at(n) \in DOMAIN L /\ at(j) # at(n)
      BY <1>2, <1>3, <2>3
    <3>2. M[j] = L[at(j)] /\ M[n] = L[at(n)]
      BY <1>2, <2>3
    <3> QED BY <3>1, <3>2 DEF Disjoint
  <2> QED BY <2>1, <2>2, <2>3
<1>5. Holds(M, m)
  <2> SUFFICES ASSUME NEW j \in DOMAIN M, NEW b \in Covers(M[j])
               PROVE  m[b] = Mode(M[j].exclusive)
    BY DEF Holds
  <2>0. b \in Byte
    BY DEF Covers, Bytes
  <2>1. CASE j = i
    BY <1>2, <2>0, <2>1
  <2>2. CASE j # i
    <3>1. at(j) \in DOMAIN L /\ M[j] = L[at(j)]
      BY <1>2, <2>2
    <3>2. b \notin Covers(e)
      BY <3>1
    <3>3. k[b] = Mode(L[at(j)].exclusive)
      BY <3>1 DEF Holds
    <3> QED BY <2>0, <3>1, <3>2, <3>3
  <2> QED BY <2>1, <2>2
<1> QED BY <1>4, <1>5

(* What an entry covers may be unlocked with it: no other one covers it.    *)
LEMMA RemoveHolds ==
  ASSUME NEW L \in Seq(Entry), NEW i \in 1 .. Len(L), NEW k, NEW m, Disjoint(L), Holds(L, k),
         \A b \in Byte : b \notin Covers(L[i]) => m[b] = k[b]
  PROVE  Disjoint(RemoveAt(L, i)) /\ Holds(RemoveAt(L, i), m)
<1> PICK M : M = RemoveAt(L, i)
  OBVIOUS
<1> DEFINE at(j) == IF j < i THEN j ELSE j + 1
<1>1. DOMAIN M = 1 .. Len(L) - 1 /\ Len(L) \in Nat /\ DOMAIN L = 1 .. Len(L)
  BY RemoveIs
<1>2. ASSUME NEW j \in DOMAIN M
      PROVE  at(j) \in DOMAIN L /\ at(j) # i /\ M[j] = L[at(j)]
  <2>1. M[j] = IF j < i THEN L[j] ELSE L[j + 1]
    BY <1>1, RemoveIs
  <2>2. at(j) \in DOMAIN L /\ at(j) # i
    BY <1>1
  <2> QED BY <2>1, <2>2
<1>3. \A j, n \in DOMAIN M : j # n => at(j) # at(n)
  BY <1>1
<1> HIDE DEF at
<1>4. Disjoint(M)
  BY <1>2, <1>3 DEF Disjoint
<1>5. Holds(M, m)
  <2> SUFFICES ASSUME NEW j \in DOMAIN M, NEW b \in Covers(M[j])
               PROVE  m[b] = Mode(M[j].exclusive)
    BY DEF Holds
  <2>1. b \in Byte
    BY DEF Covers, Bytes
  <2>2. b \notin Covers(L[i])
    <3>1. Covers(L[at(j)]) \cap Covers(L[i]) = {}
      BY <1>1, <1>2 DEF Disjoint
    <3> QED BY <1>2, <3>1
  <2>3. k[b] = Mode(L[at(j)].exclusive)
    BY <1>2 DEF Holds
  <2> QED BY <1>2, <2>1, <2>2, <2>3
<1> QED BY <1>4, <1>5

(* A step that sets the list, the kernel's locks and the mark of one file,  *)
(* and what LockInv needs of them.                                          *)
SetStep(p, f, M, k, y) ==
  /\ locks' = [locks EXCEPT ![p][f] = M]
  /\ klock' = [klock EXCEPT ![p][f] = k]
  /\ spoiled' = [spoiled EXCEPT ![p][f] = y]
  /\ fh' = fh
Fits(p, f, M, k, y) ==
  /\ \A i \in DOMAIN M : fh[p][M[i].fd].fd /\ fh[p][M[i].fd].file = f
  /\ \A q \in Proc \ {p}, b \in Byte :
       /\ k[b] = "wr" => klock[q][f][b] = "none"
       /\ klock[q][f][b] = "wr" => k[b] = "none"
  /\ ~y => Disjoint(M) /\ Holds(M, k)

(* One list and the kernel's locks of one file change.                      *)
LEMMA ListSet ==
  ASSUME LockInv, NEW p \in Proc, NEW f \in File, dirty' \in [Proc -> BOOLEAN],
         NEW M \in Seq(Entry), NEW k \in [Byte -> Modes], NEW y \in BOOLEAN,
         SetStep(p, f, M, k, y), Fits(p, f, M, k, y)
  PROVE  LockInv'
<1>0. \A q \in Proc, g \in File :
        /\ locks'[q][g] = IF q = p /\ g = f THEN M ELSE locks[q][g]
        /\ klock'[q][g] = IF q = p /\ g = f THEN k ELSE klock[q][g]
        /\ spoiled'[q][g] = IF q = p /\ g = f THEN y ELSE spoiled[q][g]
  BY DEF SetStep, LockInv, LockTypes
<1>1. LockTypes'
  BY DEF SetStep, LockInv, LockTypes
<1>2. EntriesLive'
  <2> SUFFICES ASSUME NEW q \in Proc, NEW g \in File, NEW i \in DOMAIN locks'[q][g]
               PROVE  fh'[q][locks'[q][g][i].fd].fd /\ fh'[q][locks'[q][g][i].fd].file = g
    BY DEF EntriesLive
  <2>0. fh' = fh
    BY DEF SetStep
  <2>1. CASE q = p /\ g = f
    BY <1>0, <2>0, <2>1 DEF Fits
  <2>2. CASE ~(q = p /\ g = f)
    <3>1. locks'[q][g] = locks[q][g]
      BY <1>0, <2>2
    <3>2. i \in DOMAIN locks[q][g]
      BY <3>1
    <3>3. fh[q][locks[q][g][i].fd].fd /\ fh[q][locks[q][g][i].fd].file = g
      BY <3>2 DEF LockInv, EntriesLive
    <3> QED BY <2>0, <3>1, <3>3
  <2> QED BY <2>1, <2>2
<1>3. KernelExclusive'
  <2> SUFFICES ASSUME NEW g \in File, NEW q \in Proc, NEW u \in Proc, q # u, NEW b \in Byte,
                      klock'[q][g][b] = "wr"
               PROVE  klock'[u][g][b] = "none"
    BY DEF KernelExclusive
  <2>1. CASE g = f /\ q = p
    BY <1>0, <2>1 DEF Fits
  <2>2. CASE g = f /\ u = p
    BY <1>0, <2>2 DEF Fits
  <2>3. CASE g # f \/ (q # p /\ u # p)
    BY <1>0, <2>3 DEF LockInv, KernelExclusive
  <2> QED BY <2>1, <2>2, <2>3
<1>4. Held'
  <2> SUFFICES ASSUME NEW q \in Proc, NEW g \in File, ~spoiled'[q][g]
               PROVE  Disjoint(locks'[q][g]) /\ Holds(locks'[q][g], klock'[q][g])
    BY DEF Held
  <2>1. CASE q = p /\ g = f
    BY <1>0, <2>1 DEF Fits
  <2>2. CASE ~(q = p /\ g = f)
    BY <1>0, <2>2 DEF LockInv, Held
  <2> QED BY <2>1, <2>2
<1> QED BY <1>1, <1>2, <1>3, <1>4 DEF LockInv

(* What LockRecord does, in terms of the file and of the entry.             *)
NewMode(p, f, e) ==
  [b \in Byte |-> IF b \in Covers(e) THEN Mode(e.exclusive) ELSE klock[p][f][b]]
Overlaps(p, f, e) == \E j \in DOMAIN locks[p][f] : Covers(locks[p][f][j]) \cap Covers(e) # {}
LockStep(p, f, e, i) ==
  /\ fh[p][e.fd].fd /\ fh[p][e.fd].file = f
  /\ ~Conflict(p, f, Covers(e), e.exclusive)
  /\ i \in 1 .. Len(locks[p][f]) + 1
  /\ locks' = [locks EXCEPT ![p][f] = InsertAt(locks[p][f], i, e)]
  /\ klock' = [klock EXCEPT ![p][f] = NewMode(p, f, e)]
  /\ spoiled' = [spoiled EXCEPT ![p][f] = spoiled[p][f] \/ Overlaps(p, f, e)]
  /\ dirty' = dirty /\ fh' = fh

(* share_lock is such a step, whichever entry it adds or changes.          *)
LEMMA LockRecordIs ==
  ASSUME LockInv, OpenInv, NEW p \in Proc, NEW h \in Handle, NEW s \in Starts, NEW l \in Lens,
         NEW x \in BOOLEAN, LockRecord(p, h, s, l, x)
  PROVE  \E f \in File, e \in Entry, i \in Nat : LockStep(p, f, e, i)
<1> DEFINE f == fh[p][h].file
           e == [start |-> s, len |-> l, fd |-> h, exclusive |-> x]
           i == Find(locks[p][f], FALSE, s, l)
<1>1. f \in File /\ fh[p][h].fd
  BY DEF LockRecord, OpenInv, CountCovers
<1>2. e \in Entry /\ e.fd = h /\ e.exclusive = x
  BY DEF Entry
<1>3. i \in 1 .. Len(locks[p][f]) + 1
  <2> PICK L : L = locks[p][f]
    OBVIOUS
  <2>1. L \in Seq(Entry)
    BY <1>1 DEF LockInv, LockTypes
  <2>2. Find(L, FALSE, s, l) \in 1 .. Len(L) + 1
    BY <2>1, FindIs
  <2> QED BY <2>2
<1>4. i \in Nat
  <2>1. Len(locks[p][f]) \in Nat
    BY <1>1 DEF LockInv, LockTypes
  <2> HIDE DEF i, f
  <2> QED BY <1>3, <2>1
<1>5. /\ ~Conflict(p, f, Covers(e), e.exclusive)
      /\ locks' = [locks EXCEPT ![p][f] = InsertAt(locks[p][f], i, e)]
      /\ klock' = [klock EXCEPT ![p][f] = NewMode(p, f, e)]
      /\ spoiled' = [spoiled EXCEPT ![p][f] = spoiled[p][f] \/ Overlaps(p, f, e)]
      /\ dirty' = dirty /\ fh' = fh
  BY DEF LockRecord, SetKernel, Mode, hvars, NewMode, Overlaps
<1>6. fh[p][e.fd].fd /\ fh[p][e.fd].file = f
  BY <1>1, <1>2
<1> HIDE DEF e, i, f
<1>7. LockStep(p, f, e, i)
  BY <1>3, <1>5, <1>6 DEF LockStep
<1> QED BY <1>1, <1>2, <1>4, <1>7

(* Every entry of a list with one inserted is that one or was in the list.  *)
LEMMA InsertEntries ==
  ASSUME NEW L \in Seq(Entry), NEW i \in 1 .. Len(L) + 1, NEW e \in Entry,
         NEW j \in DOMAIN InsertAt(L, i, e)
  PROVE  InsertAt(L, i, e)[j] = e \/ \E n \in DOMAIN L : InsertAt(L, i, e)[j] = L[n]
<1>0. /\ DOMAIN InsertAt(L, i, e) = 1 .. Len(L) + 1
      /\ \A n \in 1 .. Len(L) + 1 :
           /\ n < i => InsertAt(L, i, e)[n] = L[n]
           /\ n = i => InsertAt(L, i, e)[n] = e
           /\ n > i => InsertAt(L, i, e)[n] = L[n - 1]
  BY InsertIs
<1>1. /\ j \in 1 .. Len(L) + 1
      /\ j < i => InsertAt(L, i, e)[j] = L[j]
      /\ j = i => InsertAt(L, i, e)[j] = e
      /\ j > i => InsertAt(L, i, e)[j] = L[j - 1]
  BY <1>0
<1>2. DOMAIN L = 1 .. Len(L) /\ Len(L) \in Nat
  OBVIOUS
<1>3. CASE j < i
  <2>1. j \in DOMAIN L
    BY <1>1, <1>2, <1>3
  <2> QED BY <1>1, <1>3, <2>1
<1>4. CASE j = i
  BY <1>1, <1>4
<1>5. CASE j > i
  <2>1. j - 1 \in DOMAIN L
    BY <1>1, <1>2, <1>5
  <2> QED BY <1>1, <1>5, <2>1
<1>6. j < i \/ j = i \/ j > i
  BY <1>1, <1>2
<1> QED BY <1>3, <1>4, <1>5, <1>6

(* Every entry of a list with one removed was in the list.                  *)
LEMMA RemoveEntries ==
  ASSUME NEW L \in Seq(Entry), NEW i \in 1 .. Len(L), NEW j \in DOMAIN RemoveAt(L, i)
  PROVE  \E n \in DOMAIN L : RemoveAt(L, i)[j] = L[n]
<1>1. j \in 1 .. Len(L) - 1 /\ (RemoveAt(L, i)[j] = L[j] \/ RemoveAt(L, i)[j] = L[j + 1])
  BY RemoveIs
<1>2. DOMAIN L = 1 .. Len(L) /\ Len(L) \in Nat
  OBVIOUS
<1>3. j \in DOMAIN L /\ j + 1 \in DOMAIN L
  BY <1>1, <1>2
<1> QED BY <1>1, <1>3

(* share_lock: the kernel grants the range, and an overlap with an own lock *)
(* spoils the list.                                                         *)
LEMMA LockRecordKeeps ==
  ASSUME LockInv, NEW p \in Proc, NEW f \in File, NEW e \in Entry, NEW i \in Nat,
         LockStep(p, f, e, i)
  PROVE  LockInv'
<1> DEFINE k == NewMode(p, f, e)
           L == locks[p][f]
           y == spoiled[p][f] \/ Overlaps(p, f, e)
           M == InsertAt(L, i, e)
<1>1. L \in Seq(Entry) /\ \A j \in DOMAIN L : fh[p][L[j].fd].fd /\ fh[p][L[j].fd].file = f
  BY DEF LockInv, LockTypes, EntriesLive
<1>2. k \in [Byte -> Modes]
      /\ \A b \in Byte : k[b] = IF b \in Covers(e) THEN Mode(e.exclusive) ELSE klock[p][f][b]
  BY DEF LockInv, LockTypes, Modes, Mode, NewMode
<1>3. locks' = [locks EXCEPT ![p][f] = M] /\ klock' = [klock EXCEPT ![p][f] = k]
      /\ spoiled' = [spoiled EXCEPT ![p][f] = y] /\ i \in 1 .. Len(L) + 1
      /\ dirty' = dirty /\ fh' = fh /\ fh[p][e.fd].fd /\ fh[p][e.fd].file = f
  BY DEF LockStep
<1>4. \A q \in Proc \ {p}, b \in Byte :
        /\ k[b] = "wr" => klock[q][f][b] = "none"
        /\ klock[q][f][b] = "wr" => k[b] = "none"
  <2> SUFFICES ASSUME NEW q \in Proc \ {p}, NEW b \in Byte
               PROVE  /\ k[b] = "wr" => klock[q][f][b] = "none"
                      /\ klock[q][f][b] = "wr" => k[b] = "none"
    OBVIOUS
  <2> HIDE DEF k
  <2>1. CASE b \notin Covers(e)
    BY <1>2, <2>1 DEF LockInv, KernelExclusive
  <2>2. CASE b \in Covers(e)
    <3>1. klock[q][f][b] # "wr" /\ (e.exclusive => klock[q][f][b] # "rd")
      BY <2>2 DEF Conflict, LockStep
    <3>2. klock[q][f][b] \in Modes
      BY DEF LockInv, LockTypes
    <3>3. k[b] = Mode(e.exclusive)
      BY <1>2, <2>2
    <3> QED BY <3>1, <3>2, <3>3 DEF Modes, Mode
  <2> QED BY <2>1, <2>2
<1>5. y \in BOOLEAN /\ (~y => ~spoiled[p][f] /\ \A j \in DOMAIN L : Covers(L[j]) \cap Covers(e) = {})
  BY DEF LockInv, LockTypes, Overlaps
<1>6. ~spoiled[p][f] => Disjoint(L) /\ Holds(L, klock[p][f])
  BY DEF LockInv, Held
<1> HIDE DEF k, L, y
<1>7. M \in Seq(Entry)
  BY <1>1, <1>3, InsertIs
<1>8. \A j \in DOMAIN M : fh[p][M[j].fd].fd /\ fh[p][M[j].fd].file = f
  <2>1. \A j \in DOMAIN M : M[j] = e \/ \E n \in DOMAIN L : M[j] = L[n]
    BY <1>1, <1>3, InsertEntries
  <2> HIDE DEF M
  <2> QED BY <1>1, <1>3, <2>1
<1>9. ~y => Disjoint(M) /\ Holds(M, k)
  <2> SUFFICES ASSUME ~y PROVE Disjoint(M) /\ Holds(M, k)
    OBVIOUS
  <2>1. Disjoint(L) /\ Holds(L, klock[p][f]) /\ \A j \in DOMAIN L : Covers(L[j]) \cap Covers(e) = {}
    BY <1>5, <1>6
  <2> QED BY <1>1, <1>2, <1>3, <2>1, InsertHolds
<1>10. dirty' \in [Proc -> BOOLEAN] /\ fh' = fh
  BY <1>3 DEF LockInv, LockTypes
<1> HIDE DEF M
<1>11. SetStep(p, f, M, k, y)
  BY <1>3 DEF SetStep
<1>12. Fits(p, f, M, k, y)
  BY <1>4, <1>8, <1>9 DEF Fits
<1> QED BY <1>2, <1>5, <1>7, <1>10, <1>11, <1>12, ListSet

(* What UnlockRecord does, in terms of the file and of the entry.           *)
Without(p, f, e) ==
  [b \in Byte |-> IF b \in Covers(e) THEN "none" ELSE klock[p][f][b]]
UnlockStep(p, f, i) ==
  /\ i \in 1 .. Len(locks[p][f])
  /\ locks' = [locks EXCEPT ![p][f] = RemoveAt(locks[p][f], i)]
  /\ klock' = [klock EXCEPT ![p][f] = Without(p, f, locks[p][f][i])]
  /\ spoiled' = [spoiled EXCEPT ![p][f] = @ /\ Len(locks[p][f]) > 1]
  /\ dirty' = [dirty EXCEPT ![p] = @ /\ Len(locks[p][f]) > 1] /\ fh' = fh

(* The step of an unlock.                                                   *)
LEMMA UnlockRecordIs ==
  ASSUME LockInv, OpenInv, NEW p \in Proc, NEW h \in Handle, NEW s \in Starts, NEW l \in Lens,
         UnlockRecord(p, h, s, l)
  PROVE  \E f \in File, i \in Nat : UnlockStep(p, f, i)
<1> DEFINE f == fh[p][h].file
           i == Find(locks[p][f], TRUE, s, l)
<1>1. f \in File
  BY DEF UnlockRecord, OpenInv, CountCovers
<1>2. i \in 1 .. Len(locks[p][f])
  <2> PICK L : L = locks[p][f]
    OBVIOUS
  <2>1. L \in Seq(Entry)
    BY <1>1 DEF LockInv, LockTypes
  <2>2. Find(L, TRUE, s, l) \in 1 .. Len(L) + 1
    BY <2>1, FindIs
  <2>3. Find(L, TRUE, s, l) <= Len(L)
    BY DEF UnlockRecord
  <2>4. Len(L) \in Nat
    BY <2>1, SMTT(30)
  <2>5. \A m \in Nat : \A n \in 1 .. m + 1 : n <= m => n \in 1 .. m
    OBVIOUS
  <2>6. Find(L, TRUE, s, l) \in 1 .. Len(L)
    BY <2>2, <2>3, <2>4, <2>5
  <2> QED BY <2>6
<1>3. i \in Nat
  <2>1. Len(locks[p][f]) \in Nat
    BY <1>1 DEF LockInv, LockTypes
  <2> HIDE DEF i, f
  <2> QED BY <1>2, <2>1
<1>4. /\ locks' = [locks EXCEPT ![p][f] = RemoveAt(locks[p][f], i)]
      /\ klock' = [klock EXCEPT ![p][f] = Without(p, f, locks[p][f][i])]
      /\ spoiled' = [spoiled EXCEPT ![p][f] = @ /\ Len(locks[p][f]) > 1]
      /\ dirty' = [dirty EXCEPT ![p] = @ /\ Len(locks[p][f]) > 1] /\ fh' = fh
  BY DEF UnlockRecord, SetKernel, Unlocked, Without, hvars
<1> HIDE DEF i, f
<1>5. UnlockStep(p, f, i)
  BY <1>2, <1>4 DEF UnlockStep
<1> QED BY <1>1, <1>3, <1>5

(* share_unlock: the entry of the request goes, and its bytes are unlocked. *)
LEMMA UnlockRecordKeeps ==
  ASSUME LockInv, NEW p \in Proc, NEW f \in File, NEW i \in Nat, UnlockStep(p, f, i)
  PROVE  LockInv'
<1> DEFINE L == locks[p][f]
           k == Without(p, f, L[i])
           y == spoiled[p][f] /\ Len(L) > 1
           M == RemoveAt(L, i)
<1>1. /\ L \in Seq(Entry) /\ Len(L) \in Nat
      /\ \A j \in DOMAIN L : fh[p][L[j].fd].fd /\ fh[p][L[j].fd].file = f
  BY DEF LockInv, LockTypes, EntriesLive
<1>2. k \in [Byte -> Modes]
      /\ \A b \in Byte : k[b] = IF b \in Covers(L[i]) THEN "none" ELSE klock[p][f][b]
  BY DEF LockInv, LockTypes, Modes, Without
<1>3. locks' = [locks EXCEPT ![p][f] = M] /\ klock' = [klock EXCEPT ![p][f] = k]
      /\ spoiled' = [spoiled EXCEPT ![p][f] = y] /\ i \in 1 .. Len(L) /\ fh' = fh
  BY DEF UnlockStep
<1>4. dirty' \in [Proc -> BOOLEAN]
  <2> PICK d \in BOOLEAN : d = (dirty[p] /\ Len(L) > 1)
    OBVIOUS
  <2>1. dirty' = [dirty EXCEPT ![p] = d]
    BY DEF UnlockStep
  <2> QED BY <2>1 DEF LockInv, LockTypes
<1>5. y \in BOOLEAN /\ (~y => ~spoiled[p][f] \/ ~(Len(L) > 1))
  BY DEF LockInv, LockTypes
<1>6. ~spoiled[p][f] => Disjoint(L) /\ Holds(L, klock[p][f])
  BY DEF LockInv, Held
<1>7. \A q \in Proc \ {p}, b \in Byte :
        /\ k[b] = "wr" => klock[q][f][b] = "none"
        /\ klock[q][f][b] = "wr" => k[b] = "none"
  <2> HIDE DEF k, L
  <2> QED BY <1>2 DEF LockInv, KernelExclusive
<1> HIDE DEF k, L, y
<1>8. M \in Seq(Entry) /\ DOMAIN M = 1 .. Len(L) - 1
  BY <1>1, <1>3, RemoveIs
<1>9. \A j \in DOMAIN M : fh[p][M[j].fd].fd /\ fh[p][M[j].fd].file = f
  <2>1. \A j \in DOMAIN M : \E n \in DOMAIN L : M[j] = L[n]
    BY <1>1, <1>3, RemoveEntries
  <2> HIDE DEF M
  <2> QED BY <1>1, <2>1
<1>10. ~y => Disjoint(M) /\ Holds(M, k)
  <2> SUFFICES ASSUME ~y PROVE Disjoint(M) /\ Holds(M, k)
    OBVIOUS
  <2>1. CASE ~spoiled[p][f]
    <3>1. Disjoint(L) /\ Holds(L, klock[p][f])
      BY <1>6, <2>1
    <3>2. \A b \in Byte : b \notin Covers(L[i]) => k[b] = klock[p][f][b]
      BY <1>2
    <3> QED BY <1>1, <1>3, <3>1, <3>2, RemoveHolds
  <2>2. CASE ~(Len(L) > 1)
    <3> HIDE DEF M
    <3>1. DOMAIN M = {}
      BY <1>1, <1>8, <2>2
    <3> QED BY <3>1 DEF Disjoint, Holds
  <2> QED BY <1>5, <2>1, <2>2
<1> HIDE DEF M
<1>11. SetStep(p, f, M, k, y)
  BY <1>3 DEF SetStep
<1>12. Fits(p, f, M, k, y)
  BY <1>7, <1>9, <1>10 DEF Fits
<1> QED BY <1>2, <1>4, <1>5, <1>8, <1>11, <1>12, ListSet

(* A change of a file leaves the locks alone.                               *)
LEMMA ChangeIs ==
  ASSUME LockInv, NEW p \in Proc, NEW f, NEW B, Change(p, f, B)
  PROVE  dirty' \in [Proc -> BOOLEAN]
<1> DEFINE d(q) == \/ dirty[q]
                   \/ /\ q # p
                      /\ \E i \in DOMAIN locks[q][f] : /\ locks[q][f][i].exclusive
                                                       /\ Covers(locks[q][f][i]) \cap B # {}
                                                       /\ ~spoiled[q][f]
<1>1. \A q \in Proc : d(q) \in BOOLEAN
  OBVIOUS
<1>2. dirty' = [q \in Proc |-> d(q)]
  BY DEF Change
<1> HIDE DEF d
<1> QED BY <1>1, <1>2

(* Every step keeps LockInv.                                                *)
LEMMA LockNext == OpenInv /\ LockInv /\ [Next]_vars => LockInv'
<1> SUFFICES ASSUME OpenInv, LockInv, [Next]_vars PROVE LockInv'
  OBVIOUS
<1>1. CASE UNCHANGED <<fh, locks, klock, spoiled>> /\ dirty' \in [Proc -> BOOLEAN]
  BY <1>1, LockFrame
<1>2. CASE UNCHANGED <<fh, rvars>>
  <2>1. UNCHANGED <<fh, locks, klock, spoiled>> /\ dirty' \in [Proc -> BOOLEAN]
    BY <1>2 DEF rvars, LockInv, LockTypes
  <2> QED BY <1>1, <2>1
<1>3. CASE UNCHANGED vars
  <2>1. UNCHANGED <<fh, rvars>>
    BY <1>3 DEF vars, rvars
  <2> QED BY <1>2, <2>1
<1>4. CASE Next
  <2> PICK p \in Proc :
         \/ load # "logical" /\ FileRequest(p) /\ UNCHANGED lvars
         \/ load \in {"record", "io"} /\ RecordRequest(p) /\ UNCHANGED lvars
         \/ load = "io" /\ ChangeRequest(p) /\ UNCHANGED lvars
         \/ load = "logical" /\ LogicalRequest(p) /\ UNCHANGED <<hvars, pend, rvars>>
         \/ Logout(p)
         \/ Exit(p)
    BY <1>4 DEF Next
  <2>1. CASE FileRequest(p)
    <3>1. ASSUME NEW f \in File, NEW o \in Opens[load], NEW t \in Task,
                 OpenTest(p, f, o.access, o.creat, o.keep, t)
          PROVE  LockInv'
      <4> PICK h : h = NewHandle(p)
        OBVIOUS
      <4>1. h \in Handle /\ ~fh[p][h].fd
        BY <3>1, NewHandleIs DEF OpenInv, OpenTest
      <4>2. UNCHANGED <<locks, klock, spoiled>> /\ dirty' \in [Proc -> BOOLEAN]
        BY <3>1 DEF OpenTest, rvars, LockInv, LockTypes
      <4>3. \A q \in Proc, g \in Handle : q # p \/ g # h => fh'[q][g] = fh[q][g]
        BY <3>1 DEF OpenTest, OpenInv, HandleTypes
      <4>4. \A q \in Proc, g \in Handle : fh[q][g].fd => fh'[q][g].fd /\ fh'[q][g].file = fh[q][g].file
        BY <4>1, <4>3
      <4> QED BY <4>2, <4>4, LockFrame
    <3>2. CASE OpenFile(p)
      <4>1. dirty' \in [Proc -> BOOLEAN]
        <5>1. CASE UNCHANGED dirty
          BY <5>1 DEF LockInv, LockTypes
        <5>2. CASE Change(p, pend[p].file, Byte)
          <6> PICK f : f = pend[p].file
            OBVIOUS
          <6>1. Change(p, f, Byte)
            BY <5>2
          <6> QED BY <6>1, ChangeIs
        <5> QED BY <3>2, <5>1, <5>2 DEF OpenFile
      <4> QED BY <1>1, <3>2, <4>1 DEF OpenFile, hvars
    <3>3. CASE ShareAdd(p)
      BY <3>3, ShareAddLocks
    <3>4. CASE Refused(p)
      BY <1>2, <3>4 DEF Refused, hvars
    <3>5. CASE \E t \in Task : EndOfTask(p, t)
      BY <3>5, EndOfTaskLocks
    <3>6. CASE \E h \in Handle, reset \in BOOLEAN, t \in Task \cup {0} : CloseFile(p, h, reset, t)
      BY <3>6, CloseFileLocks
    <3> QED BY <2>1, <3>1, <3>2, <3>3, <3>4, <3>5, <3>6 DEF FileRequest
  <2>2. CASE RecordRequest(p)
    <3>1. ASSUME NEW h \in Handle, NEW s \in Starts, NEW l \in Lens, UnlockRecord(p, h, s, l)
          PROVE  LockInv'
      BY <3>1, UnlockRecordIs, UnlockRecordKeeps
    <3>2. ASSUME NEW h \in Handle, NEW s \in Starts, NEW l \in Lens, NEW x \in BOOLEAN,
                 LockRecord(p, h, s, l, x)
          PROVE  LockInv'
      BY <3>2, LockRecordIs, LockRecordKeeps
    <3> QED BY <2>2, <3>1, <3>2 DEF RecordRequest
  <2>3. CASE ChangeRequest(p)
    <3>1. CASE Write(p)
      <4> PICK f : f = pend[p].file
        OBVIOUS
      <4> PICK B : B = pend[p].bytes
        OBVIOUS
      <4>1. Change(p, f, B)
        BY <3>1 DEF Write
      <4>2. dirty' \in [Proc -> BOOLEAN]
        BY <4>1, ChangeIs
      <4> QED BY <1>1, <3>1, <4>2 DEF Write, hvars
    <3>2. ASSUME NEW h \in Handle, NEW s \in Starts,
                 \/ Truncate(p, h, s)
                 \/ \E l \in Lens : WriteTest(p, h, s, l) \/ ServerCopy(p, h, s, l)
          PROVE  LockInv'
      <4> PICK f : f = fh[p][h].file
        OBVIOUS
      <4>1. CASE Truncate(p, h, s)
        <5> PICK B : B = Bytes(s, 0)
          OBVIOUS
        <5>1. Change(p, f, B)
          BY <4>1 DEF Truncate
        <5>2. dirty' \in [Proc -> BOOLEAN]
          BY <5>1, ChangeIs
        <5> QED BY <1>1, <4>1, <5>2 DEF Truncate, hvars
      <4>2. ASSUME NEW l \in Lens, WriteTest(p, h, s, l)
            PROVE  LockInv'
        BY <1>2, <4>2 DEF WriteTest, hvars
      <4>3. ASSUME NEW l \in Lens, ServerCopy(p, h, s, l)
            PROVE  LockInv'
        <5> PICK B : B = Bytes(s, l)
          OBVIOUS
        <5>1. Change(p, f, B)
          BY <4>3 DEF ServerCopy
        <5>2. dirty' \in [Proc -> BOOLEAN]
          BY <5>1, ChangeIs
        <5> QED BY <1>1, <4>3, <5>2 DEF ServerCopy, hvars
      <4> QED BY <3>2, <4>1, <4>2, <4>3
    <3> QED BY <2>3, <3>1, <3>2 DEF ChangeRequest
  <2>4. CASE UNCHANGED <<hvars, pend, rvars>>
    BY <1>2, <2>4 DEF hvars
  <2>5. CASE Logout(p) \/ Exit(p)
    <3>1. DropHandles(p)
      BY <2>5 DEF Logout, Exit
    <3> QED BY <3>1, DropHandlesLocks
  <2> QED BY <2>1, <2>2, <2>3, <2>4, <2>5
<1> QED BY <1>3, <1>4

(* LockInv holds in every state.                                            *)
LEMMA LockAlways == Spec => []LockInv
BY OpenAlways, LockInit, LockNext, PTL DEF Spec

(* Every entry of a lock list names a descriptor that is open on that file: *)
(* a closed descriptor's number is given to another file, whose locks the   *)
(* entry would then unlock (nwfile.c:652, nwfile.c:134, nwfile.c:483).      *)
THEOREM LockEntriesLive == Spec => []EntriesLive
<1>1. LockInv => EntriesLive
  BY DEF LockInv
<1> QED BY <1>1, LockAlways, PTL

(* The record locks two processes have in their lists (nwshare.c:480)       *)
(* exclude each other, unless one of them spoiled its own.                  *)
THEOREM RecordLocks == Spec => []RecordExclusive
<1>1. LockInv => RecordExclusive
  <2> SUFFICES ASSUME LockInv, NEW f \in File, NEW p \in Proc, NEW q \in Proc,
                      p # q, ~spoiled[p][f], ~spoiled[q][f],
                      NEW i \in DOMAIN locks[p][f], NEW j \in DOMAIN locks[q][f],
                      NEW b \in Covers(locks[p][f][i]) \cap Covers(locks[q][f][j])
               PROVE  ~locks[p][f][i].exclusive /\ ~locks[q][f][j].exclusive
    BY SMTT(30) DEF RecordExclusive
  <2>1. klock[p][f][b] = Mode(locks[p][f][i].exclusive)
        /\ klock[q][f][b] = Mode(locks[q][f][j].exclusive)
    BY DEF LockInv, Held, Holds
  <2>2. b \in Byte
    BY DEF Covers, Bytes
  <2>3. (klock[p][f][b] = "wr" => klock[q][f][b] = "none")
        /\ (klock[q][f][b] = "wr" => klock[p][f][b] = "none")
    BY <2>2 DEF LockInv, KernelExclusive
  <2> QED BY <2>1, <2>3 DEF Mode
<1> QED BY <1>1, LockAlways, PTL

(* Type correctness.                                                        *)
THEOREM TypeCorrect == Spec => []TypeOK
<1>1. OpenInv /\ LockInv /\ LogInv => TypeOK
  BY DEF OpenInv, LockInv, LogInv, TypeOK
<1> QED BY <1>1, OpenAlways, LockAlways, LogInit, LogNext, PTL DEF Spec

=============================================================================
