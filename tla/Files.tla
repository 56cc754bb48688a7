-------------------------------- MODULE Files --------------------------------
(***************************************************************************)
(* File handles, record locks and logical records of the connection         *)
(* processes (src/src/nwfile.c, the second half of src/src/nwshare.c).       *)
(*                                                                         *)
(* Each nwconn process keeps its handle table, a list of the record locks it *)
(* has set (ShareLock) and a list of the logical records it holds           *)
(* (LOCK_FILE, LOCK_AREA), in its own memory.  What keeps two processes      *)
(* apart are POSIX record locks, which the kernel keeps per process and      *)
(* inode: closing ANY descriptor of an inode drops them all.                 *)
(*                                                                         *)
(* Share modes are decided in one step, which ShareFile shows to be what     *)
(* share_file does.  A byte stands for a range of offsets that requests do   *)
(* not tell apart; the last one stands for the rest of the file.  Pipes,     *)
(* read-only volumes, memory-mapped reads and access rights are left out.    *)
(* load is what the clients of a behaviour do: opens of all kinds, record    *)
(* locks, changes of locked files, or logical records, which share no state  *)
(* with the rest.                                                            *)
(***************************************************************************)
EXTENDS Integers, Sequences, FiniteSets, FiniteSetsExt, SequencesExt

CONSTANTS
  Proc,            \* connection processes
  File,            \* inodes
  Task,            \* task numbers of a client
  Opens,           \* the opens of each load: access (a set of "or", "ow", "dr",
                   \* "dw"), creat, keep (creatmode & 4: reserve the handle)
  MaxFileHandles,  \* MAX_FILE_HANDLES_CONN
  Top,             \* the last byte
  Starts,          \* offsets of record locks
  Lens,            \* lengths of record locks, 0 is "up to the end"
  MaxLocks,        \* bound on the record locks of all processes, for each load
  MaxCount,        \* bound on the shared locks of a process on a logical record
  Rec,             \* logical records
  LockFile,        \* LockFile[r]: the lock file of record r, from its name
  NoFile

Load == {"open", "record", "io", "logical"}
Access == {"or", "ow", "dr", "dw"}

ASSUME FilesConstants ==
  /\ MaxFileHandles \in Nat \ {0} /\ Top \in Nat /\ MaxCount \in Nat \ {0}
  /\ Starts \subseteq 0..Top /\ Lens \subseteq Nat
  /\ 0 \notin Task /\ NoFile \notin File
  /\ Opens \in [Load -> SUBSET [access : SUBSET Access, creat : BOOLEAN, keep : BOOLEAN]]

VARIABLES
  load,     \* what the clients do: "open", "record", "io" or "logical"
  fh,       \* file_handles of every process
  count,    \* count_fhandles
  last,     \* last_fhandle, capped at MaxFileHandles
  pend,     \* the request a process is in the middle of
  locks,    \* first_lock of every process and inode
  klock,    \* the kernel's record locks: process, inode, byte
  spoiled,  \* the process closed or unlocked beneath a lock it still lists
  dirty,    \* bytes a process holds exclusively were changed by another one
  areas,    \* logical records of every process: locks, exclusive
  klog      \* the kernel's locks on the lock files

hvars == <<fh, count, last>>
rvars == <<locks, klock, spoiled, dirty>>
lvars == <<areas, klog>>
vars == <<load, fh, count, last, pend, locks, klock, spoiled, dirty, areas, klog>>

Handle == 1..MaxFileHandles
Byte == 0..Top
Modes == {"none", "rd", "wr"}

FreeHandle == [fd |-> FALSE, keep |-> FALSE, task |-> 0, file |-> NoFile, access |-> {}]
Idle == [st |-> "idle"]
NoArea == [locks |-> 0, exclusive |-> FALSE]
NoLocks == [b \in Byte |-> "none"]

Bytes(start, len) == {b \in Byte : b >= start /\ (len = 0 \/ b < start + len)}
Covers(e) == Bytes(e.start, e.len)
Entry == [start : Starts, len : Lens, fd : Handle, exclusive : BOOLEAN]

-----------------------------------------------------------------------------
(* Handles                                                                  *)

Reusable(p, h) == ~fh[p][h].fd /\ ~fh[p][h].keep

(* new_file_handle: the slot it takes, 0 if there is none.                  *)
NewHandle(p) ==
  LET after == {h \in last[p] + 1 .. count[p] : Reusable(p, h)}
      all == {h \in 1 .. count[p] : Reusable(p, h)}
  IN CASE after # {} -> Min(after)
       [] after = {} /\ count[p] < MaxFileHandles -> count[p] + 1
       [] after = {} /\ count[p] = MaxFileHandles /\ all # {} -> Min(all)
       [] OTHER -> 0

Wraps(p) == /\ count[p] = MaxFileHandles
            /\ \A h \in last[p] + 1 .. count[p] : ~Reusable(p, h)

(* Share modes, over the handles of all processes.                          *)
Deny(b) == CASE b = "or" -> "dr" [] b = "dr" -> "or" [] b = "ow" -> "dw" [] b = "dw" -> "ow"
Compatible(f, access) ==
  \A q \in Proc, h \in Handle :
    fh[q][h].fd /\ fh[q][h].file = f => \A b \in access : Deny(b) \notin fh[q][h].access

(* The share modes of f have changed under every open that was tested.      *)
Raced(p, f) ==
  [q \in Proc |-> IF q # p /\ pend[q].st \in {"tested", "opened"} /\ pend[q].file = f
                  THEN [pend[q] EXCEPT !.raced = TRUE] ELSE pend[q]]

(* mutant: an open that creates the file is not tested.                     *)
TestedNotCreate(access, creat) == "ow" \in access /\ ~creat

(* dowrite: the opens that are tested before the file is touched.           *)
Tested(access, creat) == "ow" \in access \/ creat

(* file_creat_open up to the handle.                                        *)
OpenTest(p, f, access, creat, keep, task) ==
  LET h == NewHandle(p) IN
  /\ pend[p] = Idle
  /\ Tested(access, creat) => Compatible(f, access)
  /\ h # 0
  /\ count' = [count EXCEPT ![p] = Max({@, h})]
  /\ last' = [last EXCEPT ![p] = IF Wraps(p) THEN 1 ELSE Min({@ + 1, MaxFileHandles})]
  /\ pend' = [pend EXCEPT ![p] = [st |-> "tested", h |-> h, file |-> f, access |-> access,
                                  creat |-> creat, keep |-> keep, task |-> task,
                                  raced |-> FALSE, clipped |-> FALSE]]
  /\ fh' = [fh EXCEPT ![p][h] = [FreeHandle EXCEPT !.task = task]]
  /\ UNCHANGED rvars

(* p changes the bytes B of f: those who hold some of them locked.          *)
Change(p, f, B) ==
  dirty' = [q \in Proc |-> dirty[q] \/ /\ q # p
                                       /\ \E i \in DOMAIN locks[q][f] :
                                            /\ locks[q][f][i].exclusive
                                            /\ Covers(locks[q][f][i]) \cap B # {}
                                            /\ ~spoiled[q][f]]

(* open, with O_TRUNC if the file is created; as root, but it may fail.     *)
OpenFile(p) ==
  /\ pend[p].st = "tested"
  /\ \/ /\ pend' = [pend EXCEPT ![p].st = "opened", ![p].clipped = pend[p].creat]
        /\ IF pend[p].creat THEN Change(p, pend[p].file, Byte) ELSE UNCHANGED dirty
     \/ pend' = [pend EXCEPT ![p] = Idle] /\ UNCHANGED dirty
  /\ UNCHANGED <<hvars, locks, klock, spoiled>>

(* mutant: the entries of the descriptor stay in the list.                  *)
KeepEntries(p, f, h) == locks[p][f]

(* share_unlock_all: the entries of other descriptors, in their order.  The *)
(* n-th is the first with n entries to keep up to it.                       *)
Others(L, fds) ==
  LET kept == {i \in DOMAIN L : L[i].fd \notin fds}
  IN [n \in 1 .. Cardinality(kept) |-> L[Min({i \in kept : Cardinality(kept \cap (1 .. i)) >= n})]]

OtherEntries(p, f, h) == Others(locks[p][f], {h})

(* share_unlock_all and close: the kernel forgets all locks of p on f.      *)
CloseFd(p, f, h) ==
  LET rest == OtherEntries(p, f, h) IN
  /\ locks' = [locks EXCEPT ![p][f] = rest]
  /\ klock' = [klock EXCEPT ![p][f] = NoLocks]
  /\ spoiled' = [spoiled EXCEPT ![p][f] = rest # << >>]
  /\ dirty' = [dirty EXCEPT ![p] = @ /\ rest # << >>]

(* share_file adds the open, or refuses it and the descriptor is closed.    *)
ShareAdd(p) ==
  LET r == pend[p] IN
  /\ r.st = "opened"
  /\ IF Compatible(r.file, r.access)
     THEN /\ fh' = [fh EXCEPT ![p][r.h] = [fd |-> TRUE, keep |-> r.keep, task |-> r.task,
                                           file |-> r.file, access |-> r.access]]
          /\ pend' = [Raced(p, r.file) EXCEPT ![p] = Idle]
          /\ UNCHANGED rvars
     ELSE /\ pend' = [pend EXCEPT ![p] = [st |-> "refused", raced |-> r.raced, clipped |-> r.clipped]]
          /\ CloseFd(p, r.file, r.h)
          /\ UNCHANGED fh
  /\ UNCHANGED <<count, last>>

Refused(p) ==
  /\ pend[p].st = "refused"
  /\ pend' = [pend EXCEPT ![p] = Idle]
  /\ UNCHANGED <<hvars, rvars>>

(* nw_close_file: nothing happens if both tasks are set and differ.  A      *)
(* reserved handle stays reserved unless the caller resets it.              *)
CloseFile(p, h, reset, task) ==
  LET r == fh[p][h]
      keep == r.keep /\ ~reset
  IN
  /\ pend[p] = Idle /\ h <= count[p]
  /\ reset \/ r.task = task \/ r.task = 0 \/ task = 0
  /\ r.fd \/ keep # r.keep
  /\ fh' = [fh EXCEPT ![p][h] = [FreeHandle EXCEPT !.keep = keep, !.task = r.task]]
  /\ IF r.fd THEN CloseFd(p, r.file, h) ELSE UNCHANGED rvars
  /\ UNCHANGED <<count, last, pend>>

(* init_file_module(task): the open handles of a task.  All of them are     *)
(* closed in one request; a file open through two handles loses both.       *)
EndOfTask(p, task) ==
  LET gone == {h \in Handle : fh[p][h].fd /\ fh[p][h].task = task}
      hit == {fh[p][h].file : h \in gone}
      rest(f) == IF f \in hit THEN Others(locks[p][f], gone) ELSE locks[p][f]
  IN
  /\ pend[p] = Idle /\ gone # {}
  /\ fh' = [fh EXCEPT ![p] = [h \in Handle |-> IF h \in gone
              THEN [FreeHandle EXCEPT !.keep = fh[p][h].keep, !.task = task] ELSE fh[p][h]]]
  /\ locks' = [locks EXCEPT ![p] = [f \in File |-> rest(f)]]
  /\ klock' = [klock EXCEPT ![p] = [f \in File |-> IF f \in hit THEN NoLocks ELSE klock[p][f]]]
  /\ spoiled' = [spoiled EXCEPT ![p] = [f \in File |-> IF f \in hit THEN rest(f) # << >> ELSE spoiled[p][f]]]
  /\ dirty' = [dirty EXCEPT ![p] = @ /\ \E f \in File : rest(f) # << >>]
  /\ UNCHANGED <<count, last, pend>>

-----------------------------------------------------------------------------
(* Record locks                                                             *)

(* share_lock: the first entry that begins before the end of the range, as  *)
(* the list is searched; one behind the list if there is none.              *)
Find(L, unlock, start, len) ==
  LET match(e) == \/ e.start - start < len
                  \/ len = 0 /\ (IF unlock THEN e.start = start ELSE e.start <= start)
      hits == {i \in DOMAIN L : match(L[i])}
  IN IF hits = {} THEN Len(L) + 1 ELSE Min(hits)

(* The entry found overlaps, and one of the two is exclusive.               *)
OwnCollision(L, i, start, exclusive) ==
  /\ i <= Len(L)
  /\ start - L[i].start < L[i].len \/ L[i].len = 0
  /\ L[i].exclusive \/ exclusive

(* fcntl would refuse p a lock of this kind on B.                           *)
Conflict(p, f, B, exclusive) ==
  \E q \in Proc \ {p}, b \in B : klock[q][f][b] = "wr" \/ (exclusive /\ klock[q][f][b] = "rd")

SetKernel(p, f, B, mode) ==
  klock' = [klock EXCEPT ![p][f] = [b \in Byte |-> IF b \in B THEN mode ELSE @[b]]]

Listed == MapThenSumSet(LAMBDA p : MapThenSumSet(LAMBDA f : Len(locks[p][f]), File), Proc)

(* nw_log_physical_record with a lock flag.  A request that waits (timeout) *)
(* takes this step when the range comes free, or fails.                     *)
LockRecord(p, h, start, len, exclusive) ==
  LET f == fh[p][h].file
      L == locks[p][f]
      i == Find(L, FALSE, start, len)
      e == [start |-> start, len |-> len, fd |-> h, exclusive |-> exclusive]
  IN
  /\ pend[p] = Idle /\ fh[p][h].fd /\ Listed < MaxLocks[load]
  /\ ~OwnCollision(L, i, start, exclusive)
  /\ ~Conflict(p, f, Covers(e), exclusive)
  /\ SetKernel(p, f, Covers(e), IF exclusive THEN "wr" ELSE "rd")
  /\ locks' = [locks EXCEPT ![p][f] = InsertAt(L, i, e)]
  /\ spoiled' = [spoiled EXCEPT ![p][f] = @ \/ \E j \in DOMAIN L : Covers(L[j]) \cap Covers(e) # {}]
  /\ UNCHANGED <<hvars, pend, dirty>>

(* mutant: the kernel unlocks the range of the request, not of the entry.   *)
UnlockedByRequest(e, start, len) == Bytes(start, len)

(* The range that is unlocked: of the entry, the request may say length 0.  *)
Unlocked(e, start, len) == Covers(e)

(* nw_log_physical_record, unlock.                                          *)
UnlockRecord(p, h, start, len) ==
  LET f == fh[p][h].file
      L == locks[p][f]
      i == Find(L, TRUE, start, len)
  IN
  /\ pend[p] = Idle /\ fh[p][h].fd
  /\ i <= Len(L) /\ L[i].fd = h /\ L[i].start = start /\ (L[i].len = len \/ len = 0)
  /\ SetKernel(p, f, Unlocked(L[i], start, len), "none")
  /\ locks' = [locks EXCEPT ![p][f] = RemoveAt(L, i)]
  /\ spoiled' = [spoiled EXCEPT ![p][f] = @ /\ Len(L) > 1]
  /\ dirty' = [dirty EXCEPT ![p] = @ /\ Len(L) > 1]
  /\ UNCHANGED <<hvars, pend>>

(* nw_write_file tests the kernel's locks with F_GETLK, then writes.        *)
WriteTest(p, h, start, len) ==
  LET f == fh[p][h].file IN
  /\ pend[p] = Idle /\ fh[p][h].fd /\ "ow" \in fh[p][h].access /\ len # 0
  /\ ~Conflict(p, f, Bytes(start, len), TRUE)
  /\ pend' = [pend EXCEPT ![p] = [st |-> "writing", file |-> f, bytes |-> Bytes(start, len)]]
  /\ UNCHANGED <<hvars, rvars>>

Write(p) ==
  /\ pend[p].st = "writing"
  /\ Change(p, pend[p].file, pend[p].bytes)
  /\ pend' = [pend EXCEPT ![p] = Idle]
  /\ UNCHANGED <<hvars, locks, klock, spoiled>>

(* A write of size 0 truncates the file; nw_server_copy writes from the     *)
(* offset on.  Neither looks at the locks.                                  *)
Truncate(p, h, start) ==
  /\ pend[p] = Idle /\ fh[p][h].fd /\ "ow" \in fh[p][h].access
  /\ Change(p, fh[p][h].file, Bytes(start, 0))
  /\ UNCHANGED <<hvars, locks, klock, spoiled, pend>>

ServerCopy(p, h, start, len) ==
  /\ pend[p] = Idle /\ fh[p][h].fd /\ "ow" \in fh[p][h].access /\ len # 0
  /\ Change(p, fh[p][h].file, Bytes(start, len))
  /\ UNCHANGED <<hvars, locks, klock, spoiled, pend>>

-----------------------------------------------------------------------------
(* Logical records: one byte of a lock file each.                           *)

LogConflict(p, r, exclusive) ==
  \E q \in Proc \ {p} : klog[q][r] = "wr" \/ (exclusive /\ klog[q][r] = "rd")

(* nw_log_logical_record, lock flag 1 or 3.  A second exclusive lock is     *)
(* refused even to the holder, a second shared one is counted.              *)
LockLogical(p, r, exclusive) ==
  LET la == areas[p][r] IN
  /\ IF la = NoArea
     THEN /\ ~LogConflict(p, r, exclusive)
          /\ klog' = [klog EXCEPT ![p][r] = IF exclusive THEN "wr" ELSE "rd"]
     ELSE /\ ~la.exclusive /\ ~exclusive /\ la.locks < MaxCount
          /\ UNCHANGED klog
  /\ areas' = [areas EXCEPT ![p][r] = [locks |-> @.locks + 1, exclusive |-> exclusive]]

(* mutant: the lock file is closed with every area, not with the last one.  *)
CloseAlways(p, r) == {s \in Rec : LockFile[s] = LockFile[r]}

(* What the kernel forgets with the last lock of an area: the area, and the *)
(* rest of the lock file if that was the last one and the file is closed.   *)
Forgotten(p, r) ==
  LET same == {s \in Rec : LockFile[s] = LockFile[r]}
  IN IF \A s \in same \ {r} : areas[p][s] = NoArea THEN same ELSE {r}

UnlockLogical(p, r) ==
  LET la == areas[p][r] IN
  /\ la # NoArea
  /\ IF la.locks > 1
     THEN areas' = [areas EXCEPT ![p][r].locks = @ - 1] /\ UNCHANGED klog
     ELSE /\ areas' = [areas EXCEPT ![p][r] = NoArea]
          /\ klog' = [klog EXCEPT ![p] = [s \in Rec |-> IF s \in Forgotten(p, r) THEN "none" ELSE @[s]]]

-----------------------------------------------------------------------------
(* All handles are closed, and with them all record locks are gone.         *)
DropHandles(p) ==
  /\ fh' = [fh EXCEPT ![p] = [h \in Handle |-> FreeHandle]]
  /\ count' = [count EXCEPT ![p] = 0] /\ last' = [last EXCEPT ![p] = 0]
  /\ pend' = [pend EXCEPT ![p] = Idle]
  /\ locks' = [locks EXCEPT ![p] = [f \in File |-> << >>]]
  /\ klock' = [klock EXCEPT ![p] = [f \in File |-> NoLocks]]
  /\ spoiled' = [spoiled EXCEPT ![p] = [f \in File |-> FALSE]]
  /\ dirty' = [dirty EXCEPT ![p] = FALSE]

(* init_file_module(-1), when the connection logs out or is set up again;   *)
(* the process goes on, and its logical records stay locked.                *)
Logout(p) == pend[p] = Idle /\ DropHandles(p) /\ UNCHANGED lvars

(* The end of a process: the kernel closes everything.                      *)
Exit(p) ==
  /\ DropHandles(p)
  /\ areas' = [areas EXCEPT ![p] = [r \in Rec |-> NoArea]]
  /\ klog' = [klog EXCEPT ![p] = [r \in Rec |-> "none"]]

Init ==
  /\ load \in Load
  /\ fh = [p \in Proc |-> [h \in Handle |-> FreeHandle]]
  /\ count = [p \in Proc |-> 0] /\ last = [p \in Proc |-> 0]
  /\ pend = [p \in Proc |-> Idle]
  /\ locks = [p \in Proc |-> [f \in File |-> << >>]]
  /\ klock = [p \in Proc |-> [f \in File |-> NoLocks]]
  /\ spoiled = [p \in Proc |-> [f \in File |-> FALSE]]
  /\ dirty = [p \in Proc |-> FALSE]
  /\ areas = [p \in Proc |-> [r \in Rec |-> NoArea]]
  /\ klog = [p \in Proc |-> [r \in Rec |-> "none"]]

FileRequest(p) ==
  \/ \E f \in File, o \in Opens[load], t \in Task :
       OpenTest(p, f, o.access, o.creat, o.keep, t)
  \/ OpenFile(p) \/ ShareAdd(p) \/ Refused(p)
  \/ \E t \in Task : EndOfTask(p, t)
  \/ \E h \in Handle, reset \in BOOLEAN, t \in Task \cup {0} : CloseFile(p, h, reset, t)

RecordRequest(p) ==
  \E h \in Handle, s \in Starts, l \in Lens :
    UnlockRecord(p, h, s, l) \/ \E x \in BOOLEAN : LockRecord(p, h, s, l, x)

ChangeRequest(p) ==
  \/ Write(p)
  \/ \E h \in Handle, s \in Starts :
       Truncate(p, h, s) \/ \E l \in Lens : WriteTest(p, h, s, l) \/ ServerCopy(p, h, s, l)

LogicalRequest(p) ==
  \E r \in Rec : UnlockLogical(p, r) \/ \E x \in BOOLEAN : LockLogical(p, r, x)

Next ==
  /\ \E p \in Proc :
       \/ load # "logical" /\ FileRequest(p) /\ UNCHANGED lvars
       \/ load \in {"record", "io"} /\ RecordRequest(p) /\ UNCHANGED lvars
       \/ load = "io" /\ ChangeRequest(p) /\ UNCHANGED lvars
       \/ load = "logical" /\ LogicalRequest(p) /\ UNCHANGED <<hvars, pend, rvars>>
       \/ Logout(p)
       \/ Exit(p)
  /\ UNCHANGED load

Spec == Init /\ [][Next]_vars

-----------------------------------------------------------------------------
(* Properties                                                               *)

(* The record locks two processes have in their lists (nwshare.c:480)       *)
(* exclude each other, unless one of them spoiled its own: it closed another *)
(* descriptor of the file, or set two locks that overlap.                    *)
RecordExclusive ==
  \A f \in File, p, q \in Proc : p # q /\ ~spoiled[p][f] /\ ~spoiled[q][f] =>
    \A i \in DOMAIN locks[p][f], j \in DOMAIN locks[q][f] :
      Covers(locks[p][f][i]) \cap Covers(locks[q][f][j]) # {} =>
        ~locks[p][f][i].exclusive /\ ~locks[q][f][j].exclusive

(* Every entry of a lock list names a descriptor that is open on that file:  *)
(* a closed descriptor's number is given to another file, whose locks the    *)
(* entry would then unlock (nwfile.c:652, nwfile.c:134, nwfile.c:483).       *)
EntriesLive ==
  \A p \in Proc, f \in File : \A i \in DOMAIN locks[p][f] :
    fh[p][locks[p][f][i].fd].fd /\ fh[p][locks[p][f][i].fd].file = f

(* An open that is refused for its share mode has not truncated the file,    *)
(* unless another process opened it between the test (nwfile.c:399) and the  *)
(* open that truncates (nwfile.c:454).                                       *)
RefusedOpenHarmless ==
  \A p \in Proc : pend[p].st = "refused" /\ pend[p].clipped => pend[p].raced

(* A logical record that a process lists as locked exclusively is listed by  *)
(* no other process (nwfile.c:1192), however locks on other records of the   *)
(* same lock file come and go.                                               *)
LogicalExclusive ==
  \A r \in Rec, p, q \in Proc :
    p # q /\ areas[p][r].exclusive => areas[q][r] = NoArea

=============================================================================
