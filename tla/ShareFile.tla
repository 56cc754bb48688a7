------------------------------ MODULE ShareFile ------------------------------
(***************************************************************************)
(* File sharing between the nwconn processes (src/src/nwshare.c), as        *)
(* file_creat_open, nw_close_file (src/src/nwfile.c) and nw_log_file        *)
(* (src/src/connect.c) use it.                                              *)
(*                                                                         *)
(* There is no server for the share state.  Every nwconn process counts its *)
(* own opens per inode (ShareINode) and publishes "at least one" as an      *)
(* fcntl lock on the byte `inode' of one file per kind of open: .or .ow .dr *)
(* .dw, and .fl for file locks.  It sees the opens of the other processes   *)
(* only through F_GETLK on those bytes.  A further byte lock (.sm, taken    *)
(* with F_SETLKW) is the mutex around test and add.                         *)
(*                                                                         *)
(* A process is sequential; the steps of its share_file call interleave     *)
(* with those of the other processes, and it may be killed at any step.     *)
(***************************************************************************)
EXTENDS Integers, FiniteSets

CONSTANTS
  Proc,      \* nwconn processes
  NoProc,    \* nobody holds the mutex
  Inode,     \* inodes of one device
  Handle,    \* file handle slots of a process
  OpenModes, \* the access modes clients use
  MaxFileLock  \* bound on the file locks a process adds to one inode

(* open_mode bits 0x01, 0x02, 0x04, 0x08, each with a count of its own;     *)
(* 0x100 and 0x200 are "fl" and "x200" (which means "shared" in a request   *)
(* and "exclusive" in act_mode).                                            *)
Bits == {"or", "ow", "dr", "dw"}
LockModes == {{"fl"}, {"fl", "x200"}}

(* The bit of a present open that a request's bit collides with.            *)
Foe == [or |-> "dr", ow |-> "dw", dr |-> "or", dw |-> "ow"]

ASSUME ShareConstants ==
  /\ NoProc \notin Proc
  /\ IsFiniteSet(Handle)
  /\ OpenModes \subseteq (SUBSET Bits) \ {{}}
  /\ MaxFileLock \in Nat

VARIABLES
  fh,     \* fh[p][h]: file handle h of p: closed, or its inode and access
  cnt,    \* cnt[p][i][b]: si->or, si->ow, si->dr, si->dw of process p
  klock,  \* klock[b][i]: processes with a read lock on byte i of file b
  fl, ex, \* fl[p][i], ex[p][i]: si->fl, si->ex
  kfl,    \* kfl[i][p]: kernel lock of p on byte i of the .fl file
  sm,     \* sm[i]: holder of the write lock on byte i of the .sm file
  call    \* the share_file call of each process

fileVars == <<cnt, klock>>
lockVars == <<fl, ex, kfl>>
vars == <<fh, cnt, klock, fl, ex, kfl, sm, call>>

Closed == [open |-> FALSE]
File == {Closed} \cup [open : {TRUE}, inode : Inode, mode : OpenModes]

(* A call: where it is in share_file, and its arguments; h is the handle    *)
(* file_creat_open will fill or nw_close_file empties, res the result.      *)
Idle == [at |-> "idle"]
Calls == [at : {"wait", "test", "add", "remove", "leave"}, inode : Inode,
          mode : SUBSET (Bits \cup {"fl", "x200"}), action : {"add", "test", "remove"},
          slot : SUBSET Handle, res : {"none", "granted", "refused"}]

-----------------------------------------------------------------------------
(* Mutant of ActMode: own opens hide those of the others.                   *)
ActModeOwnFirst(p, i) ==
  LET own == {b \in Bits : cnt[p][i][b] > 0}
  IN  IF own # {} THEN own ELSE {b \in Bits : klock[b][i] \ {p} # {}}

(* act_mode, the open bits: own counts first, else what F_GETLK reports.    *)
ActMode(p, i) == {b \in Bits : cnt[p][i][b] > 0 \/ klock[b][i] \ {p} # {}}

(* act_mode & 0x300: own file locks hide those of the other processes.      *)
ActLock(p, i) ==
  IF fl[p][i] > 0 THEN {"fl"} \cup {b \in {"x200"} : ex[p][i] > 0}
  ELSE IF \E q \in Proc \ {p} : kfl[i][q] = "wr" THEN {"fl", "x200"}
  ELSE IF \E q \in Proc \ {p} : kfl[i][q] = "rd" THEN {"fl"}
  ELSE {}

Collides(p, i, mode) ==
  \/ \E b \in mode \cap Bits : Foe[b] \in ActMode(p, i)
  \/ "fl" \in mode /\ "x200" \in ActLock(p, i)
  \/ "x200" \in mode /\ "fl" \in ActLock(p, i)

(* F_SETLK on the .fl byte: fails, unnoticed, if another process is in the  *)
(* way.                                                                     *)
SetFlLock(i, p, t) ==
  IF \E q \in Proc \ {p} : kfl[i][q] = "wr" \/ (t = "wr" /\ kfl[i][q] = "rd")
  THEN kfl ELSE [kfl EXCEPT ![i][p] = t]

(* No ShareINode of p is left: the ShareDev goes, and its files are closed. *)
NoINode(c, f, p) == \A i \in Inode : f[p][i] = 0 /\ \A b \in Bits : c[p][i][b] = 0

-----------------------------------------------------------------------------
Init ==
  /\ fh = [p \in Proc |-> [h \in Handle |-> Closed]]
  /\ cnt = [p \in Proc |-> [i \in Inode |-> [b \in Bits |-> 0]]]
  /\ klock = [b \in Bits |-> [i \in Inode |-> {}]]
  /\ fl = [p \in Proc |-> [i \in Inode |-> 0]]
  /\ ex = [p \in Proc |-> [i \in Inode |-> 0]]
  /\ kfl = [i \in Inode |-> [p \in Proc |-> "un"]]
  /\ sm = [i \in Inode |-> NoProc]
  /\ call = [p \in Proc |-> Idle]

Enter(p, i, mode, action, slot) ==
  /\ call[p] = Idle
  /\ call' = [call EXCEPT ![p] = [at |-> "wait", inode |-> i, mode |-> mode,
                                  action |-> action, slot |-> slot, res |-> "none"]]
  /\ UNCHANGED <<fh, fileVars, lockVars, sm>>

(* file_creat_open: share_file(.., access & 0xff, 1).                       *)
Open(p, h, i, m) == fh[p][h] = Closed /\ Enter(p, i, m, "add", {h})

(* nw_close_file, free_file_handle: share_file(.., fh->access & 0xff, 0).   *)
Close(p, h) ==
  /\ fh[p][h] # Closed
  /\ Enter(p, fh[p][h].inode, fh[p][h].mode, "remove", {h})

(* The tests before a write open, a delete and a rename (0x10f).            *)
Test(p, i, m) == Enter(p, i, m, "test", {})

(* nw_log_file with lock_flag 1 (0x100) or 3 (0x300), and -1 (0x300).       *)
LockFile(p, i, m) == fl[p][i] < MaxFileLock /\ Enter(p, i, m, "add", {})
UnlockFile(p, i) ==
  /\ fl[p][i] > 0 \/ \E b \in Bits : cnt[p][i][b] > 0   \* the ShareINode exists
  /\ Enter(p, i, {"fl", "x200"}, "remove", {})

(* Mutant of SetSemaphor: F_SETLK instead of F_SETLKW.                      *)
SetSemaphorNoWait(p) ==
  /\ call[p].at = "wait"
  /\ sm' = [sm EXCEPT ![call[p].inode] = p]
  /\ call' = [call EXCEPT ![p].at = IF call[p].action = "remove" THEN "remove" ELSE "test"]
  /\ UNCHANGED <<fh, fileVars, lockVars>>

(* fcntl(fd_sm, F_SETLKW): waits for the mutex of the inode.                *)
SetSemaphor(p) ==
  /\ call[p].at = "wait"
  /\ sm[call[p].inode] = NoProc
  /\ sm' = [sm EXCEPT ![call[p].inode] = p]
  /\ call' = [call EXCEPT ![p].at = IF call[p].action = "remove" THEN "remove" ELSE "test"]
  /\ UNCHANGED <<fh, fileVars, lockVars>>

(* TEST.                                                                    *)
TestShare(p) ==
  LET c == call[p]
      r == IF Collides(p, c.inode, c.mode) THEN "refused" ELSE "granted"
  IN  /\ c.at = "test"
      /\ call' = [call EXCEPT ![p].res = IF r = "granted" /\ c.action = "add"
                                         THEN "none" ELSE r,
                              ![p].at = IF r = "granted" /\ c.action = "add"
                                        THEN "add" ELSE "leave"]
      /\ UNCHANGED <<fh, fileVars, lockVars, sm>>

(* ADD, the open bits: the first open of a kind sets the kernel lock (read  *)
(* locks only, so F_SETLK cannot fail).                                     *)
AddOpen(p, i, mode) ==
  /\ cnt' = [cnt EXCEPT ![p][i] = [b \in Bits |-> @[b] + (IF b \in mode THEN 1 ELSE 0)]]
  /\ klock' = [b \in Bits |->
                 IF b \in mode /\ cnt[p][i][b] = 0
                 THEN [klock[b] EXCEPT ![i] = @ \cup {p}] ELSE klock[b]]

(* ADD, the file lock.                                                      *)
AddLock(p, i, mode) ==
  /\ fl' = [fl EXCEPT ![p][i] = @ + 1]
  /\ ex' = [ex EXCEPT ![p][i] = @ + (IF "x200" \in mode THEN 0 ELSE 1)]
  /\ kfl' = IF fl[p][i] > 0 THEN kfl
            ELSE SetFlLock(i, p, IF "x200" \in mode THEN "rd" ELSE "wr")

AddShare(p) ==
  LET c == call[p]
  IN  /\ c.at = "add"
      /\ AddOpen(p, c.inode, c.mode \cap Bits)
      /\ IF "fl" \in c.mode THEN AddLock(p, c.inode, c.mode) ELSE UNCHANGED lockVars
      /\ fh' = [fh EXCEPT ![p] = [h \in Handle |->
                  IF h \in c.slot THEN [open |-> TRUE, inode |-> c.inode, mode |-> c.mode]
                  ELSE @[h]]]
      /\ call' = [call EXCEPT ![p].at = "leave", ![p].res = "granted"]
      /\ UNCHANGED sm

(* Mutant of RemoveOpen: every close drops the kernel lock.                 *)
RemoveOpenEachTime(p, i, mode) ==
  /\ cnt' = [cnt EXCEPT ![p][i] = [b \in Bits |->
                          IF b \in mode /\ @[b] > 0 THEN @[b] - 1 ELSE @[b]]]
  /\ klock' = [b \in Bits |->
                 IF b \in mode THEN [klock[b] EXCEPT ![i] = @ \ {p}] ELSE klock[b]]

(* REMOVE: the last open of a kind drops the kernel lock.                   *)
RemoveOpen(p, i, mode) ==
  /\ cnt' = [cnt EXCEPT ![p][i] = [b \in Bits |->
                          IF b \in mode /\ @[b] > 0 THEN @[b] - 1 ELSE @[b]]]
  /\ klock' = [b \in Bits |->
                 IF b \in mode /\ cnt[p][i][b] = 1
                 THEN [klock[b] EXCEPT ![i] = @ \ {p}] ELSE klock[b]]

(* Mutant of RemoveLock: counts below zero.                                 *)
RemoveLockUnchecked(p, i) ==
  /\ fl' = [fl EXCEPT ![p][i] = @ - 1]
  /\ ex' = [ex EXCEPT ![p][i] = IF fl[p][i] = 1 THEN 0 ELSE @]
  /\ kfl' = [kfl EXCEPT ![i][p] = IF fl[p][i] = 1 THEN "un" ELSE @]

RemoveLock(p, i) ==
  /\ fl' = [fl EXCEPT ![p][i] = IF @ > 0 THEN @ - 1 ELSE @]
  /\ ex' = [ex EXCEPT ![p][i] = IF fl[p][i] = 1 THEN 0 ELSE @]
  /\ kfl' = [kfl EXCEPT ![i][p] = IF fl[p][i] = 1 THEN "un" ELSE @]

RemoveShare(p) ==
  LET c == call[p]
  IN  /\ c.at = "remove"
      /\ RemoveOpen(p, c.inode, c.mode \cap Bits)
      /\ IF "fl" \in c.mode THEN RemoveLock(p, c.inode) ELSE UNCHANGED lockVars
      /\ fh' = [fh EXCEPT ![p] = [h \in Handle |-> IF h \in c.slot THEN Closed ELSE @[h]]]
      /\ call' = [call EXCEPT ![p].at = "leave", ![p].res = "granted"]
      /\ UNCHANGED sm

(* Mutant of Leave: a refusal returns early.                                *)
LeaveKeepsSemaphor(p) ==
  /\ call[p].at = "leave"
  /\ sm' = IF call[p].res = "refused" THEN sm ELSE [sm EXCEPT ![call[p].inode] = NoProc]
  /\ call' = [call EXCEPT ![p] = Idle]
  /\ UNCHANGED <<fh, fileVars, lockVars>>

(* The mutex is released; then an unused inode and device are freed, and    *)
(* closing the device's files drops whatever kernel locks p has on them.    *)
Leave(p) ==
  /\ call[p].at = "leave"
  /\ sm' = [sm EXCEPT ![call[p].inode] = NoProc]
  /\ call' = [call EXCEPT ![p] = Idle]
  /\ klock' = IF NoINode(cnt, fl, p)
              THEN [b \in Bits |-> [i \in Inode |-> klock[b][i] \ {p}]] ELSE klock
  /\ kfl' = IF NoINode(cnt, fl, p)
            THEN [i \in Inode |-> [kfl[i] EXCEPT ![p] = "un"]] ELSE kfl
  /\ UNCHANGED <<fh, cnt, fl, ex>>

(* The process ends (SIGKILL by ncpserv, or a crash): the kernel drops all  *)
(* its locks, the mutex included.  A new process takes its place.           *)
Die(p) ==
  /\ fh' = [fh EXCEPT ![p] = [h \in Handle |-> Closed]]
  /\ cnt' = [cnt EXCEPT ![p] = [i \in Inode |-> [b \in Bits |-> 0]]]
  /\ klock' = [b \in Bits |-> [i \in Inode |-> klock[b][i] \ {p}]]
  /\ fl' = [fl EXCEPT ![p] = [i \in Inode |-> 0]]
  /\ ex' = [ex EXCEPT ![p] = [i \in Inode |-> 0]]
  /\ kfl' = [i \in Inode |-> [kfl[i] EXCEPT ![p] = "un"]]
  /\ sm' = [i \in Inode |-> IF sm[i] = p THEN NoProc ELSE sm[i]]
  /\ call' = [call EXCEPT ![p] = Idle]

(* The steps of a call that has the mutex.                                  *)
Step(p) == TestShare(p) \/ AddShare(p) \/ RemoveShare(p) \/ Leave(p)

Request(p) ==
  \/ \E h \in Handle, i \in Inode, m \in OpenModes : Open(p, h, i, m)
  \/ \E h \in Handle : Close(p, h)
  \/ \E i \in Inode : \E m \in OpenModes \cup {Bits \cup {"fl"}} : Test(p, i, m)
  \/ \E i \in Inode, m \in LockModes : LockFile(p, i, m)
  \/ \E i \in Inode : UnlockFile(p, i)

Next == \E p \in Proc : Request(p) \/ SetSemaphor(p) \/ Step(p) \/ Die(p)

Spec == Init /\ [][Next]_vars

(* A process that is not killed runs on between taking and releasing the    *)
(* mutex: nothing in between blocks.                                        *)
FairSpec == Spec /\ \A p \in Proc : WF_vars(Step(p))

-----------------------------------------------------------------------------
(* Types of the variables.                                                  *)
TypeOK ==
  /\ fh \in [Proc -> [Handle -> File]]
  /\ cnt \in [Proc -> [Inode -> [Bits -> Nat]]]
  /\ klock \in [Bits -> [Inode -> SUBSET Proc]]
  /\ fl \in [Proc -> [Inode -> Nat]]
  /\ ex \in [Proc -> [Inode -> Nat]]
  /\ kfl \in [Inode -> [Proc -> {"un", "rd", "wr"}]]
  /\ sm \in [Inode -> Proc \cup {NoProc}]
  /\ call \in [Proc -> {Idle} \cup Calls]

(* Open handles on the same file, of the same or of different processes.    *)
OnSameFile(p, g, q, h) ==
  /\ <<p, g>> # <<q, h>>
  /\ fh[p][g] # Closed /\ fh[q][h] # Closed
  /\ fh[p][g].inode = fh[q][h].inode

(* What the deny modes promise, over all processes: while a handle denies   *)
(* reading (writing), no other handle on the file is open for reading       *)
(* (writing), whoever opened first and whatever was tested, closed or       *)
(* killed in between.                                                       *)
DenyModesHold ==
  \A p, q \in Proc : \A g, h \in Handle :
    OnSameFile(p, g, q, h) =>
      /\ ~("dr" \in fh[p][g].mode /\ "or" \in fh[q][h].mode)
      /\ ~("dw" \in fh[p][g].mode /\ "ow" \in fh[q][h].mode)

(* The handles of p that open file i in the way b.                          *)
HandlesOn(p, i, b) ==
  {h \in Handle : fh[p][h] # Closed /\ fh[p][h].inode = i /\ b \in fh[p][h].mode}

(* The kernel locks, all that the other processes can see, are exactly the  *)
(* kinds of open the process's own handles need: no handle is invisible and *)
(* no lock outlives its handles.                                            *)
LocksMirrorHandles ==
  \A p \in Proc, i \in Inode, b \in Bits :
    /\ cnt[p][i][b] = Cardinality(HandlesOn(p, i, b))
    /\ p \in klock[b][i] <=> cnt[p][i][b] > 0

(* The answer to an open or test, once the call has one (a call that asks  *)
(* for or releases a file lock is not the service's business).              *)
Answered(p) ==
  IF call[p] = Idle THEN "none" ELSE IF "fl" \in call[p].mode THEN "none" ELSE call[p].res

Service == INSTANCE ShareService WITH handles <- fh, outcome <- [p \in Proc |-> Answered(p)]

(* share_file implements the service that knows every handle: each open and *)
(* test is decided, at one moment inside the mutex, exactly as the handles  *)
(* of all processes demand; a refusal never comes without a conflict.       *)
ImplementsService == Service!Spec

(* The mutex of an inode is always released again, even when its holder is  *)
(* killed: no open waits for ever for a share_file call that never ends.    *)
SemaphorFreed == \A p \in Proc, i \in Inode : sm[i] = p ~> sm[i] # p

=============================================================================
