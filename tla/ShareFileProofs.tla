--------------------------- MODULE ShareFileProofs ---------------------------
(***************************************************************************)
(* Proofs about ShareFile for any number of processes, inodes and handles   *)
(* and any set of access modes.                                             *)
(***************************************************************************)
EXTENDS ShareFile, FiniteSetTheorems, TLAPS

(* Whoever is past F_SETLKW holds the mutex of its inode.                   *)
Mutex ==
  \A p \in Proc : call[p].at \in {"test", "add", "remove", "leave"} => sm[call[p].inode] = p

(* What a call under way still knows about its arguments: an open fills a   *)
(* closed handle, a close empties the handle with this inode and mode,      *)
(* other calls that change counts carry no open bits.                       *)
CallOk(p) ==
  LET c == call[p]
  IN  c # Idle =>
        /\ c.slot = {} \/ \E h \in Handle : c.slot = {h}
        /\ c.at = "add" => c.action = "add"
        /\ c.at = "remove" => c.action = "remove"
        /\ c.at = "test" => c.action # "remove"
        /\ c.slot # {} /\ c.action = "add" /\ c.at \in {"wait", "test", "add"} =>
             c.mode \in OpenModes /\ \A h \in c.slot : fh[p][h] = Closed
        /\ c.slot # {} /\ c.action = "remove" /\ c.at \in {"wait", "remove"} =>
             /\ c.mode \in OpenModes
             /\ \A h \in c.slot : fh[p][h] = [open |-> TRUE, inode |-> c.inode, mode |-> c.mode]
        /\ c.slot = {} /\ c.action # "test" => c.mode \cap Bits = {}

(* A call that is about to add has passed the test, and it still would.     *)
Passed ==
  \A p \in Proc : call[p].at = "add" =>
    \A b \in call[p].mode \cap Bits : Foe[b] \notin ActMode(p, call[p].inode)

IInv ==
  /\ TypeOK /\ Mutex /\ LocksMirrorHandles /\ Passed /\ DenyModesHold
  /\ \A p \in Proc : CallOk(p)

-----------------------------------------------------------------------------
(* The handles of a process are finitely many, so they can be counted.      *)
LEMMA HandlesFinite ==
  ASSUME NEW p \in Proc, NEW i \in Inode, NEW b \in Bits
  PROVE  /\ IsFiniteSet(HandlesOn(p, i, b))
         /\ Cardinality(HandlesOn(p, i, b)) \in Nat
         /\ Cardinality(HandlesOn(p, i, b)) = 0 <=> HandlesOn(p, i, b) = {}
<1>1. IsFiniteSet(HandlesOn(p, i, b))
  BY ShareConstants, FS_Subset DEF HandlesOn
<1>2. QED
  BY <1>1, FS_CardinalityType, FS_EmptySet

(* The initial states, all handles closed and no call under way, satisfy    *)
(* the inductive invariant.                                                 *)
LEMMA InitIInv == Init => IInv
<1> SUFFICES ASSUME Init PROVE IInv
  OBVIOUS
<1> USE ShareConstants
<1>1. TypeOK
  BY DEF Init, TypeOK, File, Closed, Idle
<1>2. Mutex /\ Passed
  BY DEF Init, Mutex, Passed, Idle
<1>3. LocksMirrorHandles
  <2> SUFFICES ASSUME NEW p \in Proc, NEW i \in Inode, NEW b \in Bits
               PROVE  /\ cnt[p][i][b] = Cardinality(HandlesOn(p, i, b))
                      /\ p \in klock[b][i] <=> cnt[p][i][b] > 0
    BY DEF LocksMirrorHandles
  <2>1. HandlesOn(p, i, b) = {}
    BY DEF Init, HandlesOn
  <2>2. cnt[p][i][b] = 0 /\ klock[b][i] = {}
    BY DEF Init
  <2>3. QED
    BY <2>1, <2>2, FS_EmptySet
<1>4. DenyModesHold
  BY DEF Init, DenyModesHold, OnSameFile
<1>5. \A p \in Proc : CallOk(p)
  BY DEF Init, CallOk
<1>6. QED
  BY <1>1, <1>2, <1>3, <1>4, <1>5 DEF IInv

(* share_file sees every open of every process: each way in which a file    *)
(* is open is in act_mode, whoever asks.                                    *)
LEMMA OpenIsSeen ==
  ASSUME TypeOK, LocksMirrorHandles, NEW p \in Proc, NEW q \in Proc, NEW h \in Handle,
         fh[q][h] # Closed, NEW b \in fh[q][h].mode
  PROVE  b \in ActMode(p, fh[q][h].inode)
<1> DEFINE i == fh[q][h].inode
<1>1. i \in Inode /\ b \in Bits
  <2>1. fh[q][h] \in File
    BY DEF TypeOK
  <2>2. i \in Inode /\ fh[q][h].mode \in OpenModes
    BY <2>1 DEF File
  <2>3. QED
    BY <2>2, ShareConstants
<1>2. h \in HandlesOn(q, i, b)
  BY DEF HandlesOn
<1>3. cnt[q][i][b] # 0
  BY <1>1, <1>2, HandlesFinite DEF LocksMirrorHandles
<1>4. cnt[q][i][b] \in Nat
  BY <1>1 DEF TypeOK
<1>5. cnt[q][i][b] > 0 /\ q \in klock[b][i]
  BY <1>1, <1>3, <1>4 DEF LocksMirrorHandles
<1>6. QED
  BY <1>1, <1>5 DEF ActMode

-----------------------------------------------------------------------------
(* A call that has left "idle" has its arguments.                           *)
LEMMA CallType ==
  ASSUME TypeOK, NEW p \in Proc, call[p].at # "idle"
  PROVE  /\ call[p] \in Calls /\ call[p] # Idle
         /\ call[p].inode \in Inode
         /\ call[p].slot \in SUBSET Handle
BY DEF TypeOK, Calls, Idle

Modes == SUBSET (Bits \cup {"fl", "x200"})
Actions == {"add", "test", "remove"}

(* The arguments with which the handlers call share_file.                   *)
GoodArgs(p, i, mode, action, slot) ==
  /\ slot = {} \/ \E h \in Handle : slot = {h}
  /\ slot # {} /\ action = "add" =>
       mode \in OpenModes /\ \A h \in slot : fh[p][h] = Closed
  /\ slot # {} /\ action = "remove" =>
       /\ mode \in OpenModes
       /\ \A h \in slot : fh[p][h] = [open |-> TRUE, inode |-> i, mode |-> mode]
  /\ slot = {} /\ action # "test" => mode \cap Bits = {}

(* Every handler calls share_file with such arguments.                      *)
LEMMA RequestArgs ==
  ASSUME TypeOK, NEW p \in Proc, Request(p)
  PROVE  \E i \in Inode, mode \in Modes, action \in Actions, slot \in SUBSET Handle :
           GoodArgs(p, i, mode, action, slot) /\ Enter(p, i, mode, action, slot)
<1> USE ShareConstants DEF Modes, Actions
<1>1. CASE \E h \in Handle, i \in Inode, m \in OpenModes : Open(p, h, i, m)
  <2> PICK h \in Handle, i \in Inode, m \in OpenModes : Open(p, h, i, m)
    BY <1>1
  <2>1. GoodArgs(p, i, m, "add", {h}) /\ Enter(p, i, m, "add", {h})
    BY DEF Open, GoodArgs
  <2>2. QED
    BY <2>1
<1>2. CASE \E h \in Handle : Close(p, h)
  <2> PICK h \in Handle : Close(p, h)
    BY <1>2
  <2> DEFINE f == fh[p][h]
  <2>1. f \in File /\ f # Closed
    BY DEF TypeOK, Close
  <2>2. f.inode \in Inode /\ f.mode \in OpenModes /\
        f = [open |-> TRUE, inode |-> f.inode, mode |-> f.mode]
    BY <2>1 DEF File
  <2>3. GoodArgs(p, f.inode, f.mode, "remove", {h})
    BY <2>2 DEF GoodArgs
  <2>4. Enter(p, f.inode, f.mode, "remove", {h})
    BY DEF Close
  <2>5. QED
    BY <2>2, <2>3, <2>4
<1>3. CASE \E i \in Inode : \E m \in OpenModes \cup {Bits \cup {"fl"}} : Test(p, i, m)
  <2> PICK i \in Inode, m \in OpenModes \cup {Bits \cup {"fl"}} : Test(p, i, m)
    BY <1>3
  <2>1. GoodArgs(p, i, m, "test", {}) /\ Enter(p, i, m, "test", {})
    BY DEF Test, GoodArgs
  <2>2. QED
    BY <2>1
<1>4. CASE \E i \in Inode, m \in LockModes : LockFile(p, i, m)
  <2> PICK i \in Inode, m \in LockModes : LockFile(p, i, m)
    BY <1>4
  <2>1. GoodArgs(p, i, m, "add", {}) /\ Enter(p, i, m, "add", {})
    BY DEF LockFile, GoodArgs, LockModes, Bits
  <2>2. m \in Modes
    BY DEF LockModes
  <2>3. QED
    BY <2>1, <2>2
<1>5. CASE \E i \in Inode : UnlockFile(p, i)
  <2> PICK i \in Inode : UnlockFile(p, i)
    BY <1>5
  <2>1. GoodArgs(p, i, {"fl", "x200"}, "remove", {}) /\ Enter(p, i, {"fl", "x200"}, "remove", {})
    BY DEF UnlockFile, GoodArgs, Bits
  <2>2. QED
    BY <2>1
<1>6. QED
  BY <1>1, <1>2, <1>3, <1>4, <1>5 DEF Request

(* The state of the files is untouched by steps that change only calls and  *)
(* the mutex; so are the properties that speak of nothing else.             *)
LEMMA FilesUnchanged ==
  ASSUME LocksMirrorHandles, DenyModesHold, UNCHANGED <<fh, cnt, klock>>
  PROVE  LocksMirrorHandles' /\ DenyModesHold'
BY DEF LocksMirrorHandles, HandlesOn, DenyModesHold, OnSameFile

(* A handler entering share_file preserves the inductive invariant.         *)
LEMMA RequestStep ==
  ASSUME IInv, NEW p \in Proc, Request(p)
  PROVE  IInv'
<1> USE DEF IInv
<1> PICK i \in Inode, mode \in Modes, action \in Actions, slot \in SUBSET Handle :
      GoodArgs(p, i, mode, action, slot) /\ Enter(p, i, mode, action, slot)
  BY RequestArgs
<1> DEFINE c == [at |-> "wait", inode |-> i, mode |-> mode,
                 action |-> action, slot |-> slot, res |-> "none"]
<1>1. /\ call' = [call EXCEPT ![p] = c]
      /\ UNCHANGED <<fh, cnt, klock, fl, ex, kfl, sm>>
  BY DEF Enter, fileVars, lockVars
<1>2. c \in Calls
  BY DEF Modes, Actions, Calls
<1>3. TypeOK'
  BY <1>1, <1>2 DEF TypeOK
<1>4. call'[p] = c /\ \A q \in Proc \ {p} : call'[q] = call[q]
  BY <1>1 DEF TypeOK
<1>5. Mutex' /\ Passed'
  <2>1. Mutex'
    BY <1>1, <1>4 DEF Mutex
  <2>2. \A q, j : ActMode(q, j)' = ActMode(q, j)
    BY <1>1 DEF ActMode
  <2>3. Passed'
    BY <1>4, <2>2 DEF Passed
  <2>4. QED
    BY <2>1, <2>3
<1>6. \A q \in Proc : CallOk(q)'
  <2> TAKE q \in Proc
  <2>1. CASE q = p
    <3>1. /\ call'[p].at = "wait" /\ call'[p].inode = i /\ call'[p].mode = mode
          /\ call'[p].action = action /\ call'[p].slot = slot /\ fh' = fh
      BY <1>1, <1>4
    <3>2. CallOk(p)'
      BY <3>1 DEF GoodArgs, CallOk
    <3>3. QED
      BY <2>1, <3>2
  <2>2. CASE q # p
    BY <2>2, <1>1, <1>4 DEF CallOk
  <2>3. QED
    BY <2>1, <2>2
<1>7. QED
  BY <1>1, <1>3, <1>5, <1>6, FilesUnchanged

(* Taking the mutex preserves the inductive invariant.                      *)
LEMMA SetSemaphorStep ==
  ASSUME IInv, NEW p \in Proc, SetSemaphor(p)
  PROVE  IInv'
<1> USE DEF IInv
<1> DEFINE i == call[p].inode
           a == IF call[p].action = "remove" THEN "remove" ELSE "test"
<1>1. /\ call[p].at = "wait" /\ sm[i] = NoProc
      /\ sm' = [sm EXCEPT ![i] = p]
      /\ call' = [call EXCEPT ![p].at = a]
      /\ UNCHANGED <<fh, cnt, klock, fl, ex, kfl>>
  BY DEF SetSemaphor, fileVars, lockVars
<1>2. call[p] \in Calls /\ i \in Inode /\ call[p] # Idle
  BY <1>1, CallType
<1>3. TypeOK'
  <2>1. call' \in [Proc -> {Idle} \cup Calls]
    BY <1>1, <1>2 DEF TypeOK, Calls
  <2>2. QED
    BY <1>1, <1>2, <2>1 DEF TypeOK
<1>4. /\ call'[p] = [call[p] EXCEPT !.at = a]
      /\ \A q \in Proc \ {p} : call'[q] = call[q]
  BY <1>1 DEF TypeOK
<1>5. /\ call'[p].at = a /\ call'[p].inode = i /\ call'[p].mode = call[p].mode
      /\ call'[p].action = call[p].action /\ call'[p].slot = call[p].slot
  BY <1>2, <1>4 DEF Calls
<1>6. Mutex'
  <2> SUFFICES ASSUME NEW q \in Proc, call'[q].at \in {"test", "add", "remove", "leave"}
               PROVE  sm'[call'[q].inode] = q
    BY DEF Mutex
  <2>1. CASE q = p
    BY <2>1, <1>1, <1>2, <1>5 DEF TypeOK
  <2>2. CASE q # p
    <3>1. sm[call[q].inode] = q /\ call[q].inode \in Inode
      BY <2>2, <1>4, CallType DEF Mutex
    <3>2. call[q].inode # i
      BY <3>1, <1>1, ShareConstants
    <3>3. QED
      BY <2>2, <3>1, <3>2, <1>1, <1>4 DEF TypeOK
  <2>3. QED
    BY <2>1, <2>2
<1>7. Passed'
  <2> SUFFICES ASSUME NEW q \in Proc, call'[q].at = "add"
               PROVE  \A b \in call'[q].mode \cap Bits : Foe[b] \notin ActMode(q, call[q].inode)'
    BY DEF Passed
  <2>1. q # p
    BY <1>5
  <2>2. \A j : ActMode(q, j)' = ActMode(q, j)
    BY <1>1 DEF ActMode
  <2>3. QED
    BY <2>1, <2>2, <1>4 DEF Passed
<1>8. \A q \in Proc : CallOk(q)'
  <2> TAKE q \in Proc
  <2>1. CallOk(p)'
    BY <1>1, <1>2, <1>5 DEF CallOk
  <2>2. CASE q # p
    BY <2>2, <1>1, <1>4 DEF CallOk
  <2>3. QED
    BY <2>1, <2>2
<1>9. QED
  BY <1>1, <1>3, <1>6, <1>7, <1>8, FilesUnchanged

(* The test preserves the inductive invariant; only a call without a        *)
(* collision goes on to add.                                                *)
LEMMA TestShareStep ==
  ASSUME IInv, NEW p \in Proc, TestShare(p)
  PROVE  IInv'
<1> USE DEF IInv
<1> DEFINE i == call[p].inode
           ok == ~Collides(p, i, call[p].mode)
           goesOn == ok /\ call[p].action = "add"
           a == IF goesOn THEN "add" ELSE "leave"
           r == IF goesOn THEN "none" ELSE IF ok THEN "granted" ELSE "refused"
<1>1. /\ call[p].at = "test"
      /\ call' = [call EXCEPT ![p].res = r, ![p].at = a]
      /\ UNCHANGED <<fh, cnt, klock, fl, ex, kfl, sm>>
  BY DEF TestShare, fileVars, lockVars
<1>2. call[p] \in Calls /\ i \in Inode /\ call[p] # Idle
  BY <1>1, CallType
<1>3. TypeOK'
  <2>1. call' \in [Proc -> {Idle} \cup Calls]
    BY <1>1, <1>2 DEF TypeOK, Calls
  <2>2. QED
    BY <1>1, <2>1 DEF TypeOK
<1>4. \A q \in Proc \ {p} : call'[q] = call[q]
  BY <1>1 DEF TypeOK
<1>5. /\ call'[p].at = a /\ call'[p].inode = i /\ call'[p].mode = call[p].mode
      /\ call'[p].action = call[p].action /\ call'[p].slot = call[p].slot
  BY <1>1, <1>2 DEF TypeOK, Calls
<1>6. Mutex'
  <2>1. sm[i] = p
    BY <1>1 DEF Mutex
  <2>2. QED
    BY <2>1, <1>1, <1>4, <1>5 DEF Mutex
<1>7. Passed'
  <2>1. goesOn => \A b \in call[p].mode \cap Bits : Foe[b] \notin ActMode(p, i)
    BY DEF Collides
  <2> SUFFICES ASSUME NEW q \in Proc, call'[q].at = "add"
               PROVE  \A b \in call'[q].mode \cap Bits : Foe[b] \notin ActMode(q, call[q].inode)'
    BY DEF Passed
  <2>2. \A j : ActMode(q, j)' = ActMode(q, j)
    BY <1>1 DEF ActMode
  <2>3. CASE q = p
    BY <2>1, <2>2, <2>3, <1>5
  <2>4. CASE q # p
    BY <2>2, <2>4, <1>4 DEF Passed
  <2>5. QED
    BY <2>3, <2>4
<1>8. \A q \in Proc : CallOk(q)'
  <2> TAKE q \in Proc
  <2>0. a \in {"add", "leave"} /\ (a = "add" => call[p].action = "add")
    OBVIOUS
  <2>1. CallOk(p)'
    <3> HIDE DEF a
    <3> QED
      BY <2>0, <1>1, <1>2, <1>5 DEF CallOk
  <2>2. CASE q # p
    <3>1. call'[q] = call[q] /\ fh' = fh /\ CallOk(q)
      BY <2>2, <1>1, <1>4
    <3>2. QED
      BY <3>1 DEF CallOk
  <2>3. QED
    BY <2>1, <2>2
<1>9. QED
  BY <1>1, <1>3, <1>6, <1>7, <1>8, FilesUnchanged

(* Releasing the mutex preserves the inductive invariant: closing the files *)
(* of an unused device loses no lock, for the process has none left there.  *)
LEMMA LeaveStep ==
  ASSUME IInv, NEW p \in Proc, Leave(p)
  PROVE  IInv'
<1> USE DEF IInv
<1> DEFINE i == call[p].inode
<1>1. /\ call[p].at = "leave"
      /\ sm' = [sm EXCEPT ![i] = NoProc]
      /\ call' = [call EXCEPT ![p] = Idle]
      /\ UNCHANGED <<fh, cnt, fl, ex>>
  BY DEF Leave
<1>2. i \in Inode /\ sm[i] = p
  BY <1>1, CallType DEF Mutex
<1>3. klock' = klock
  <2>1. CASE NoINode(cnt, fl, p)
    <3>1. klock' = [b \in Bits |-> [j \in Inode |-> klock[b][j] \ {p}]]
      BY <2>1 DEF Leave
    <3>2. \A b \in Bits, j \in Inode : p \notin klock[b][j]
      <4> TAKE b \in Bits, j \in Inode
      <4>1. cnt[p][j][b] = 0
        BY <2>1 DEF NoINode
      <4>2. QED
        BY <4>1 DEF LocksMirrorHandles
    <3>3. \A b \in Bits : klock[b] \in [Inode -> SUBSET Proc]
      BY DEF TypeOK
    <3>4. \A b \in Bits : [j \in Inode |-> klock[b][j] \ {p}] = klock[b]
      <4> TAKE b \in Bits
      <4>1. \A j \in Inode : klock[b][j] \ {p} = klock[b][j]
        BY <3>2
      <4>2. QED
        BY <4>1, <3>3
    <3>5. QED
      BY <3>1, <3>4 DEF TypeOK
  <2>2. CASE ~NoINode(cnt, fl, p)
    BY <2>2 DEF Leave
  <2>3. QED
    BY <2>1, <2>2
<1>4. kfl' \in [Inode -> [Proc -> {"un", "rd", "wr"}]]
  <2>1. CASE NoINode(cnt, fl, p)
    BY <2>1 DEF Leave, TypeOK
  <2>2. CASE ~NoINode(cnt, fl, p)
    BY <2>2 DEF Leave, TypeOK
  <2>3. QED
    BY <2>1, <2>2
<1>5. TypeOK'
  BY <1>1, <1>2, <1>3, <1>4 DEF TypeOK
<1>6. call'[p] = Idle /\ \A q \in Proc \ {p} : call'[q] = call[q]
  BY <1>1 DEF TypeOK
<1>7. Mutex'
  <2> SUFFICES ASSUME NEW q \in Proc, call'[q].at \in {"test", "add", "remove", "leave"}
               PROVE  sm'[call'[q].inode] = q
    BY DEF Mutex
  <2>1. q # p
    BY <1>6 DEF Idle
  <2>2. sm[call[q].inode] = q /\ call[q].inode \in Inode
    BY <2>1, <1>6, CallType DEF Mutex
  <2>3. QED
    BY <2>1, <2>2, <1>1, <1>2, <1>6 DEF TypeOK
<1>8. Passed'
  <2> SUFFICES ASSUME NEW q \in Proc, call'[q].at = "add"
               PROVE  \A b \in call'[q].mode \cap Bits : Foe[b] \notin ActMode(q, call[q].inode)'
    BY DEF Passed
  <2>1. q # p
    BY <1>6 DEF Idle
  <2>2. \A j : ActMode(q, j)' = ActMode(q, j)
    BY <1>1, <1>3 DEF ActMode
  <2>3. QED
    BY <2>1, <2>2, <1>6 DEF Passed
<1>9. \A q \in Proc : CallOk(q)'
  BY <1>1, <1>6 DEF CallOk
<1>10. QED
  BY <1>1, <1>3, <1>5, <1>7, <1>8, <1>9, FilesUnchanged

(* The end of a process, at any moment, preserves the inductive invariant:  *)
(* the kernel takes back its locks together with its handles.               *)
LEMMA DieStep ==
  ASSUME IInv, NEW p \in Proc, Die(p)
  PROVE  IInv'
<1> USE DEF IInv
<1>1. TypeOK'
  <2>1. /\ fh' \in [Proc -> [Handle -> File]]
        /\ cnt' \in [Proc -> [Inode -> [Bits -> Nat]]]
        /\ fl' \in [Proc -> [Inode -> Nat]] /\ ex' \in [Proc -> [Inode -> Nat]]
    BY DEF Die, TypeOK, File
  <2>2. klock' \in [Bits -> [Inode -> SUBSET Proc]]
    BY DEF Die, TypeOK
  <2>3. kfl' \in [Inode -> [Proc -> {"un", "rd", "wr"}]]
    BY DEF Die, TypeOK
  <2>4. sm' \in [Inode -> Proc \cup {NoProc}] /\ call' \in [Proc -> {Idle} \cup Calls]
    BY DEF Die, TypeOK
  <2>5. QED
    BY <2>1, <2>2, <2>3, <2>4 DEF TypeOK
<1>2. call'[p] = Idle /\ \A q \in Proc \ {p} : call'[q] = call[q]
  BY DEF Die, TypeOK
<1>3. /\ \A h \in Handle : fh'[p][h] = Closed
      /\ \A q \in Proc \ {p} : fh'[q] = fh[q]
  BY DEF Die, TypeOK
<1>4. /\ \A i \in Inode, b \in Bits : cnt'[p][i][b] = 0
      /\ \A q \in Proc \ {p} : cnt'[q] = cnt[q]
  BY DEF Die, TypeOK
<1>5. \A i \in Inode, b \in Bits : klock'[b][i] = klock[b][i] \ {p}
  BY DEF Die
<1>6. Mutex'
  <2> SUFFICES ASSUME NEW q \in Proc, call'[q].at \in {"test", "add", "remove", "leave"}
               PROVE  sm'[call'[q].inode] = q
    BY DEF Mutex
  <2>1. q # p
    BY <1>2 DEF Idle
  <2>2. sm[call[q].inode] = q /\ call[q].inode \in Inode
    BY <2>1, <1>2, CallType DEF Mutex
  <2>3. QED
    BY <2>1, <2>2, <1>2 DEF Die, TypeOK
<1>7. LocksMirrorHandles'
  <2> SUFFICES ASSUME NEW q \in Proc, NEW i \in Inode, NEW b \in Bits
               PROVE  /\ cnt'[q][i][b] = Cardinality(HandlesOn(q, i, b)')
                      /\ q \in klock'[b][i] <=> cnt'[q][i][b] > 0
    BY DEF LocksMirrorHandles
  <2>1. CASE q = p
    <3>1. HandlesOn(q, i, b)' = {}
      BY <2>1, <1>3 DEF HandlesOn
    <3>2. QED
      BY <2>1, <3>1, <1>4, <1>5, FS_EmptySet
  <2>2. CASE q # p
    <3>1. HandlesOn(q, i, b)' = HandlesOn(q, i, b)
      BY <2>2, <1>3 DEF HandlesOn
    <3>2. QED
      BY <2>2, <3>1, <1>4, <1>5 DEF LocksMirrorHandles
  <2>3. QED
    BY <2>1, <2>2
<1>8. Passed'
  <2> SUFFICES ASSUME NEW q \in Proc, call'[q].at = "add"
               PROVE  \A b \in call'[q].mode \cap Bits : Foe[b] \notin ActMode(q, call[q].inode)'
    BY DEF Passed
  <2>1. q # p
    BY <1>2 DEF Idle
  <2>2. call[q].at = "add" /\ call'[q] = call[q] /\ call[q].inode \in Inode
    BY <2>1, <1>2, CallType
  <2>3. \A j \in Inode : ActMode(q, j)' \subseteq ActMode(q, j)
    BY <2>1, <1>4, <1>5 DEF ActMode
  <2>4. QED
    BY <2>2, <2>3 DEF Passed
<1>9. DenyModesHold'
  BY <1>3 DEF DenyModesHold, OnSameFile
<1>10. \A q \in Proc : CallOk(q)'
  BY <1>2, <1>3 DEF CallOk
<1>11. QED
  BY <1>1, <1>6, <1>7, <1>8, <1>9, <1>10

(* What ADD does to the counts and to the kernel locks: read locks, one per *)
(* kind of open, that the process has once it has opens of that kind.       *)
LEMMA AddOpenEffect ==
  ASSUME TypeOK, LocksMirrorHandles, NEW p \in Proc, NEW i \in Inode,
         NEW mode \in SUBSET Bits, AddOpen(p, i, mode)
  PROVE  /\ cnt' \in [Proc -> [Inode -> [Bits -> Nat]]]
         /\ klock' \in [Bits -> [Inode -> SUBSET Proc]]
         /\ \A q \in Proc \ {p} : cnt'[q] = cnt[q]
         /\ \A b \in mode : /\ cnt'[p][i][b] = cnt[p][i][b] + 1
                            /\ klock'[b][i] = klock[b][i] \cup {p}
         /\ \A j \in Inode, b \in Bits : ~(j = i /\ b \in mode) =>
              cnt'[p][j][b] = cnt[p][j][b] /\ klock'[b][j] = klock[b][j]
<1>1. cnt[p][i] \in [Bits -> Nat]
  BY DEF TypeOK
<1>2. [b \in Bits |-> cnt[p][i][b] + (IF b \in mode THEN 1 ELSE 0)] \in [Bits -> Nat]
  BY <1>1
<1>3. cnt' = [cnt EXCEPT ![p][i] = [b \in Bits |-> cnt[p][i][b] + (IF b \in mode THEN 1 ELSE 0)]]
  BY DEF AddOpen
<1>4. cnt' \in [Proc -> [Inode -> [Bits -> Nat]]] /\ \A q \in Proc \ {p} : cnt'[q] = cnt[q]
  BY <1>2, <1>3 DEF TypeOK
<1>5. klock' \in [Bits -> [Inode -> SUBSET Proc]]
  BY DEF AddOpen, TypeOK
<1>6. ASSUME NEW j \in Inode, NEW b \in Bits
      PROVE  cnt'[p][j][b] = IF j = i /\ b \in mode THEN cnt[p][j][b] + 1 ELSE cnt[p][j][b]
  BY <1>1, <1>3, <1>6 DEF TypeOK
<1>7. ASSUME NEW j \in Inode, NEW b \in Bits
      PROVE  klock'[b][j] = IF j = i /\ b \in mode THEN klock[b][j] \cup {p} ELSE klock[b][j]
  <2>1. CASE b \in mode /\ cnt[p][i][b] = 0
    BY <2>1 DEF AddOpen, TypeOK
  <2>2. CASE ~(b \in mode /\ cnt[p][i][b] = 0)
    <3>1. klock'[b] = klock[b]
      BY <2>2 DEF AddOpen
    <3>2. b \in mode => p \in klock[b][i]
      BY <2>2, <1>1 DEF LocksMirrorHandles
    <3>3. QED
      BY <3>1, <3>2
  <2>3. QED
    BY <2>1, <2>2
<1>8. QED
  BY <1>4, <1>5, <1>6, <1>7

(* ADD preserves the inductive invariant: the handle it opens conflicts     *)
(* with none, because the call has passed the test and nobody else could    *)
(* change the inode since.                                                  *)
LEMMA AddShareStep ==
  ASSUME IInv, NEW p \in Proc, AddShare(p)
  PROVE  IInv'
<1> USE DEF IInv
<1> DEFINE i == call[p].inode
           mode == call[p].mode
           slot == call[p].slot
           new == [open |-> TRUE, inode |-> i, mode |-> mode]
<1>1. /\ call[p].at = "add"
      /\ AddOpen(p, i, mode \cap Bits)
      /\ IF "fl" \in mode THEN AddLock(p, i, mode) ELSE UNCHANGED <<fl, ex, kfl>>
      /\ fh' = [fh EXCEPT ![p] = [h \in Handle |-> IF h \in slot THEN new ELSE fh[p][h]]]
      /\ call' = [call EXCEPT ![p].at = "leave", ![p].res = "granted"]
      /\ sm' = sm
  BY DEF AddShare, lockVars
<1>2. call[p] \in Calls /\ i \in Inode /\ call[p] # Idle /\ slot \in SUBSET Handle
  BY <1>1, CallType
<1>3. sm[i] = p /\ call[p].action = "add"
  BY <1>1, <1>2 DEF Mutex, CallOk
<1>4. /\ slot = {} => mode \cap Bits = {}
      /\ slot # {} => /\ mode \in OpenModes /\ \A h \in slot : fh[p][h] = Closed
                      /\ \E h \in Handle : slot = {h}
  BY <1>1, <1>2, <1>3 DEF CallOk
<1>5. /\ cnt' \in [Proc -> [Inode -> [Bits -> Nat]]]
      /\ klock' \in [Bits -> [Inode -> SUBSET Proc]]
      /\ \A q \in Proc \ {p} : cnt'[q] = cnt[q]
      /\ \A b \in mode \cap Bits : /\ cnt'[p][i][b] = cnt[p][i][b] + 1
                                 /\ klock'[b][i] = klock[b][i] \cup {p}
      /\ \A j \in Inode, b \in Bits : ~(j = i /\ b \in mode \cap Bits) =>
           cnt'[p][j][b] = cnt[p][j][b] /\ klock'[b][j] = klock[b][j]
  <2> DEFINE m == mode \cap Bits
  <2>1. m \in SUBSET Bits /\ AddOpen(p, i, m)
    BY <1>1
  <2> HIDE DEF m, i
  <2>2. /\ cnt' \in [Proc -> [Inode -> [Bits -> Nat]]]
        /\ klock' \in [Bits -> [Inode -> SUBSET Proc]]
        /\ \A q \in Proc \ {p} : cnt'[q] = cnt[q]
        /\ \A b \in m : cnt'[p][i][b] = cnt[p][i][b] + 1 /\ klock'[b][i] = klock[b][i] \cup {p}
        /\ \A j \in Inode, b \in Bits : ~(j = i /\ b \in m) =>
             cnt'[p][j][b] = cnt[p][j][b] /\ klock'[b][j] = klock[b][j]
    BY <1>2, <2>1, AddOpenEffect
  <2>3. QED
    BY <2>2 DEF m
<1>6. /\ \A h \in Handle : fh'[p][h] = IF h \in slot THEN new ELSE fh[p][h]
      /\ \A q \in Proc \ {p} : fh'[q] = fh[q]
  BY <1>1 DEF TypeOK
<1>7. /\ \A q \in Proc \ {p} : call'[q] = call[q]
      /\ call'[p].at = "leave" /\ call'[p].inode = i /\ call'[p].mode = mode
      /\ call'[p].action = "add" /\ call'[p].slot = slot
  BY <1>1, <1>2, <1>3 DEF TypeOK, Calls
<1>8. TypeOK'
  <2>1. fh' \in [Proc -> [Handle -> File]]
    <3>1. slot # {} => new \in File
      BY <1>2, <1>4 DEF File
    <3>2. QED
      BY <1>1, <3>1 DEF TypeOK
  <2>2. call' \in [Proc -> {Idle} \cup Calls]
    BY <1>1, <1>2 DEF TypeOK, Calls
  <2>3. /\ fl' \in [Proc -> [Inode -> Nat]] /\ ex' \in [Proc -> [Inode -> Nat]]
        /\ kfl' \in [Inode -> [Proc -> {"un", "rd", "wr"}]]
    <3>1. CASE "fl" \in mode
      <4>0. AddLock(p, i, mode)
        BY <3>1, <1>1
      <4> HIDE DEF i, mode
      <4>1. fl' \in [Proc -> [Inode -> Nat]] /\ ex' \in [Proc -> [Inode -> Nat]]
        BY <4>0, <1>2 DEF AddLock, TypeOK
      <4>2. kfl' \in [Inode -> [Proc -> {"un", "rd", "wr"}]]
        BY <4>0, <1>2 DEF AddLock, SetFlLock, TypeOK
      <4>3. QED
        BY <4>1, <4>2
    <3>2. CASE "fl" \notin mode
      BY <3>2, <1>1 DEF TypeOK
    <3>3. QED
      BY <3>1, <3>2
  <2>4. QED
    BY <1>1, <1>5, <2>1, <2>2, <2>3 DEF TypeOK
<1>9. Mutex'
  BY <1>1, <1>3, <1>7 DEF Mutex
<1>10. LocksMirrorHandles'
  <2> SUFFICES ASSUME NEW q \in Proc, NEW j \in Inode, NEW b \in Bits
               PROVE  /\ cnt'[q][j][b] = Cardinality(HandlesOn(q, j, b)')
                      /\ q \in klock'[b][j] <=> cnt'[q][j][b] > 0
    BY DEF LocksMirrorHandles
  <2>1. /\ cnt[q][j][b] = Cardinality(HandlesOn(q, j, b)) /\ cnt[q][j][b] \in Nat
        /\ q \in klock[b][j] <=> cnt[q][j][b] > 0
    BY DEF LocksMirrorHandles, TypeOK
  <2>2. CASE q = p /\ j = i /\ b \in mode
    <3>1. PICK h \in Handle : slot = {h} /\ fh[p][h] = Closed
      BY <1>4, <2>2
    <3>2. HandlesOn(q, j, b)' = HandlesOn(q, j, b) \cup {h} /\ h \notin HandlesOn(q, j, b)
      BY <3>1, <2>2, <1>6 DEF HandlesOn, Closed
    <3>3. Cardinality(HandlesOn(q, j, b)') = Cardinality(HandlesOn(q, j, b)) + 1
      BY <3>2, HandlesFinite, FS_AddElement
    <3>4. QED
      BY <2>1, <2>2, <3>3, <1>5
  <2>3. CASE ~(q = p /\ j = i /\ b \in mode)
    <3>1. HandlesOn(q, j, b)' = HandlesOn(q, j, b)
      <4>1. CASE q # p
        BY <4>1, <1>6 DEF HandlesOn
      <4>2. CASE q = p
        <5>1. ASSUME NEW h \in Handle
              PROVE  h \in HandlesOn(p, j, b)' <=> h \in HandlesOn(p, j, b)
          BY <4>2, <2>3, <1>4, <1>6 DEF HandlesOn, Closed
        <5>2. QED
          BY <4>2, <5>1 DEF HandlesOn
      <4>3. QED
        BY <4>1, <4>2
    <3>2. cnt'[q][j][b] = cnt[q][j][b] /\ (q \in klock'[b][j] <=> q \in klock[b][j])
      <4> HIDE DEF i, mode
      <4>1. CASE q # p
        BY <4>1, <1>5
      <4>2. CASE q = p
        BY <4>2, <2>3, <1>5
      <4>3. QED
        BY <4>1, <4>2
    <3>3. QED
      BY <2>1, <3>1, <3>2
  <2>4. QED
    BY <2>2, <2>3
<1>11. Passed'
  <2> SUFFICES ASSUME NEW q \in Proc, call'[q].at = "add"
               PROVE  \A b \in call'[q].mode \cap Bits : Foe[b] \notin ActMode(q, call[q].inode)'
    BY DEF Passed
  <2>1. q # p /\ call'[q] = call[q]
    BY <1>7
  <2>2. call[q].inode \in Inode /\ call[q].inode # i
    BY <2>1, <1>3, CallType DEF Mutex
  <2>3. ASSUME NEW j \in Inode, j # i
        PROVE  ActMode(q, j)' = ActMode(q, j)
    <3>1. cnt'[q] = cnt[q] /\ \A b \in Bits : klock'[b][j] = klock[b][j]
      BY <2>1, <2>3, <1>5
    <3>2. QED
      BY <3>1 DEF ActMode
  <2>4. ActMode(q, call[q].inode)' = ActMode(q, call[q].inode)
    BY <2>1, <2>2, <2>3
  <2>5. QED
    BY <2>1, <2>4 DEF Passed
<1>12. DenyModesHold'
  <2>1. CASE slot = {}
    BY <2>1, <1>6 DEF DenyModesHold, OnSameFile
  <2>2. CASE slot # {}
    <3>1. PICK h \in Handle : slot = {h} /\ fh[p][h] = Closed
      BY <2>2, <1>4
    <3>2. mode \subseteq Bits
      BY <2>2, <1>4, ShareConstants
    <3>3. ASSUME NEW q \in Proc, NEW g \in Handle, fh[q][g] # Closed, fh[q][g].inode = i,
                 NEW b \in mode
          PROVE  Foe[b] \notin fh[q][g].mode
      BY <3>2, <3>3, <1>1, OpenIsSeen DEF Passed
    <3>4. /\ fh'[p][h] = new
          /\ \A q \in Proc, g \in Handle : <<q, g>> # <<p, h>> => fh'[q][g] = fh[q][g]
      BY <3>1, <1>6
    <3> SUFFICES ASSUME NEW q \in Proc, NEW r \in Proc, NEW g \in Handle, NEW k \in Handle,
                        OnSameFile(q, g, r, k)'
                 PROVE  /\ ~("dr" \in fh'[q][g].mode /\ "or" \in fh'[r][k].mode)
                        /\ ~("dw" \in fh'[q][g].mode /\ "ow" \in fh'[r][k].mode)
      BY DEF DenyModesHold
    <3>5. CASE <<q, g>> = <<p, h>>
      BY <3>3, <3>4, <3>5 DEF OnSameFile, Foe
    <3>6. CASE <<r, k>> = <<p, h>>
      BY <3>3, <3>4, <3>6 DEF OnSameFile, Foe
    <3>7. CASE <<q, g>> # <<p, h>> /\ <<r, k>> # <<p, h>>
      BY <3>4, <3>7 DEF OnSameFile, DenyModesHold
    <3>8. QED
      BY <3>5, <3>6, <3>7
  <2>3. QED
    BY <2>1, <2>2
<1>13. \A q \in Proc : CallOk(q)'
  <2> TAKE q \in Proc
  <2>1. CASE q = p
    BY <2>1, <1>2, <1>4, <1>7 DEF CallOk
  <2>2. CASE q # p
    BY <2>2, <1>6, <1>7 DEF CallOk
  <2>3. QED
    BY <2>1, <2>2
<1>14. QED
  BY <1>8, <1>9, <1>10, <1>11, <1>12, <1>13

(* What REMOVE does to them: the kernel lock of a kind of open goes with    *)
(* the last open of that kind.                                              *)
LEMMA RemoveOpenEffect ==
  ASSUME TypeOK, LocksMirrorHandles, NEW p \in Proc, NEW i \in Inode,
         NEW mode \in SUBSET Bits, RemoveOpen(p, i, mode)
  PROVE  /\ cnt' \in [Proc -> [Inode -> [Bits -> Nat]]]
         /\ klock' \in [Bits -> [Inode -> SUBSET Proc]]
         /\ \A q \in Proc \ {p} : cnt'[q] = cnt[q]
         /\ \A q \in Proc \ {p}, j \in Inode, b \in Bits : q \in klock'[b][j] <=> q \in klock[b][j]
         /\ \A b \in mode : cnt[p][i][b] > 0 => cnt'[p][i][b] = cnt[p][i][b] - 1
         /\ \A b \in mode : p \in klock'[b][i] <=> cnt'[p][i][b] > 0
         /\ \A j \in Inode, b \in Bits : ~(j = i /\ b \in mode) =>
              cnt'[p][j][b] = cnt[p][j][b] /\ klock'[b][j] = klock[b][j]
<1> DEFINE new == [b \in Bits |-> IF b \in mode /\ cnt[p][i][b] > 0
                                  THEN cnt[p][i][b] - 1 ELSE cnt[p][i][b]]
<1>1. cnt[p][i] \in [Bits -> Nat]
  BY DEF TypeOK
<1>2. new \in [Bits -> Nat]
  BY <1>1
<1>3. cnt' = [cnt EXCEPT ![p][i] = new]
  BY DEF RemoveOpen
<1>4. /\ cnt' \in [Proc -> [Inode -> [Bits -> Nat]]]
      /\ \A q \in Proc \ {p} : cnt'[q] = cnt[q]
      /\ cnt'[p][i] = new /\ \A j \in Inode \ {i} : cnt'[p][j] = cnt[p][j]
  <2> HIDE DEF new
  <2> QED
    BY <1>2, <1>3 DEF TypeOK
<1>5. klock' \in [Bits -> [Inode -> SUBSET Proc]]
  BY DEF RemoveOpen, TypeOK
<1>6. ASSUME NEW j \in Inode, NEW b \in Bits
      PROVE  /\ klock'[b][j] = klock[b][j] \ {p} \/ klock'[b][j] = klock[b][j]
             /\ ~(j = i /\ b \in mode) => klock'[b][j] = klock[b][j]
  BY DEF RemoveOpen, TypeOK
<1>7. ASSUME NEW b \in mode
      PROVE  p \in klock'[b][i] <=> cnt'[p][i][b] > 0
  <2>1. p \in klock[b][i] <=> cnt[p][i][b] > 0
    BY DEF LocksMirrorHandles
  <2>2. CASE cnt[p][i][b] = 1
    BY <2>2, <1>4 DEF RemoveOpen, TypeOK
  <2>3. CASE cnt[p][i][b] # 1
    <3>1. klock'[b] = klock[b]
      BY <2>3 DEF RemoveOpen
    <3>2. QED
      BY <2>1, <2>3, <3>1, <1>1, <1>4
  <2>4. QED
    BY <2>2, <2>3
<1>8. ASSUME NEW b \in mode, cnt[p][i][b] > 0
      PROVE  cnt'[p][i][b] = cnt[p][i][b] - 1
  BY <1>8, <1>4
<1>9. ASSUME NEW j \in Inode, NEW b \in Bits, ~(j = i /\ b \in mode)
      PROVE  cnt'[p][j][b] = cnt[p][j][b]
  BY <1>9, <1>4
<1>10. QED
  BY <1>4, <1>5, <1>6, <1>7, <1>8, <1>9

(* REMOVE preserves the inductive invariant.                                *)
LEMMA RemoveShareStep ==
  ASSUME IInv, NEW p \in Proc, RemoveShare(p)
  PROVE  IInv'
<1> USE DEF IInv
<1> DEFINE i == call[p].inode
           mode == call[p].mode
           slot == call[p].slot
<1>1. /\ call[p].at = "remove"
      /\ RemoveOpen(p, i, mode \cap Bits)
      /\ IF "fl" \in mode THEN RemoveLock(p, i) ELSE UNCHANGED <<fl, ex, kfl>>
      /\ fh' = [fh EXCEPT ![p] = [h \in Handle |-> IF h \in slot THEN Closed ELSE fh[p][h]]]
      /\ call' = [call EXCEPT ![p].at = "leave", ![p].res = "granted"]
      /\ sm' = sm
  BY DEF RemoveShare, lockVars
<1>2. call[p] \in Calls /\ i \in Inode /\ call[p] # Idle /\ slot \in SUBSET Handle
  BY <1>1, CallType
<1>3. sm[i] = p /\ call[p].action = "remove"
  BY <1>1, <1>2 DEF Mutex, CallOk
<1>4. /\ slot = {} => mode \cap Bits = {}
      /\ slot # {} =>
           /\ mode \in OpenModes
           /\ \A h \in slot : fh[p][h] = [open |-> TRUE, inode |-> i, mode |-> mode]
           /\ \E h \in Handle : slot = {h}
  BY <1>1, <1>2, <1>3 DEF CallOk
<1>5. /\ cnt' \in [Proc -> [Inode -> [Bits -> Nat]]]
      /\ klock' \in [Bits -> [Inode -> SUBSET Proc]]
      /\ \A q \in Proc \ {p} : cnt'[q] = cnt[q]
      /\ \A q \in Proc \ {p}, j \in Inode, b \in Bits : q \in klock'[b][j] <=> q \in klock[b][j]
      /\ \A b \in mode \cap Bits : cnt[p][i][b] > 0 => cnt'[p][i][b] = cnt[p][i][b] - 1
      /\ \A b \in mode \cap Bits : p \in klock'[b][i] <=> cnt'[p][i][b] > 0
      /\ \A j \in Inode, b \in Bits : ~(j = i /\ b \in mode \cap Bits) =>
           cnt'[p][j][b] = cnt[p][j][b] /\ klock'[b][j] = klock[b][j]
  <2> DEFINE m == mode \cap Bits
  <2>1. m \in SUBSET Bits /\ RemoveOpen(p, i, m)
    BY <1>1
  <2> HIDE DEF m, i
  <2>2. /\ cnt' \in [Proc -> [Inode -> [Bits -> Nat]]]
        /\ klock' \in [Bits -> [Inode -> SUBSET Proc]]
        /\ \A q \in Proc \ {p} : cnt'[q] = cnt[q]
        /\ \A q \in Proc \ {p}, j \in Inode, b \in Bits : q \in klock'[b][j] <=> q \in klock[b][j]
        /\ \A b \in m : cnt[p][i][b] > 0 => cnt'[p][i][b] = cnt[p][i][b] - 1
        /\ \A b \in m : p \in klock'[b][i] <=> cnt'[p][i][b] > 0
        /\ \A j \in Inode, b \in Bits : ~(j = i /\ b \in m) =>
             cnt'[p][j][b] = cnt[p][j][b] /\ klock'[b][j] = klock[b][j]
    BY <1>2, <2>1, RemoveOpenEffect
  <2>3. QED
    BY <2>2 DEF m
<1>6. /\ \A h \in Handle : fh'[p][h] = IF h \in slot THEN Closed ELSE fh[p][h]
      /\ \A q \in Proc \ {p} : fh'[q] = fh[q]
  BY <1>1 DEF TypeOK
<1>7. /\ \A q \in Proc \ {p} : call'[q] = call[q]
      /\ call'[p].at = "leave" /\ call'[p].inode = i /\ call'[p].mode = mode
      /\ call'[p].action = "remove" /\ call'[p].slot = slot
  BY <1>1, <1>2, <1>3 DEF TypeOK, Calls
<1>8. TypeOK'
  <2>1. fh' \in [Proc -> [Handle -> File]]
    <3>1. Closed \in File
      BY DEF File
    <3>2. QED
      BY <1>1, <3>1 DEF TypeOK
  <2>2. call' \in [Proc -> {Idle} \cup Calls]
    BY <1>1, <1>2 DEF TypeOK, Calls
  <2>3. /\ fl' \in [Proc -> [Inode -> Nat]] /\ ex' \in [Proc -> [Inode -> Nat]]
        /\ kfl' \in [Inode -> [Proc -> {"un", "rd", "wr"}]]
    <3>1. CASE "fl" \in mode
      <4>0. RemoveLock(p, i)
        BY <3>1, <1>1
      <4> HIDE DEF i, mode
      <4>1. fl' \in [Proc -> [Inode -> Nat]] /\ ex' \in [Proc -> [Inode -> Nat]]
        BY <4>0, <1>2 DEF RemoveLock, TypeOK
      <4>2. kfl' \in [Inode -> [Proc -> {"un", "rd", "wr"}]]
        BY <4>0, <1>2 DEF RemoveLock, TypeOK
      <4>3. QED
        BY <4>1, <4>2
    <3>2. CASE "fl" \notin mode
      BY <3>2, <1>1 DEF TypeOK
    <3>3. QED
      BY <3>1, <3>2
  <2>4. QED
    BY <1>1, <1>5, <2>1, <2>2, <2>3 DEF TypeOK
<1>9. Mutex'
  BY <1>1, <1>3, <1>7 DEF Mutex
<1>10. LocksMirrorHandles'
  <2> SUFFICES ASSUME NEW q \in Proc, NEW j \in Inode, NEW b \in Bits
               PROVE  /\ cnt'[q][j][b] = Cardinality(HandlesOn(q, j, b)')
                      /\ q \in klock'[b][j] <=> cnt'[q][j][b] > 0
    BY DEF LocksMirrorHandles
  <2>1. /\ cnt[q][j][b] = Cardinality(HandlesOn(q, j, b)) /\ cnt[q][j][b] \in Nat
        /\ q \in klock[b][j] <=> cnt[q][j][b] > 0
    BY DEF LocksMirrorHandles, TypeOK
  <2>2. CASE q = p /\ j = i /\ b \in mode
    <3>1. PICK h \in Handle : slot = {h} /\ fh[p][h] = [open |-> TRUE, inode |-> i, mode |-> mode]
      BY <1>4, <2>2
    <3>2. HandlesOn(q, j, b)' = HandlesOn(q, j, b) \ {h} /\ h \in HandlesOn(q, j, b)
      BY <3>1, <2>2, <1>6 DEF HandlesOn, Closed
    <3>3. Cardinality(HandlesOn(q, j, b)') = Cardinality(HandlesOn(q, j, b)) - 1
      <4>1. IsFiniteSet(HandlesOn(q, j, b))
        BY HandlesFinite
      <4>2. Cardinality(HandlesOn(q, j, b) \ {h}) = Cardinality(HandlesOn(q, j, b)) - 1
        BY <3>2, <4>1, FS_RemoveElement
      <4>3. QED
        BY <3>2, <4>2
    <3>4. cnt[q][j][b] > 0
      BY <3>2, <2>1, HandlesFinite
    <3>5. cnt'[q][j][b] = cnt[q][j][b] - 1 /\ (q \in klock'[b][j] <=> cnt'[q][j][b] > 0)
      <4>1. b \in mode \cap Bits /\ cnt[p][i][b] \in Nat /\ cnt'[p][i][b] \in Nat
        BY <2>2, <1>2, <1>5 DEF TypeOK
      <4>2. \A d \in mode \cap Bits : cnt[p][i][d] > 0 => cnt'[p][i][d] = cnt[p][i][d] - 1
        BY <1>5
      <4>3. \A d \in mode \cap Bits : p \in klock'[d][i] <=> cnt'[p][i][d] > 0
        BY <1>5
      <4> HIDE DEF i, mode
      <4>4. cnt[p][i][b] > 0 => cnt'[p][i][b] = cnt[p][i][b] - 1
        BY <4>1, <4>2
      <4>5. p \in klock'[b][i] <=> cnt'[p][i][b] > 0
        BY <4>1, <4>3
      <4>6. QED
        BY <2>2, <3>4, <4>4, <4>5
    <3>6. QED
      BY <2>1, <3>3, <3>5
  <2>3. CASE ~(q = p /\ j = i /\ b \in mode)
    <3>1. HandlesOn(q, j, b)' = HandlesOn(q, j, b)
      <4>1. CASE q # p
        BY <4>1, <1>6 DEF HandlesOn
      <4>2. CASE q = p
        <5>1. ASSUME NEW h \in Handle
              PROVE  h \in HandlesOn(p, j, b)' <=> h \in HandlesOn(p, j, b)
          BY <4>2, <2>3, <1>4, <1>6 DEF HandlesOn, Closed
        <5>2. QED
          BY <4>2, <5>1 DEF HandlesOn
      <4>3. QED
        BY <4>1, <4>2
    <3>2. cnt'[q][j][b] = cnt[q][j][b] /\ (q \in klock'[b][j] <=> q \in klock[b][j])
      <4> HIDE DEF i, mode
      <4>1. CASE q # p
        BY <4>1, <1>5
      <4>2. CASE q = p
        BY <4>2, <2>3, <1>5
      <4>3. QED
        BY <4>1, <4>2
    <3>3. QED
      BY <2>1, <3>1, <3>2
  <2>4. QED
    BY <2>2, <2>3
<1>11. Passed'
  <2> SUFFICES ASSUME NEW q \in Proc, call'[q].at = "add"
               PROVE  \A b \in call'[q].mode \cap Bits : Foe[b] \notin ActMode(q, call[q].inode)'
    BY DEF Passed
  <2>1. q # p /\ call'[q] = call[q]
    BY <1>7
  <2>2. call[q].inode \in Inode /\ call[q].inode # i
    BY <2>1, <1>3, CallType DEF Mutex
  <2>3. ASSUME NEW j \in Inode, j # i
        PROVE  ActMode(q, j)' = ActMode(q, j)
    <3>1. cnt'[q] = cnt[q] /\ \A b \in Bits : klock'[b][j] = klock[b][j]
      BY <2>1, <2>3, <1>5
    <3>2. QED
      BY <3>1 DEF ActMode
  <2>4. ActMode(q, call[q].inode)' = ActMode(q, call[q].inode)
    BY <2>1, <2>2, <2>3
  <2>5. QED
    BY <2>1, <2>4 DEF Passed
<1>12. DenyModesHold'
  BY <1>6 DEF DenyModesHold, OnSameFile
<1>13. \A q \in Proc : CallOk(q)'
  <2> TAKE q \in Proc
  <2>1. CASE q = p
    BY <2>1, <1>2, <1>4, <1>7 DEF CallOk
  <2>2. CASE q # p
    BY <2>2, <1>6, <1>7 DEF CallOk
  <2>3. QED
    BY <2>1, <2>2
<1>14. QED
  BY <1>8, <1>9, <1>10, <1>11, <1>12, <1>13

-----------------------------------------------------------------------------
(* A step that changes nothing preserves the inductive invariant.           *)
LEMMA StutterStep ==
  ASSUME IInv, UNCHANGED vars
  PROVE  IInv'
<1>1. UNCHANGED <<fh, cnt, klock, fl, ex, kfl, sm, call>>
  BY DEF vars
<1>2. TypeOK' /\ Mutex'
  BY <1>1 DEF IInv, TypeOK, Mutex
<1>3. Passed'
  BY <1>1 DEF IInv, Passed, ActMode
<1>4. \A p \in Proc : CallOk(p)'
  BY <1>1 DEF IInv, CallOk
<1>5. QED
  BY <1>1, <1>2, <1>3, <1>4, FilesUnchanged DEF IInv

(* IInv is an invariant of share_file, for any number of processes, inodes  *)
(* and handles.                                                             *)
THEOREM Invariance == Spec => []IInv
<1>1. IInv /\ [Next]_vars => IInv'
  <2> SUFFICES ASSUME IInv, [Next]_vars PROVE IInv'
    OBVIOUS
  <2>1. CASE UNCHANGED vars
    BY <2>1, StutterStep
  <2>2. CASE Next
    <3> PICK p \in Proc : Request(p) \/ SetSemaphor(p) \/ Step(p) \/ Die(p)
      BY <2>2 DEF Next
    <3> QED
      BY RequestStep, SetSemaphorStep, TestShareStep, AddShareStep, RemoveShareStep,
         LeaveStep, DieStep DEF Step
  <2>3. QED
    BY <2>1, <2>2
<1>2. QED
  BY InitIInv, <1>1, PTL DEF Spec

(* Type correctness of the share state.                                     *)
THEOREM TypeCorrect == Spec => []TypeOK
<1>1. IInv => TypeOK
  BY DEF IInv
<1>2. QED
  BY <1>1, Invariance, PTL

(* The deny modes of nwshare.c hold between all handles of all processes,   *)
(* although no process knows the handles of the others, calls interleave    *)
(* and processes are killed.                                                *)
THEOREM DenyModes == Spec => []DenyModesHold
<1>1. IInv => DenyModesHold
  BY DEF IInv
<1>2. QED
  BY <1>1, Invariance, PTL

(* The kernel locks that nwshare.c sets are those its open handles need.    *)
THEOREM LocksMirror == Spec => []LocksMirrorHandles
<1>1. IInv => LocksMirrorHandles
  BY DEF IInv
<1>2. QED
  BY <1>1, Invariance, PTL

-----------------------------------------------------------------------------
(* ShareFile implements ShareService: what the processes decide through    *)
(* byte locks is what one server that knows every handle would decide.     *)

(* What a call carries: file locks have no handle, all others are opens,    *)
(* closes and tests with an access mode; and no answer before the decision. *)
ArgsOk(p) ==
  LET c == call[p]
  IN  c # Idle =>
        /\ "fl" \in c.mode => c.slot = {}
        /\ "fl" \notin c.mode => c.mode \in OpenModes
        /\ "fl" \notin c.mode /\ c.action # "test" => c.slot # {}
        /\ c.at # "leave" => c.res = "none"

RInv == IInv /\ \A p \in Proc : ArgsOk(p)

Outcome == [p \in Proc |-> Answered(p)]

-----------------------------------------------------------------------------
(* A step of p changes no other process's call.                             *)
LEMMA OwnCall ==
  ASSUME TypeOK, NEW p \in Proc, Request(p) \/ SetSemaphor(p) \/ Step(p) \/ Die(p)
  PROVE  \A q \in Proc \ {p} : call'[q] = call[q]
<1>1. CASE Request(p)
  BY <1>1 DEF Request, Open, Close, Test, LockFile, UnlockFile, Enter, TypeOK
<1>2. CASE SetSemaphor(p)
  BY <1>2 DEF SetSemaphor, TypeOK
<1>3. CASE Step(p)
  BY <1>3 DEF Step, TestShare, AddShare, RemoveShare, Leave, TypeOK
<1>4. CASE Die(p)
  BY <1>4 DEF Die, TypeOK
<1> QED BY <1>1, <1>2, <1>3, <1>4

(* The arguments stay as the handlers gave them, and the answer comes with  *)
(* the decision.                                                            *)
LEMMA ArgsStep ==
  ASSUME IInv, \A p \in Proc : ArgsOk(p), Next
  PROVE  \A p \in Proc : ArgsOk(p)'
<1> USE ShareConstants
<1>1. PICK p \in Proc : Request(p) \/ SetSemaphor(p) \/ Step(p) \/ Die(p)
  BY DEF Next
<1>2. TypeOK
  BY DEF IInv
<1>3. \A q \in Proc \ {p} : call'[q] = call[q]
  BY <1>1, <1>2, OwnCall
<1>4. ArgsOk(p)'
  <2>1. CASE Request(p)
    <3>1. ASSUME NEW i \in Inode, NEW mode, NEW action, NEW slot, Enter(p, i, mode, action, slot),
                 "fl" \in mode => slot = {},
                 "fl" \notin mode => mode \in OpenModes,
                 "fl" \notin mode /\ action # "test" => slot # {}
          PROVE  ArgsOk(p)'
      <4>1. call'[p] = [at |-> "wait", inode |-> i, mode |-> mode,
                        action |-> action, slot |-> slot, res |-> "none"]
        BY <3>1, <1>2 DEF Enter, TypeOK
      <4> QED BY <4>1, <3>1 DEF ArgsOk
    <3>2. ASSUME NEW h \in Handle, NEW i \in Inode, NEW m \in OpenModes, Open(p, h, i, m)
          PROVE  ArgsOk(p)'
      <4>1. "fl" \notin m BY DEF Bits
      <4> QED BY <3>1, <3>2, <4>1 DEF Open
    <3>3. ASSUME NEW h \in Handle, Close(p, h) PROVE ArgsOk(p)'
      <4>1. fh[p][h] \in File /\ fh[p][h] # Closed BY <3>3, <1>2 DEF TypeOK, Close
      <4>2. fh[p][h].inode \in Inode /\ fh[p][h].mode \in OpenModes BY <4>1 DEF File
      <4>3. "fl" \notin fh[p][h].mode BY <4>2 DEF Bits
      <4> QED BY <3>1, <3>3, <4>2, <4>3 DEF Close
    <3>4. ASSUME NEW i \in Inode, NEW m \in OpenModes \cup {Bits \cup {"fl"}}, Test(p, i, m)
          PROVE  ArgsOk(p)'
      BY <3>1, <3>4 DEF Test
    <3>5. ASSUME NEW i \in Inode, NEW m \in LockModes, LockFile(p, i, m) PROVE ArgsOk(p)'
      <4>1. "fl" \in m BY DEF LockModes
      <4> QED BY <3>1, <3>5, <4>1 DEF LockFile
    <3>6. ASSUME NEW i \in Inode, UnlockFile(p, i) PROVE ArgsOk(p)'
      BY <3>1, <3>6 DEF UnlockFile
    <3> QED BY <2>1, <3>2, <3>3, <3>4, <3>5, <3>6 DEF Request
  <2>2. CASE Leave(p) \/ Die(p)
    <3>1. call'[p] = Idle BY <2>2, <1>2 DEF Leave, Die, TypeOK
    <3> QED BY <3>1 DEF ArgsOk
  <2>3. CASE SetSemaphor(p) \/ TestShare(p) \/ AddShare(p) \/ RemoveShare(p)
    <3>1. call[p].at # "idle"
      BY <2>3 DEF SetSemaphor, TestShare, AddShare, RemoveShare
    <3>2. call[p] \in Calls /\ call[p] # Idle
      BY <3>1, <1>2, CallType
    <3>3. /\ call'[p].mode = call[p].mode /\ call'[p].slot = call[p].slot
          /\ call'[p].action = call[p].action
          /\ call'[p].at # "leave" => call'[p].res = "none"
      <4>1. call[p].at # "leave" /\ call[p].res = "none"
        BY <2>3, <3>2 DEF SetSemaphor, TestShare, AddShare, RemoveShare, ArgsOk
      <4>2. CASE SetSemaphor(p) BY <4>1, <4>2, <3>2, <1>2 DEF SetSemaphor, TypeOK, Calls
      <4>3. CASE TestShare(p) BY <4>1, <4>3, <3>2, <1>2 DEF TestShare, TypeOK, Calls
      <4>4. CASE AddShare(p) BY <4>1, <4>4, <3>2, <1>2 DEF AddShare, TypeOK, Calls
      <4>5. CASE RemoveShare(p) BY <4>1, <4>5, <3>2, <1>2 DEF RemoveShare, TypeOK, Calls
      <4> QED BY <2>3, <4>2, <4>3, <4>4, <4>5
    <3> QED BY <3>2, <3>3 DEF ArgsOk
  <2> QED BY <1>1, <2>1, <2>2, <2>3 DEF Step
<1>5. ASSUME NEW q \in Proc PROVE ArgsOk(q)'
  <2>1. CASE q = p BY <2>1, <1>4
  <2>2. CASE q # p
    <3>1. call'[q] = call[q] BY <2>2, <1>3
    <3> QED BY <3>1 DEF ArgsOk
  <2> QED BY <2>1, <2>2
<1> QED BY <1>5

-----------------------------------------------------------------------------
(* The test of share_file, made from own counts and kernel locks, decides   *)
(* what the handles of all processes demand.                                *)
LEMMA SameDecision ==
  ASSUME IInv, NEW p \in Proc, NEW i \in Inode, NEW m \in OpenModes
  PROVE  Service!Compatible(i, m) <=> \A b \in m \cap Bits : Foe[b] \notin ActMode(p, i)
<1> USE ShareConstants
<1>1. m \subseteq Bits
  OBVIOUS
<1>2. \A b \in Bits : Service!Deny(b) = Foe[b] /\ Foe[b] \in Bits
  BY DEF Bits, Foe, Service!Deny
<1>3. ASSUME NEW q \in Proc, NEW h \in Handle, fh[q][h] # Closed, fh[q][h].inode = i,
             NEW b \in m, Foe[b] \in fh[q][h].mode
      PROVE  Foe[b] \in ActMode(p, i)
  BY <1>3, OpenIsSeen DEF IInv
<1>4. ASSUME NEW b \in m, Foe[b] \in ActMode(p, i)
      PROVE  \E q \in Proc, h \in Handle :
               fh[q][h] # Closed /\ fh[q][h].inode = i /\ Foe[b] \in fh[q][h].mode
  <2>1. Foe[b] \in Bits BY <1>1, <1>2
  <2>2. klock[Foe[b]][i] \subseteq Proc BY <2>1 DEF IInv, TypeOK
  <2>3. PICK q \in Proc : cnt[q][i][Foe[b]] > 0
    <3>1. CASE cnt[p][i][Foe[b]] > 0 BY <3>1
    <3>2. CASE klock[Foe[b]][i] \ {p} # {}
      <4>1. PICK r \in klock[Foe[b]][i] : TRUE BY <3>2
      <4>2. r \in Proc BY <2>2
      <4>3. cnt[r][i][Foe[b]] > 0 BY <4>2, <2>1 DEF IInv, LocksMirrorHandles
      <4> QED BY <4>2, <4>3
    <3> QED BY <1>4, <3>1, <3>2 DEF ActMode
  <2>4. HandlesOn(q, i, Foe[b]) # {}
    BY <2>1, <2>3, HandlesFinite DEF IInv, LocksMirrorHandles
  <2> QED BY <2>4 DEF HandlesOn
<1>5. ASSUME \A b \in m \cap Bits : Foe[b] \notin ActMode(p, i) PROVE Service!Compatible(i, m)
  BY <1>1, <1>2, <1>3, <1>5 DEF Service!Compatible, Service!Closed, Closed
<1>6. ASSUME Service!Compatible(i, m), NEW b \in m \cap Bits PROVE Foe[b] \notin ActMode(p, i)
  BY <1>1, <1>2, <1>4, <1>6 DEF Service!Compatible, Service!Closed, Closed
<1> QED BY <1>5, <1>6

-----------------------------------------------------------------------------
(* How the answers of the service follow those of the call of p.            *)
LEMMA OutcomeStep ==
  ASSUME NEW p \in Proc, \A q \in Proc \ {p} : call'[q] = call[q], NEW a, Answered(p)' = a
  PROVE  /\ Outcome' = [Outcome EXCEPT ![p] = a]
         /\ Answered(p) = a => Outcome' = Outcome
<1>1. \A q \in Proc \ {p} : Answered(q)' = Answered(q)
  BY DEF Answered
<1> QED BY <1>1 DEF Outcome

(* Taking up a call and waiting for the mutex decide nothing.               *)
LEMMA BeginStutters ==
  ASSUME RInv, NEW p \in Proc, Request(p) \/ SetSemaphor(p)
  PROVE  UNCHANGED <<fh, Outcome>>
<1>1. TypeOK BY DEF RInv, IInv
<1>2. \A q \in Proc \ {p} : call'[q] = call[q] BY <1>1, OwnCall
<1>3. UNCHANGED fh /\ Answered(p)' = Answered(p)
  <2>1. CASE Request(p)
    <3>1. PICK i, mode, action, slot : Enter(p, i, mode, action, slot)
      BY <2>1 DEF Request, Open, Close, Test, LockFile, UnlockFile
    <3>2. /\ call[p] = Idle /\ UNCHANGED fh
          /\ call'[p] = [at |-> "wait", inode |-> i, mode |-> mode,
                         action |-> action, slot |-> slot, res |-> "none"]
      BY <3>1, <1>1 DEF Enter, TypeOK
    <3>3. call'[p] # Idle /\ call'[p].res = "none" BY <3>2 DEF Idle
    <3> QED BY <3>2, <3>3 DEF Answered
  <2>2. CASE SetSemaphor(p)
    <3>1. call[p] \in Calls /\ call[p] # Idle BY <2>2, <1>1, CallType DEF SetSemaphor
    <3>2. /\ call'[p].mode = call[p].mode /\ call'[p].res = call[p].res
          /\ call'[p].at # "idle" /\ UNCHANGED fh
      BY <2>2, <3>1, <1>1 DEF SetSemaphor, TypeOK, Calls
    <3>3. call'[p] # Idle BY <3>2 DEF Idle
    <3> QED BY <3>1, <3>2, <3>3 DEF Answered
  <2> QED BY <2>1, <2>2
<1> QED BY <1>2, <1>3, OutcomeStep

(* The test decides a test, and an open that is refused.                    *)
LEMMA TestDecides ==
  ASSUME RInv, NEW p \in Proc, TestShare(p)
  PROVE  Service!Next \/ UNCHANGED <<fh, Outcome>>
<1> DEFINE c == call[p]
           r == IF Collides(p, c.inode, c.mode) THEN "refused" ELSE "granted"
<1> USE ShareConstants
<1>1. TypeOK BY DEF RInv, IInv
<1>2. \A q \in Proc \ {p} : call'[q] = call[q] BY <1>1, OwnCall DEF Step
<1>3. c \in Calls /\ c # Idle /\ c.at = "test" BY <1>1, CallType DEF TestShare
<1>4. /\ call'[p].mode = c.mode /\ call'[p].at # "idle" /\ UNCHANGED fh
      /\ call'[p].res = IF r = "granted" /\ c.action = "add" THEN "none" ELSE r
  BY <1>1, <1>3 DEF TestShare, TypeOK, Calls
<1>5. call'[p] # Idle BY <1>4 DEF Idle
<1>6. CASE "fl" \in c.mode \/ (r = "granted" /\ c.action = "add")
  <2>1. Answered(p)' = "none" BY <1>4, <1>5, <1>6 DEF Answered
  <2>2. Answered(p) = "none" BY <1>3 DEF RInv, ArgsOk, Answered
  <2> QED BY <1>2, <1>4, <2>1, <2>2, OutcomeStep
<1>7. CASE "fl" \notin c.mode /\ ~(r = "granted" /\ c.action = "add")
  <2>1. Answered(p)' = r BY <1>4, <1>5, <1>7 DEF Answered
  <2>2. c.mode \in OpenModes /\ c.inode \in Inode BY <1>3, <1>7 DEF RInv, ArgsOk, Calls
  <2>3. c.mode \subseteq Bits BY <2>2
  <2>4. Collides(p, c.inode, c.mode) <=>
          \E b \in c.mode \cap Bits : Foe[b] \in ActMode(p, c.inode)
    BY <2>3 DEF Collides, Bits
  <2>5. r = IF Service!Compatible(c.inode, c.mode) THEN "granted" ELSE "refused"
    BY <2>2, <2>4, SameDecision DEF RInv
  <2>6. Outcome' = [Outcome EXCEPT ![p] = r] BY <1>2, <2>1, OutcomeStep
  <2>7. Service!Test(p, c.inode, c.mode)
    BY <1>4, <2>5, <2>6 DEF Service!Test, Service!Answer, Outcome
  <2> QED BY <2>2, <2>7 DEF Service!Next
<1> QED BY <1>6, <1>7

(* The add is the moment at which an open is granted.                       *)
LEMMA AddDecides ==
  ASSUME RInv, NEW p \in Proc, AddShare(p)
  PROVE  Service!Next \/ UNCHANGED <<fh, Outcome>>
<1> DEFINE c == call[p]
<1> USE ShareConstants
<1>1. TypeOK /\ IInv BY DEF RInv, IInv
<1>2. \A q \in Proc \ {p} : call'[q] = call[q] BY <1>1, OwnCall DEF Step
<1>3. c \in Calls /\ c # Idle /\ c.at = "add" BY <1>1, CallType DEF AddShare
<1>4. /\ call'[p].mode = c.mode /\ call'[p].at # "idle" /\ call'[p].res = "granted"
      /\ fh' = [fh EXCEPT ![p] = [h \in Handle |->
                  IF h \in c.slot THEN [open |-> TRUE, inode |-> c.inode, mode |-> c.mode]
                  ELSE fh[p][h]]]
  BY <1>1, <1>3 DEF AddShare, TypeOK, Calls
<1>5. call'[p] # Idle BY <1>4 DEF Idle
<1>6. CASE "fl" \in c.mode
  <2>1. Answered(p)' = "none" BY <1>4, <1>5, <1>6 DEF Answered
  <2>2. Answered(p) = "none" BY <1>3 DEF RInv, ArgsOk, Answered
  <2>3. c.slot = {} BY <1>3, <1>6 DEF RInv, ArgsOk
  <2>4. UNCHANGED fh BY <1>1, <1>4, <2>3 DEF TypeOK
  <2> QED BY <1>2, <2>1, <2>2, <2>4, OutcomeStep
<1>7. CASE "fl" \notin c.mode
  <2>1. Answered(p)' = "granted" BY <1>4, <1>5, <1>7 DEF Answered
  <2>2. c.mode \in OpenModes /\ c.inode \in Inode /\ c.action = "add" /\ c.slot # {}
    BY <1>1, <1>3, <1>7 DEF RInv, IInv, ArgsOk, CallOk, Calls
  <2>3. PICK h \in Handle : c.slot = {h} BY <1>1, <1>3, <2>2 DEF IInv, CallOk
  <2>4. fh[p][h] = Closed BY <1>1, <1>3, <2>2, <2>3 DEF IInv, CallOk
  <2>5. Service!Compatible(c.inode, c.mode)
    BY <1>1, <1>3, <2>2, SameDecision DEF IInv, Passed
  <2>6. fh' = [fh EXCEPT ![p][h] = [open |-> TRUE, inode |-> c.inode, mode |-> c.mode]]
    BY <1>1, <1>4, <2>3 DEF TypeOK
  <2>7. Outcome' = [Outcome EXCEPT ![p] = "granted"] BY <1>2, <2>1, OutcomeStep
  <2>8. Service!Open(p, h, c.inode, c.mode)
    BY <2>4, <2>5, <2>6, <2>7 DEF Service!Open, Service!Answer, Service!Closed, Closed, Outcome
  <2> QED BY <2>2, <2>8 DEF Service!Next
<1> QED BY <1>6, <1>7

(* The remove is the moment of a close.                                     *)
LEMMA RemoveDecides ==
  ASSUME RInv, NEW p \in Proc, RemoveShare(p)
  PROVE  Service!Next \/ UNCHANGED <<fh, Outcome>>
<1> DEFINE c == call[p]
<1>1. TypeOK /\ IInv BY DEF RInv, IInv
<1>2. \A q \in Proc \ {p} : call'[q] = call[q] BY <1>1, OwnCall DEF Step
<1>3. c \in Calls /\ c # Idle /\ c.at = "remove" BY <1>1, CallType DEF RemoveShare
<1>4. /\ call'[p].mode = c.mode /\ call'[p].at # "idle" /\ call'[p].res = "granted"
      /\ fh' = [fh EXCEPT ![p] = [h \in Handle |-> IF h \in c.slot THEN Closed ELSE fh[p][h]]]
  BY <1>1, <1>3 DEF RemoveShare, TypeOK, Calls
<1>5. call'[p] # Idle BY <1>4 DEF Idle
<1>6. CASE "fl" \in c.mode
  <2>1. Answered(p)' = "none" BY <1>4, <1>5, <1>6 DEF Answered
  <2>2. Answered(p) = "none" BY <1>3 DEF RInv, ArgsOk, Answered
  <2>3. c.slot = {} BY <1>3, <1>6 DEF RInv, ArgsOk
  <2>4. UNCHANGED fh BY <1>1, <1>4, <2>3 DEF TypeOK
  <2> QED BY <1>2, <2>1, <2>2, <2>4, OutcomeStep
<1>7. CASE "fl" \notin c.mode
  <2>1. Answered(p)' = "granted" BY <1>4, <1>5, <1>7 DEF Answered
  <2>2. c.action = "remove" /\ c.slot # {}
    BY <1>1, <1>3, <1>7 DEF RInv, IInv, ArgsOk, CallOk
  <2>3. PICK h \in Handle : c.slot = {h} BY <1>1, <1>3, <2>2 DEF IInv, CallOk
  <2>4. fh[p][h] = [open |-> TRUE, inode |-> c.inode, mode |-> c.mode]
    BY <1>1, <1>3, <2>2, <2>3 DEF IInv, CallOk
  <2>5. fh[p][h] # Closed BY <2>4 DEF Closed
  <2>6. fh' = [fh EXCEPT ![p][h] = Closed] BY <1>1, <1>4, <2>3 DEF TypeOK
  <2>7. Outcome' = [Outcome EXCEPT ![p] = "granted"] BY <1>2, <2>1, OutcomeStep
  <2>8. Service!Close(p, h)
    BY <2>5, <2>6, <2>7 DEF Service!Close, Service!Answer, Service!Closed, Closed, Outcome
  <2> QED BY <2>8 DEF Service!Next
<1> QED BY <1>6, <1>7

(* Leaving share_file returns the answer; a killed process loses its        *)
(* handles, as in the service.                                              *)
LEMMA EndReturns ==
  ASSUME RInv, NEW p \in Proc, Leave(p) \/ Die(p)
  PROVE  Service!Next
<1>1. TypeOK BY DEF RInv, IInv
<1>2. \A q \in Proc \ {p} : call'[q] = call[q] BY <1>1, OwnCall DEF Step
<1>3. call'[p] = Idle BY <1>1 DEF Leave, Die, TypeOK
<1>4. Answered(p)' = "none" BY <1>3 DEF Answered
<1>5. Outcome' = [Outcome EXCEPT ![p] = "none"] BY <1>2, <1>4, OutcomeStep
<1>6. CASE Leave(p)
  <2>1. Service!Return(p) BY <1>5, <1>6 DEF Leave, Service!Return, Service!Answer, Outcome
  <2> QED BY <2>1 DEF Service!Next
<1>7. CASE Die(p)
  <2>1. Service!Die(p)
    BY <1>5, <1>7 DEF Die, Service!Die, Service!Answer, Service!Closed, Closed, Outcome
  <2> QED BY <2>1 DEF Service!Next
<1> QED BY <1>6, <1>7

-----------------------------------------------------------------------------
(* The invariant that the simulation needs.                                 *)
LEMMA RInvariance == Spec => []RInv
<1>1. Init => \A p \in Proc : ArgsOk(p)
  BY DEF Init, ArgsOk
<1>2. IInv /\ (\A p \in Proc : ArgsOk(p)) /\ [Next]_vars => (\A p \in Proc : ArgsOk(p))'
  <2>1. ASSUME \A p \in Proc : ArgsOk(p), UNCHANGED vars PROVE \A p \in Proc : ArgsOk(p)'
    BY <2>1 DEF vars, ArgsOk
  <2> QED BY <2>1, ArgsStep
<1> QED BY <1>1, <1>2, Invariance, PTL DEF Spec, RInv

(* share_file, a protocol of byte locks between processes that may be       *)
(* killed at any step, implements the service that decides each open, close *)
(* and test in one step and against all handles.                            *)
THEOREM Refinement == Spec => ImplementsService
<1>1. Init => Service!Init
  BY DEF Init, Service!Init, Service!Closed, Closed, Answered
<1>2. RInv /\ [Next]_vars => [Service!Next]_(Service!vars)
  <2> SUFFICES ASSUME RInv, [Next]_vars
               PROVE  Service!Next \/ UNCHANGED <<fh, Outcome>>
    BY DEF Service!vars, Outcome
  <2>1. CASE UNCHANGED vars
    BY <2>1 DEF vars, Outcome, Answered
  <2>2. ASSUME NEW p \in Proc, Request(p) \/ SetSemaphor(p) \/ Step(p) \/ Die(p)
        PROVE  Service!Next \/ UNCHANGED <<fh, Outcome>>
    BY <2>2, BeginStutters, TestDecides, AddDecides, RemoveDecides, EndReturns DEF Step
  <2> QED BY <2>1, <2>2 DEF Next
<1> QED BY <1>1, <1>2, RInvariance, PTL DEF Spec, Service!Spec, ImplementsService
=============================================================================
