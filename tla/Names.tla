-------------------------------- MODULE Names --------------------------------
(***************************************************************************)
(* How a connection process finds files again: the base handles of the name *)
(* space calls (src/src/namspace.c), the short directory handles            *)
(* (src/src/connect.c) and the calls that create, rename and remove.         *)
(*                                                                         *)
(* A base handle is the inode's number; the process keeps a table of base    *)
(* entries (inode, path), most recently used first, and when it is full the  *)
(* path of the last directory is saved as a link on disk, which all          *)
(* processes share.  A short directory handle is a path, with the inode it   *)
(* had.  Both are found again by PATH, while the file system is changed by   *)
(* other processes, by the same one through its other calls, and by clients  *)
(* that rename what they have handles of.                                    *)
(*                                                                         *)
(* One volume, one name space: a root, directories in it, files in them.     *)
(* Access rights are left out (Trustees), and a request runs without others  *)
(* in between.                                                               *)
(***************************************************************************)
EXTENDS Integers, Sequences, FiniteSets, FiniteSetsExt, SequencesExt

CONSTANTS
  Proc,       \* connection processes
  BaseUsers,  \* those whose clients use the name space calls
  DirUsers,   \* those whose clients use short directory handles
  Dir,        \* names of directories
  Kid,        \* names of files in them
  Ino,        \* inode numbers, used again after a removal
  Root,       \* the inode of the volume's root
  NoIno,
  MaxBase,    \* max_dir_base_entries
  TouchFrom,  \* the first slots are not moved when they are used (4)
  FileFrom,   \* the slots behind this one give up files first (10)
  MaxDirs,    \* MAX_NW_DIRS
  MaxChanges  \* bound on the changes of the file system

(* MaxBase 5 and 6 are allowed by the program (section 63), see SourceAlive. *)
ASSUME NamesConstants ==
  /\ BaseUsers \subseteq Proc /\ DirUsers \subseteq Proc /\ Root \notin Ino /\ NoIno \notin Ino \cup {Root}
  /\ TouchFrom \in Nat /\ FileFrom \in Nat /\ MaxBase \in Nat /\ MaxBase >= TouchFrom + 3
  /\ FileFrom > TouchFrom /\ MaxDirs \in Nat \ {0} /\ MaxChanges \in Nat

DirPath == {<<d>> : d \in Dir}
KidPath == {<<d, k>> : d \in Dir, k \in Kid}
Path == {<< >>} \cup DirPath \cup KidPath

VARIABLES
  at,       \* at[path]: the inode there, or NoIno
  base,     \* dir_base of every process: entries and holes
  disk,     \* disk[ino]: the path saved for a directory, or NoPath
  dirs,     \* short directory handles of every process
  got,      \* the last base handle a process was asked for, and what it found
  freed,    \* a process used an entry it had freed
  changes,  \* changes of the file system so far
  renamed,  \* inodes that got another path
  gone,     \* gone[p]: inodes removed by others than p
  goneOld   \* goneOld[p]: inodes p removed without its name space calls, or while
            \* another process had an entry of the directory, or p two entries of it

nameVars == <<at, base, disk, dirs, got, freed, changes, renamed, gone, goneOld>>

Hole == [hole |-> TRUE]
NoPath == <<NoIno>>
NoDir == [path |-> << >>, ino |-> NoIno, temp |-> FALSE]
Nothing == [want |-> NoIno, ino |-> NoIno]

Entry(ino, path) == [ino |-> ino, path |-> path, locked |-> FALSE, mark |-> FALSE]

IsDir(path) == Len(path) < 2
Parent(path) == Front(path)
Children(path) == {q \in Path : Len(q) = Len(path) + 1 /\ IsPrefix(path, q)}

-----------------------------------------------------------------------------
(* The table of base entries, as operators on a table T and the links D.    *)

Trim(T) ==
  LET used == {i \in DOMAIN T : T[i] # Hole}
  IN IF used = {} THEN << >> ELSE SubSeq(T, 1, Max(used))

FreeSlot(T, i) == Trim([T EXCEPT ![i] = Hole])

(* downsort_dbe_entries: the entries before slot i move back by one, except *)
(* locked ones; new is put into the slot that comes free.                   *)
Movable(T, i) == {j \in 1..(i - 1) : T[j] = Hole \/ ~T[j].locked}
Shifted(T, i, new, move) ==
  Trim([k \in DOMAIN T |->
          IF k # i /\ k \notin move THEN T[k]
          ELSE IF \A j \in move : j >= k THEN new
          ELSE T[Max({j \in move : j < k})]])
Downsort(T, D, i, new) ==
  [tab |-> Shifted(T, i, new, Movable(T, i)), disk |-> D, slot |-> Min({i} \cup Movable(T, i))]

(* allocate_dbe_p: the first hole, or one more, or if the table is full a   *)
(* file far behind, else the last entry that is not locked.                 *)
Holes(T) == {i \in DOMAIN T : T[i] = Hole}
Unlocked(T) == {i \in DOMAIN T : ~T[i].locked}
Files(T) == {i \in Unlocked(T) : i - 1 > FileFrom /\ ~IsDir(T[i].path)}
Victim(T) ==
  IF Files(T) # {} THEN Max(Files(T)) ELSE IF Unlocked(T) # {} THEN Max(Unlocked(T)) ELSE 1
NewSlot(T) ==
  IF Holes(T) # {} THEN Min(Holes(T)) ELSE IF Len(T) < MaxBase THEN Len(T) + 1 ELSE Victim(T)

(* put_dbe_to_disk, for a directory.                                        *)
PutToDisk(D, e) == IF IsDir(e.path) /\ e.ino \in Ino THEN [D EXCEPT ![e.ino] = e.path] ELSE D

AllocateAt(T, D, new, j) ==
  IF j > Len(T) THEN Downsort(Append(T, Hole), D, j, new)
  ELSE Downsort(T, IF T[j] = Hole THEN D ELSE PutToDisk(D, T[j]), j, new)
Allocate(T, D, new) == AllocateAt(T, D, new, NewSlot(T))

(* mutant: an entry that is used stays where it is.                         *)
TouchNot(T, D, i) == [tab |-> T, disk |-> D, slot |-> i]

(* touch_handle_entry_p                                                     *)
Touch(T, D, i) ==
  IF i - 1 > TouchFrom THEN Downsort(T, D, i, T[i]) ELSE [tab |-> T, disk |-> D, slot |-> i]

Failed(T, D) == [tab |-> T, disk |-> D, slot |-> 0]
Of(T, ino) == {i \in DOMAIN T : T[i] # Hole /\ T[i].ino = ino}

(* find_base_entry: by inode in the table, then the root, then the link on  *)
(* disk.  The entry takes over whatever inode its path has now.  For a link *)
(* a slot is taken before the path is looked at (add_dbe_entry): if nothing *)
(* is there the slot is emptied again, but the others have moved for it.    *)
Found(T, D, i, now) ==
  IF now = NoIno THEN Failed(FreeSlot(T, i), D) ELSE Touch([T EXCEPT ![i].ino = now], D, i)
Emptied(r) == Failed(r.tab, r.disk)
FromPath(T, D, path) ==
  IF path = NoPath THEN Failed(T, D)
  ELSE IF at[path] = NoIno THEN Emptied(Allocate(T, D, Hole))
  ELSE Allocate(T, D, Entry(at[path], path))
FindAt(T, D, h, own) ==
  IF own # {} THEN Found(T, D, Min(own), at[T[Min(own)].path])
  ELSE FromPath(T, D, IF h = Root THEN << >> ELSE D[h])
FindBase(T, D, h) == FindAt(T, D, h, Of(T, h))

(* insert_get_base_entry: the entry of a path, which is known by its inode. *)
InsertOn(T, D, path, ino, own) ==
  IF ino = NoIno THEN Failed(T, D)
  ELSE IF own # {} /\ T[Min(own)].path = path THEN Touch(T, D, Min(own))
  ELSE Allocate(IF own = {} THEN T ELSE FreeSlot(T, Min(own)), D, Entry(ino, path))
InsertGet(T, D, path, ino) == InsertOn(T, D, path, ino, Of(T, ino))

(* build_base: a base handle and the rest of the path behind it.            *)
UnderBase(f, path) ==
  IF f.slot = 0 \/ path \notin Path THEN Failed(f.tab, f.disk)
  ELSE InsertGet(f.tab, f.disk, path, at[path])
PathOf(f) == IF f.slot = 0 THEN NoPath ELSE f.tab[f.slot].path
BuildOn(f, rest) == UnderBase(f, PathOf(f) \o rest)
BuildBase(T, D, h, rest) == BuildOn(FindBase(T, D, h), rest)

-----------------------------------------------------------------------------
(* The file system                                                          *)

Unused == {i \in Ino : \A q \in Path : at[q] # i}

MakeAt(path, i) == at' = [at EXCEPT ![path] = i]

(* rename: what is below a directory moves along.                           *)
MovedTo(src, dst) ==
  [q \in Path |->
     IF IsPrefix(dst, q) THEN LET old == src \o SubSeq(q, Len(dst) + 1, Len(q))
                              IN IF old \in Path THEN at[old] ELSE NoIno
     ELSE IF IsPrefix(src, q) THEN NoIno ELSE at[q]]
Below(path) == {at[q] : q \in {r \in Path : IsPrefix(path, r) /\ at[r] # NoIno}}

CanRename(src, dst) ==
  /\ src # dst /\ Len(src) = Len(dst) /\ Len(src) > 0
  /\ at[src] # NoIno /\ at[dst] = NoIno /\ at[Parent(dst)] # NoIno
CanRemove(path) == Len(path) > 0 /\ at[path] # NoIno /\ \A q \in Children(path) : at[q] = NoIno

Changed == changes < MaxChanges /\ changes' = changes + 1

RemovedBy(p, ino) == gone' = [q \in Proc |-> IF q = p THEN gone[q] ELSE gone[q] \cup {ino}]

(* mutant: the handles of a removed directory stay.                         *)
DirsWithoutNot(p, ino) == dirs

(* free_dir_stuff: p's short handles of a directory it has removed.         *)
DirsWithout(p, ino) ==
  [dirs EXCEPT ![p] = [n \in DOMAIN @ |-> IF @[n].ino = ino THEN NoDir ELSE @[n]]]

-----------------------------------------------------------------------------
(* Name space calls                                                         *)

Set(p, r) == base' = [base EXCEPT ![p] = r.tab] /\ disk' = r.disk
NothingFound(p) == got' = [got EXCEPT ![p] = Nothing]

(* The calls that only look (0x57/2, 6, 0x16, 0x1c..): a base handle and a  *)
(* rest, which is empty if the client asks for the handle's own object.     *)
LookUp(p, h, rest) ==
  \E r \in {BuildBase(base[p], disk, h, rest)} :
    /\ Set(p, r)
    /\ got' = [got EXCEPT ![p] = IF rest = << >> /\ r.slot # 0
                                 THEN [want |-> h, ino |-> r.tab[r.slot].ino] ELSE Nothing]
    /\ UNCHANGED <<at, dirs, freed, changes, renamed, gone, goneOld>>

(* nw_open_creat_file_or_dir: the path is not there, its parent is.         *)
Create(p, h, rest, i) ==
  /\ Changed /\ rest # << >> /\ i \in Unused
  /\ \E r \in {BuildBase(base[p], disk, h, rest)} : r.slot = 0 /\
     \E s \in {BuildBase(r.tab, r.disk, h, Front(rest))} : s.slot # 0 /\
     \E path \in {Append(PathOf(s), Last(rest))} :
       /\ path \in Path /\ at[path] = NoIno
       /\ MakeAt(path, i)
       /\ Set(p, InsertGet(s.tab, s.disk, path, i))
  /\ NothingFound(p)
  /\ UNCHANGED <<dirs, freed, renamed, gone, goneOld>>

(* mutant: the entry of what was removed stays in the table.                *)
KeepEntry(T, i) == T

(* delete_file_dir: the entry is freed with what it names.                  *)
WithoutEntry(T, i) == FreeSlot(T, i)

LockedAt(T, i) == [T EXCEPT ![i].locked = TRUE]
AllUnlocked(T) ==
  Trim([k \in DOMAIN T |-> IF T[k] = Hole THEN Hole ELSE [T[k] EXCEPT !.locked = FALSE]])

(* A removed directory of which other processes have an entry: they save its *)
(* path on disk again when they give the entry up.                           *)
KnownTo(P, ino) ==
  {i \in {ino} : \E q \in P : \E k \in Of(base[q], i) : IsDir(base[q][k].path)}

(* Something removed of which the process itself has a second entry: only    *)
(* the first one is freed.                                                   *)
KnownTwice(T, ino) == {i \in {ino} : \E j, k \in Of(T, i) : j # k}

(* nw_delete_file_dir: the parent is locked while the entry of the file is  *)
(* looked up, and freed with it.                                            *)
Delete(p, h, rest) ==
  /\ Changed /\ rest # << >>
  /\ \E r \in {BuildBase(base[p], disk, h, Front(rest))} : r.slot # 0 /\
     \E path \in {Append(PathOf(r), Last(rest))} : path \in Path /\ CanRemove(path) /\
     \E s \in {InsertGet(LockedAt(r.tab, r.slot), r.disk, path, at[path])} :
       /\ MakeAt(path, NoIno)
       /\ Set(p, [tab |-> WithoutEntry(AllUnlocked(s.tab), s.slot),
                  disk |-> IF IsDir(path) THEN [s.disk EXCEPT ![at[path]] = NoPath] ELSE s.disk])
       /\ dirs' = DirsWithout(p, at[path])
       /\ RemovedBy(p, at[path])
       /\ goneOld' = [goneOld EXCEPT ![p] = @ \cup KnownTo(Proc \ {p}, at[path])
                                                \cup KnownTwice(s.tab, at[path])]
  /\ NothingFound(p)
  /\ UNCHANGED <<freed, renamed>>

Marked(T, i) == [T EXCEPT ![i].mark = TRUE]
Kept(T) == {k \in DOMAIN T : T[k] # Hole /\ T[k].mark}

(* nw_rename_file_dir: the entry of the source is kept while the directory  *)
(* of the destination is looked up, and freed after the rename.             *)
Rename(p, h, src, g, dst) ==
  /\ Changed /\ dst # << >>
  /\ \E r \in {BuildBase(base[p], disk, h, src)} : r.slot # 0 /\ PathOf(r) # << >> /\
     \E s \in {BuildBase(Marked(r.tab, r.slot), r.disk, g, Front(dst))} : s.slot # 0 /\
     \E from \in {PathOf(r)}, to \in {Append(PathOf(s), Last(dst))} :
       /\ to \in Path /\ CanRename(from, to)
       /\ at' = MovedTo(from, to)
       /\ renamed' = renamed \cup Below(from)
       /\ \/ /\ Kept(s.tab) # {}
             /\ Set(p, InsertGet(FreeSlot(s.tab, Min(Kept(s.tab))), s.disk, to, at[from]))
             /\ UNCHANGED freed
          \/ /\ Kept(s.tab) = {}
             /\ Set(p, s) /\ freed' = [freed EXCEPT ![p] = TRUE]
  /\ NothingFound(p)
  /\ UNCHANGED <<dirs, gone, goneOld>>

-----------------------------------------------------------------------------
(* Short directory handles and the older calls                              *)

(* xinsert_new_dir: the last free slot behind the first one, which is LOGIN. *)
FreeDirSlot(p) ==
  LET free == {n \in DOMAIN dirs[p] : n > 1 /\ dirs[p][n].ino = NoIno}
  IN IF free # {} THEN Max(free) ELSE Len(dirs[p]) + 1

TrimDirs(s, n) ==
  LET used == {n} \cup {i \in DOMAIN s : s[i].ino # NoIno} IN SubSeq(s, 1, Max(used))

AllocDir(p, path, temp) ==
  LET n == FreeDirSlot(p)
      d == [path |-> path, ino |-> at[path], temp |-> temp]
      s == IF n > Len(dirs[p]) THEN Append(dirs[p], d) ELSE [dirs[p] EXCEPT ![n] = d]
  IN
  /\ at[path] # NoIno /\ n <= MaxDirs
  /\ dirs' = [dirs EXCEPT ![p] = TrimDirs(s, n)]
  /\ UNCHANGED <<at, base, disk, got, freed, changes, renamed, gone, goneOld>>

(* alter_dir_handle: the handle gets the inode with the path.               *)
SetDir(p, n, path) ==
  /\ n \in DOMAIN dirs[p] /\ dirs[p][n].ino # NoIno /\ at[path] # NoIno
  /\ dirs' = [dirs EXCEPT ![p][n].path = path, ![p][n].ino = at[path]]
  /\ UNCHANGED <<at, base, disk, got, freed, changes, renamed, gone, goneOld>>

FreeDir(p, n) ==
  /\ n \in DOMAIN dirs[p] /\ dirs[p][n].ino # NoIno
  /\ dirs' = [dirs EXCEPT ![p][n] = NoDir]
  /\ UNCHANGED <<at, base, disk, got, freed, changes, renamed, gone, goneOld>>

(* nw_free_handles of a task: its temporary handles.                        *)
EndOfTask(p) ==
  /\ dirs' = [dirs EXCEPT ![p] = [n \in DOMAIN @ |-> IF @[n].temp THEN NoDir ELSE @[n]]]
  /\ UNCHANGED <<at, base, disk, got, freed, changes, renamed, gone, goneOld>>

(* nw_mk_rd_dir and mv_dir know nothing of base entries.                    *)
MkDir(p, d, i) ==
  /\ at[<<d>>] = NoIno /\ i \in Unused /\ Changed
  /\ MakeAt(<<d>>, i)
  /\ UNCHANGED <<base, disk, dirs, got, freed, renamed, gone, goneOld>>

RmDir(p, d) ==
  LET ino == at[<<d>>] IN
  /\ CanRemove(<<d>>) /\ Changed
  /\ MakeAt(<<d>>, NoIno)
  /\ dirs' = DirsWithout(p, ino)
  /\ RemovedBy(p, ino)
  /\ goneOld' = [goneOld EXCEPT ![p] = @ \cup {ino}]
  /\ UNCHANGED <<base, disk, got, freed, renamed>>

MvDir(p, d, e) ==
  /\ CanRename(<<d>>, <<e>>) /\ Changed
  /\ at' = MovedTo(<<d>>, <<e>>)
  /\ renamed' = renamed \cup Below(<<d>>)
  /\ UNCHANGED <<base, disk, dirs, got, freed, gone, goneOld>>

(* free_dir_bases and nw_init_connect, at logout, login and the end of the  *)
(* process: the paths of all directories go to disk.                        *)
ExitNames(p) ==
  /\ disk' = [i \in Ino |-> LET e == {k \in DOMAIN base[p] : base[p][k] # Hole /\ base[p][k].ino = i
                                                              /\ IsDir(base[p][k].path)}
                            IN IF e = {} THEN disk[i] ELSE base[p][Min(e)].path]
  /\ base' = [base EXCEPT ![p] = << >>]
  /\ dirs' = [dirs EXCEPT ![p] = <<[NoDir EXCEPT !.ino = Root]>>]
  /\ got' = [got EXCEPT ![p] = Nothing]
  /\ UNCHANGED <<at, freed, changes, renamed, gone, goneOld>>

(* Any tree may be on the disk when the processes start.                    *)
Tree(f) ==
  /\ f[<< >>] = Root
  /\ \A q \in Path \ {<< >>} :
       f[q] # NoIno => /\ f[Parent(q)] # NoIno
                       /\ f[q] # Root /\ \A r \in Path : f[r] = f[q] => r = q

NamesInit ==
  /\ at \in {f \in [Path -> Ino \cup {Root, NoIno}] : Tree(f)}
  /\ base = [p \in Proc |-> << >>]
  /\ disk = [i \in Ino |-> NoPath]
  /\ dirs = [p \in Proc |-> <<[NoDir EXCEPT !.ino = Root]>>]
  /\ got = [p \in Proc |-> Nothing]
  /\ freed = [p \in Proc |-> FALSE]
  /\ changes = 0 /\ renamed = {}
  /\ gone = [p \in Proc |-> {}] /\ goneOld = [p \in Proc |-> {}]

Rest == {<< >>} \cup {<<n>> : n \in Dir \cup Kid} \cup KidPath

BaseCall(p) ==
  \E h \in Ino \cup {Root}, rest \in Rest :
    \/ LookUp(p, h, rest)
    \/ \E i \in Ino : Create(p, h, rest, i)
    \/ Delete(p, h, rest)
    \/ \E dst \in Path : Rename(p, h, rest, Root, dst)

DirCall(p) ==
  \/ \E path \in DirPath, temp \in BOOLEAN : AllocDir(p, path, temp)
  \/ \E n \in 2..MaxDirs : FreeDir(p, n) \/ \E path \in DirPath : SetDir(p, n, path)
  \/ EndOfTask(p)

OldCall(p) ==
  \E d \in Dir : RmDir(p, d) \/ (\E i \in Ino : MkDir(p, d, i)) \/ \E e \in Dir : MvDir(p, d, e)

NamesNext == \E p \in Proc : \/ p \in BaseUsers /\ BaseCall(p)
                             \/ p \in DirUsers /\ DirCall(p)
                             \/ OldCall(p)
                             \/ ExitNames(p)

NamesSpec == NamesInit /\ [][NamesNext]_nameVars

-----------------------------------------------------------------------------
(* Properties                                                               *)

(* A base handle that find_base_entry (namspace.c:746) accepts stands for    *)
(* the inode the client got it for, if that was never renamed and not        *)
(* removed by another process, by another call, while another process could  *)
(* write its link again (KnownTo), or while a second entry of it stayed      *)
(* (KnownTwice): through the table, its evictions, the links on disk and new *)
(* sessions.                                                                 *)
BaseHandleTrue ==
  \A p \in Proc : got[p].want \notin renamed \cup gone[p] \cup goneOld[p] =>
    got[p].ino = got[p].want

(* A short directory handle (connect.c:2157) leads to the directory it was   *)
(* made for, if that was not renamed and not removed by another process.     *)
ShortHandleTrue ==
  \A p \in Proc : \A n \in DOMAIN dirs[p] :
    LET d == dirs[p][n] IN
    d.ino # NoIno /\ d.ino \notin renamed \cup gone[p] => at[d.path] = d.ino

(* The entry of the source is still allocated when nw_rename_file_dir        *)
(* (namspace.c:2316) uses it after looking up the destination.               *)
SourceAlive == \A p \in Proc : ~freed[p]

=============================================================================
