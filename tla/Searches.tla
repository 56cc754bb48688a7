------------------------------ MODULE Searches ------------------------------
(***************************************************************************)
(* Directory searches of one connection process: the calls of the name      *)
(* spaces, 0x57 2 and 3 (src/src/namspace.c), with a table of search         *)
(* handles, the older 0x3e and 0x3f (src/src/connect.c), with a table of      *)
(* directory handles that all searches of a directory share, and 0x40,        *)
(* which keeps nothing.                                                      *)
(*                                                                         *)
(* Between two calls of one search others run, handles are taken away, and   *)
(* anybody changes the directory.  A position is then either the place in     *)
(* the directory file that was noted (dirpos) or has to be counted again.     *)
(*                                                                         *)
(* A directory file is a row of slots: readdir returns the used ones in      *)
(* order, telldir is the last slot read, removal leaves a hole, and a new     *)
(* entry may fill any hole.  Patterns, attributes and rights are the set of   *)
(* inodes that match.  A call is one step.                                   *)
(***************************************************************************)
EXTENDS Integers, Sequences, FiniteSets, FiniteSetsExt

CONSTANTS
  Search,      \* searches of the client
  Match,       \* Match[s]: the inodes its pattern fits
  Dir,         \* directories
  Files,       \* Files[d]: the inodes in the slots of d at first, 0 for a hole
  Spare,       \* inodes of new files
  MaxSearchH,  \* max_dir_search_handles
  MaxDirH,     \* MAX_DIRHANDLES
  MaxIdle,     \* MAX_I32, the idle count of a search handle that is given up
  MaxChanges   \* bound on the changes of directories

Slots(d) == 1..Len(Files[d])
End(d) == Len(Files[d]) + 1
Ino == Spare \cup (UNION {{Files[d][i] : i \in 1..Len(Files[d])} : d \in Dir} \ {0})

ASSUME SearchConstants ==
  /\ 0 \notin Ino /\ 0 \notin Dir /\ Match \in [Search -> SUBSET Ino]
  /\ Files \in [Dir -> Seq(Ino \cup {0})]
  /\ \A d \in Dir : \A i, j \in Slots(d) :
       Files[d][i] = Files[d][j] /\ Files[d][i] # 0 => i = j   \* no hard links
  /\ MaxSearchH \in Nat \ {0} /\ MaxDirH \in Nat \ {0}
  /\ MaxIdle \in Nat /\ MaxIdle > 4 /\ MaxChanges \in Nat

VARIABLES
  disk,     \* disk[d]: the inodes in the slots of d, 0 for a hole
  dsh,      \* dir_search_handles, those that are allocated
  count,    \* count_dsh
  dh,       \* dir_handles, up to anz_dirhandles
  search,   \* search[s]: what the client knows of its search, and its history
  changes   \* changes of directories so far

searchVars == <<disk, dsh, count, dh, search, changes>>

(* A search that does not run.  stay, got and twice: the entries that match  *)
(* and were there all the time, those it was told of, and those it was told  *)
(* of again.  pos: the position noted for it; counted: it went on from        *)
(* another; removed, added: the directory changed; evicted: its directory     *)
(* handle was given away.                                                    *)
Off == [state |-> "off", kind |-> "file", dir |-> 0, h |-> 0, seq |-> 0, pos |-> 0,
        stay |-> {}, got |-> {}, twice |-> {},
        counted |-> FALSE, removed |-> FALSE, added |-> FALSE, evicted |-> FALSE]

-----------------------------------------------------------------------------
(* Reading a directory                                                      *)

Used(d) == {i \in Slots(d) : disk[d][i] # 0}
First(d, S) == IF S = {} THEN End(d) ELSE Min(S)
NextSlot(d, pos) == First(d, {i \in Used(d) : i > pos})
Between(d, a, b) == Cardinality({i \in Used(d) : a <= i /\ i < b})
Nth(d, q) == First(d, {i \in Used(d) : Between(d, 1, i) = q})
Matching(s, d, from) == First(d, {i \in Used(d) : i >= from /\ disk[d][i] \in Match[s]})
LastUsed(d, from, to) == Max({from} \cup {i \in Used(d) : from < i /\ i < to})
SlotOf(d, ino) == First(d, {i \in Used(d) : disk[d][i] = ino})

(* What a call tells the client.  Of a search at its end only the entries    *)
(* it has missed are kept.                                                   *)
Told(r, d, i, seq, pos, h, state, counted) ==
  LET e == disk[d][i] IN
  [r EXCEPT !.state = state, !.seq = seq, !.pos = pos, !.h = h, !.got = @ \cup {e},
            !.twice = IF e \in r.got THEN @ \cup {e} ELSE @,
            !.counted = @ \/ counted]
Ended(r, counted) ==
  [Off EXCEPT !.state = "done", !.dir = r.dir, !.kind = r.kind, !.stay = r.stay \ r.got,
              !.counted = r.counted \/ counted, !.removed = r.removed, !.evicted = r.evicted]

-----------------------------------------------------------------------------
(* Name space calls                                                         *)

FreshHandle(d) == [dir |-> d, idle |-> 0, dirpos |-> 0, found |-> 0, last |-> 0]

(* new_search_handle: the handles age, those given up are freed (the last    *)
(* ones shorten the table), and the lowest free one, the next, or the         *)
(* longest idle one is taken.                                               *)
Expired == {k \in DOMAIN dsh : dsh[k].idle = MaxIdle}
Aged == [k \in DOMAIN dsh \ Expired |-> [dsh[k] EXCEPT !.idle = @ + 1]]
CutTo(gone) == Min({c \in 0..count : \A k \in c..(count - 1) : k \in gone})
Holes == (0..(CutTo(Expired) - 1)) \ DOMAIN Aged
LongestIdle == Min({k \in DOMAIN Aged : \A j \in DOMAIN Aged : Aged[j].idle <= Aged[k].idle})
Taken ==
  IF Holes # {} THEN Min(Holes)
  ELSE IF CutTo(Expired) < MaxSearchH THEN CutTo(Expired) ELSE LongestIdle
Put(f, k, v) == [j \in DOMAIN f \cup {k} |-> IF j = k THEN v ELSE f[j]]

(* The handle of the sequence number is used if it is for this directory;    *)
(* it may belong to another search of it by now.                             *)
Owns(r) == r.seq >= 0 /\ r.h \in DOMAIN dsh /\ dsh[r.h].dir = r.dir

Counted(d, q) == [slot |-> Nth(d, q), last |-> Min({q, Cardinality(Used(d))}), noted |-> q = 0]

(* Mutant: whether the handle has been used since is not tested.             *)
PositionAnyway(d, f, q) ==
  IF q = 0 \/ f.dirpos = 0 \/ NextSlot(d, f.dirpos) = End(d) THEN Counted(d, q)
  ELSE [slot |-> NextSlot(d, f.dirpos), last |-> f.last, noted |-> TRUE]

(* Where the search goes on: at the noted position, if the entry that was    *)
(* found there last time is still the next one, else where that entry is     *)
(* now, else by counting.                                                   *)
Position(d, f, q) ==
  LET n == NextSlot(d, f.dirpos)
      m == SlotOf(d, f.found)
      known == q # 0 /\ q = f.last /\ f.dirpos # 0
  IN
  IF known /\ n # End(d) /\ f.found \in {0, disk[d][n]}
  THEN [slot |-> n, last |-> f.last, noted |-> TRUE]
  ELSE IF known /\ f.found # 0 /\ m # End(d)
  THEN [slot |-> m, last |-> Between(d, 1, m), noted |-> FALSE]
  ELSE Counted(d, q)

(* The next entry that matches, and a look at the one after it.             *)
Found(s, d, at, m, more) ==
  [dir |-> d, idle |-> IF more = End(d) THEN MaxIdle - 4 ELSE 0,
   dirpos |-> LastUsed(d, m, more), found |-> IF more = End(d) THEN 0 ELSE disk[d][more],
   last |-> at.last + Between(d, at.slot, m) + 1 + Between(d, m + 1, more)]
NotFound(d, f, at) ==
  [f EXCEPT !.idle = MaxIdle - 2, !.dirpos = 0, !.last = at.last + Between(d, at.slot, End(d))]

(* The search goes on from another position than it was at.                  *)
Recounted(r, f, at) == ~at.noted \/ f.dirpos # r.pos

nw_search_file_dir(s) ==
  LET r == search[s]
      d == r.dir
      k == IF Owns(r) THEN r.h ELSE Taken
      tab == IF Owns(r) THEN dsh ELSE Put(Aged, k, FreshHandle(d))
  IN
  /\ r.kind = "ns" /\ r.state \in {"more", "last"}
  /\ count' = IF Owns(r) THEN count ELSE Max({CutTo(Expired), k + 1})
  /\ \E at \in {Position(d, tab[k], Max({r.seq, 0}))} : \E m \in {Matching(s, d, at.slot)} :
       \/ /\ m = End(d)
          /\ dsh' = Put(tab, k, NotFound(d, tab[k], at))
          /\ search' = [search EXCEPT ![s] = Ended(r, Recounted(r, tab[k], at))]
       \/ /\ m # End(d)
          /\ \E f \in {Found(s, d, at, m, Matching(s, d, m + 1))} :
               /\ dsh' = Put(tab, k, f)
               /\ search' = [search EXCEPT ![s] =
                    Told(r, d, m, f.last, f.dirpos, k,
                         IF f.found = 0 THEN "last" ELSE "more", Recounted(r, tab[k], at))]
  /\ UNCHANGED <<disk, dh, changes>>

-----------------------------------------------------------------------------
(* Directory handles                                                        *)

Unused == [dir |-> 0, used |-> FALSE, seq |-> 0, dirpos |-> 0]
OpenAt(d, pos) == [dir |-> d, used |-> TRUE, seq |-> Between(d, 1, pos + 1), dirpos |-> pos]

(* new_dir_handle: the handle of the directory, a free one, a new one, or    *)
(* the oldest (left open: the times of the last use).                       *)
HandleFor(d) ==
  LET same == {k \in DOMAIN dh : dh[k].used /\ dh[k].dir = d}
      free == {k \in DOMAIN dh : ~dh[k].used}
      anz == Cardinality(DOMAIN dh)
  IN
  IF same # {} THEN same
  ELSE IF free # {} THEN {Min(free)}
  ELSE IF anz < MaxDirH THEN {anz + 1} ELSE DOMAIN dh

Losing(k, f) ==
  [s \in Search |->
     IF search[s].kind = "dir" /\ search[s].h = k /\ search[s].dir # f.dir
        /\ search[s].state # "off"
     THEN [search[s] EXCEPT !.evicted = TRUE] ELSE search[s]]

Started(s, kind, d, h) ==
  [Off EXCEPT !.state = "more", !.kind = kind, !.dir = d, !.h = h, !.seq = -1,
              !.stay = {disk[d][i] : i \in Used(d)} \cap Match[s]]

(* nw_open_dir_handle, with and without the right to search.                *)
nw_open_dir_handle(s, d) ==
  /\ search[s].state = "off"
  /\ \E k \in HandleFor(d) :
       \/ /\ dh' = Put(dh, k, OpenAt(d, 0))
          /\ search' = [Losing(k, OpenAt(d, 0)) EXCEPT ![s] = Started(s, "dir", d, k)]
       \/ dh' = Put(dh, k, Unused) /\ search' = Losing(k, Unused)
  /\ UNCHANGED <<disk, dsh, count, changes>>

(* nw_scan_dir_info: opens the handle and reads on it, up to any entry.      *)
nw_scan_dir_info(d) ==
  /\ \E k \in HandleFor(d), pos \in {0} \cup Used(d) :
       dh' = Put(dh, k, OpenAt(d, pos)) /\ search' = Losing(k, OpenAt(d, pos))
  /\ UNCHANGED <<disk, dsh, count, changes>>

(* Mutant: a search that is behind the handle's position goes on from there. *)
RewindNot(f, q) == f

(* get_dh_entry: back to the start if the handle is further on.             *)
Rewind(f, q) == IF q < f.seq THEN [f EXCEPT !.seq = 0, !.dirpos = 0] ELSE f

(* The slot of the last entry that is skipped.                              *)
Skipped(d, f, q) ==
  IF q <= f.seq THEN f.dirpos
  ELSE First(d, {i \in Used(d) : i > f.dirpos /\ Between(d, f.dirpos + 1, i + 1) = q - f.seq})

Readable(k) == IF k \in DOMAIN dh THEN dh[k].dir # 0 ELSE FALSE

nw_dir_search(s) ==
  LET r == search[s]
      q == Max({r.seq, 0})
      h == dh[r.h]
      d == h.dir
      f == Rewind(h, q)
      p == Skipped(d, f, q)
      m == Matching(s, d, p + 1)
      counted == q > 0 /\ (q # h.seq \/ h.dirpos # r.pos)
  IN
  /\ r.kind = "dir" /\ r.state = "more"
  /\ \/ /\ ~Readable(r.h)
        /\ search' = [search EXCEPT ![s] = Ended(r, FALSE)] /\ UNCHANGED dh
     \/ /\ Readable(r.h)
        /\ \/ /\ p = End(d) \/ m = End(d)
              /\ search' = [search EXCEPT ![s] = Ended(r, counted)]
              /\ dh' = [dh EXCEPT ![r.h] =
                   [f EXCEPT !.seq = @ + Between(d, f.dirpos + 1, End(d)),
                             !.dirpos = LastUsed(d, @, End(d))]]
           \/ /\ p # End(d) /\ m # End(d)
              /\ \E n \in {Max({q, f.seq}) + Between(d, p + 1, m) + 1} :
                   /\ dh' = [dh EXCEPT ![r.h] = [f EXCEPT !.seq = n, !.dirpos = m]]
                   /\ search' = [search EXCEPT ![s] = Told(r, d, m, n, m, r.h, "more", counted)]
  /\ UNCHANGED <<disk, dsh, count, changes>>

(* nw_search: always by counting.                                           *)
nw_search(s) ==
  LET r == search[s]
      d == r.dir
      q == Max({r.seq, 0})
      m == Matching(s, d, Nth(d, q))
  IN
  /\ r.kind = "file" /\ r.state = "more"
  /\ search' = [search EXCEPT ![s] =
       IF m = End(d) THEN Ended(r, q > 0)
       ELSE Told(r, d, m, Between(d, 1, m) + 1, m, 0, "more", q > 0)]
  /\ UNCHANGED <<disk, dsh, count, dh, changes>>

-----------------------------------------------------------------------------
(* nw_init_search only names the directory, and 0x40 starts by itself.       *)
nw_init_search(s, kind, d) ==
  /\ search[s].state = "off"
  /\ search' = [search EXCEPT ![s] = Started(s, kind, d, 0)]
  /\ UNCHANGED <<disk, dsh, count, dh, changes>>

(* The client gives up or has finished.                                     *)
Forget(s) ==
  /\ search[s].state # "off"
  /\ search' = [search EXCEPT ![s] = Off]
  /\ UNCHANGED <<disk, dsh, count, dh, changes>>

Concerned(s, d) == search[s].dir = d /\ search[s].state \in {"more", "last"}

RemoveFile(d, i) ==
  /\ changes < MaxChanges /\ disk[d][i] # 0
  /\ disk' = [disk EXCEPT ![d][i] = 0] /\ changes' = changes + 1
  /\ search' = [s \in Search |->
       IF Concerned(s, d)
       THEN [search[s] EXCEPT !.removed = TRUE, !.stay = @ \ {disk[d][i]}] ELSE search[s]]
  /\ UNCHANGED <<dsh, count, dh>>

CreateFile(d, i, ino) ==
  /\ changes < MaxChanges /\ disk[d][i] = 0
  /\ \A e \in Dir : SlotOf(e, ino) = End(e)
  /\ disk' = [disk EXCEPT ![d][i] = ino] /\ changes' = changes + 1
  /\ search' = [s \in Search |->
       IF Concerned(s, d) THEN [search[s] EXCEPT !.added = TRUE] ELSE search[s]]
  /\ UNCHANGED <<dsh, count, dh>>

(* An empty directory is removed by a call of the name spaces, which frees   *)
(* the search handles too, or by an old one, and made again.                 *)
Trim(f) == [k \in {j \in DOMAIN f : \E i \in DOMAIN f : i >= j /\ f[i].used} |-> f[k]]
rmdir(d, ns) ==
  LET gone == IF ns THEN {k \in DOMAIN dsh : dsh[k].dir = d} ELSE {} IN
  /\ Used(d) = {}
  /\ dh' = IF \E k \in DOMAIN dh : dh[k].used /\ dh[k].dir = d
           THEN Trim([k \in DOMAIN dh |-> IF dh[k].dir = d THEN [dh[k] EXCEPT !.used = FALSE] ELSE dh[k]])
           ELSE dh
  /\ dsh' = [k \in DOMAIN dsh \ gone |-> dsh[k]]
  /\ count' = CutTo(gone)
  /\ search' = [s \in Search |-> IF search[s].dir = d THEN Off ELSE search[s]]
  /\ UNCHANGED <<disk, changes>>

(* nw_init_connect, at a login or logout.                                   *)
nw_init_connect ==
  /\ dsh' = [k \in {} |-> Unused] /\ count' = 0 /\ dh' = [k \in {} |-> Unused]
  /\ search' = [s \in Search |-> Off]
  /\ UNCHANGED <<disk, changes>>

SearchesInit ==
  /\ disk = Files
  /\ dsh = [k \in {} |-> Unused] /\ count = 0 /\ dh = [k \in {} |-> Unused]
  /\ search = [s \in Search |-> Off] /\ changes = 0

SearchesNext ==
  \/ \E s \in Search :
       \/ nw_search_file_dir(s) \/ nw_dir_search(s) \/ nw_search(s) \/ Forget(s)
       \/ \E d \in Dir :
            nw_open_dir_handle(s, d) \/ \E kind \in {"ns", "file"} : nw_init_search(s, kind, d)
  \/ \E d \in Dir :
       \/ nw_scan_dir_info(d)
       \/ \E i \in Slots(d) : RemoveFile(d, i) \/ \E ino \in Ino : CreateFile(d, i, ino)
       \/ \E ns \in BOOLEAN : rmdir(d, ns)
  \/ nw_init_connect

SearchesSpec == SearchesInit /\ [][SearchesNext]_searchVars

-----------------------------------------------------------------------------
(* Properties                                                               *)

(* A search that says there is no more has told the client of every entry    *)
(* that matches and was there all the time, whatever other searches, lost    *)
(* handles and changes came between (namspace.c:1576, connect.c:737): unless *)
(* an entry was removed and a position had to be counted, or the directory   *)
(* handle was given away.                                                    *)
NothingSkipped ==
  \A s \in Search : search[s].state \in {"last", "done"} /\ ~search[s].evicted
                    /\ ~(search[s].counted /\ search[s].removed)
                      => search[s].stay \subseteq search[s].got

(* No entry that was there all the time is told twice, so that a client does *)
(* not go round in circles (namspace.c:1704): unless an entry was added and  *)
(* a position had to be counted.                                            *)
NothingTwice ==
  \A s \in Search : ~search[s].evicted /\ ~(search[s].counted /\ search[s].added)
                      => search[s].stay \cap search[s].twice = {}
=============================================================================
