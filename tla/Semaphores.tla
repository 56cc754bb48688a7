----------------------------- MODULE Semaphores -----------------------------
(***************************************************************************)
(* The semaphore service of nwbind (src/src/sema.c) and the connection      *)
(* open/clear that drives it (src/src/nwbind.c).                            *)
(*                                                                         *)
(* nwbind is one process that handles one packet at a time, so every        *)
(* handler is one atomic action; the interleaving is the one of the         *)
(* requests of the different connections.  A semaphore handle is an index   *)
(* into the global table, shared by all connections that opened the name;   *)
(* every connection keeps a small table of its own with the number of times *)
(* it opened each handle, so that a clear can undo its opens.               *)
(*                                                                         *)
(* Not in the state: examine (0x20/1), which only reads, and the timeout    *)
(* argument of wait, which wait_sema ignores.                               *)
(***************************************************************************)
EXTENDS Integers, Sequences, FiniteSets, FiniteSetsExt

CONSTANTS
  Conn,         \* connection numbers
  Name,         \* semaphore names a client may use
  NoName,       \* name field of a free slot
  InitValues,   \* initial values a client may ask for (0..127 in the code)
  MaxSemas,     \* MAX_SEMAPHORES: size of the global table
  MaxSemaConn,  \* MAX_SEMA_CONN: size of a connection's table
  MaxOpen,      \* bound on a semaphore's opencount
  MaxValue      \* bound on a semaphore's value

ASSUME SemaConstants ==
  /\ NoName \notin Name
  /\ InitValues \subseteq 0..127
  /\ MaxSemas \in Nat \ {0}
  /\ MaxSemaConn \in Nat \ {0}
  /\ MaxOpen \in Nat /\ MaxValue \in Nat

VARIABLES
  semas,      \* semas[0..count_semas-1]: the global table, Len = count_semas
  connSemas,  \* c->semas[0..c->count_semas-1] of every connection
  active      \* c->active

vars == <<semas, connSemas, active>>

(* A slot whose SEMA pointer is NULL has opencount 0; a connection slot     *)
(* that is free has handle 0 (its opencount is rewritten before it is read).*)
FreeSema == [name |-> NoName, opencount |-> 0, value |-> 0]
FreeSlot == [handle |-> 0, opencount |-> 0]

Handle == 1..MaxSemas

IsSema(s, h) == h \in 1..Len(s) /\ s[h].opencount > 0

(* Drop the free slots at the end of a table: the loops that decrement      *)
(* count_semas, of the global and of a connection's table.                  *)
TrimTo(t, used) == SubSeq(t, 1, IF used = {} THEN 0 ELSE Max(used))
TrimSemas(t) == TrimTo(t, {i \in 1..Len(t) : t[i].opencount > 0})
TrimSlots(t) == TrimTo(t, {i \in 1..Len(t) : t[i].handle > 0})

(* The slot an insertion takes: the first free one below the count, else    *)
(* the next one; limit+1 or more means the table is full.                   *)
SlotFor(free, len) == IF free = {} THEN len + 1 ELSE Min(free)

(* Table t with entry e written to slot k, which is at most one past its end.*)
Store(t, k, e) == IF k > Len(t) THEN Append(t, e) ELSE [t EXCEPT ![k] = e]

-----------------------------------------------------------------------------
(* Mutant of CloseTimes: frees one close too early.                         *)
CloseTimesEarly(s, h, n) ==
  IF ~IsSema(s, h) THEN s
  ELSE IF n + 1 < s[h].opencount
       THEN [s EXCEPT ![h].opencount = @ - n]
       ELSE TrimSemas([s EXCEPT ![h] = FreeSema])

(* close_sema called n times on the same handle.  Once the count is 0 the   *)
(* slot is NULL and further calls return -0xff.                             *)
CloseTimes(s, h, n) ==
  IF ~IsSema(s, h) THEN s
  ELSE IF n < s[h].opencount
       THEN [s EXCEPT ![h].opencount = @ - n]
       ELSE TrimSemas([s EXCEPT ![h] = FreeSema])

close_sema(s, h) == CloseTimes(s, h, 1)

(* Mutant of FindSema: the loop ends one slot early.                        *)
FindSemaShort(s, n) == {i \in 1..Len(s)-1 : IsSema(s, i) /\ s[i].name = n}

(* The live slot of a name.                                                 *)
FindSema(s, n) == {i \in 1..Len(s) : IsSema(s, i) /\ s[i].name = n}

(* open_sema: <<handle, new table>>, handle 0 standing for -0x96.           *)
open_sema(s, n, v) ==
  LET same == FindSema(s, n)
      slot == SlotFor({i \in 1..Len(s) : ~IsSema(s, i)}, Len(s))
  IN  IF same # {}
      THEN <<Min(same), [s EXCEPT ![Min(same)].opencount = @ + 1]>>
      ELSE IF slot > MaxSemas THEN <<0, s>>
      ELSE <<slot, Store(s, slot, [name |-> n, opencount |-> 1, value |-> v])>>

(* open_conn_sema: <<ok, new connection table>>.                            *)
open_conn_sema(t, h) ==
  LET same == {i \in 1..Len(t) : t[i].handle = h}
      slot == SlotFor({i \in 1..Len(t) : t[i].handle = 0}, Len(t))
  IN  IF same # {}
      THEN <<TRUE, [t EXCEPT ![Max(same)].opencount = @ + 1]>>
      ELSE IF slot > MaxSemaConn THEN <<FALSE, t>>
      ELSE <<TRUE, Store(t, slot, [handle |-> h, opencount |-> 1])>>

(* close_conn_sema for a handle the table holds.                            *)
close_conn_sema(t, h) ==
  LET k == Max({i \in 1..Len(t) : t[i].handle = h})
  IN  IF t[k].opencount > 1 THEN [t EXCEPT ![k].opencount = @ - 1]
      ELSE TrimSlots([t EXCEPT ![k] = FreeSlot])

Holds(c, h) == \E i \in 1..Len(connSemas[c]) : connSemas[c][i].handle = h

(* The opens of handle h that connection c has not closed, one element each.*)
OpensBy(c, h) ==
  UNION {{<<c, i, k>> : k \in 1..connSemas[c][i].opencount} :
           i \in {j \in 1..Len(connSemas[c]) : connSemas[c][j].handle = h}}

OpensOf(c, h) == Cardinality(OpensBy(c, h))

(* Every handle of connection c closed as often as c opened it: the effect  *)
(* of clear_conn_semas on the global table.  The handles of one connection  *)
(* are pairwise different, so each slot is decremented on its own.          *)
clear_conn_semas(s, c) ==
  TrimSemas([h \in 1..Len(s) |->
    IF OpensOf(c, h) < s[h].opencount
    THEN [s[h] EXCEPT !.opencount = @ - OpensOf(c, h)] ELSE FreeSema])

-----------------------------------------------------------------------------
Init ==
  /\ semas = <<>>
  /\ connSemas = [c \in Conn |-> <<>>]
  /\ active = [c \in Conn |-> FALSE]

(* handle_ctrl 0x2222: (re)activation keeps the semaphores of the slot.     *)
InsertConnection(c) ==
  /\ active' = [active EXCEPT ![c] = TRUE]
  /\ UNCHANGED <<semas, connSemas>>

(* handle_ctrl 0x5555, and every connection at nwbind's exit.               *)
ClearConnection(c) ==
  /\ active' = [active EXCEPT ![c] = FALSE]
  /\ semas' = clear_conn_semas(semas, c)
  /\ connSemas' = [connSemas EXCEPT ![c] = <<>>]

(* 0x20/0.  When the connection's table is full the request fails, and the  *)
(* close_sema meant to undo the open is given the error code, not the       *)
(* handle: it does nothing.                                                 *)
OpenSemaphore(c, n, v) ==
  LET r == open_sema(semas, n, v)
      k == open_conn_sema(connSemas[c], r[1])
  IN  /\ active[c]
      /\ \A i \in 1..Len(semas) : semas[i].opencount < MaxOpen
      /\ semas' = r[2]
      /\ connSemas' = IF r[1] > 0 /\ k[1]
                      THEN [connSemas EXCEPT ![c] = k[2]] ELSE connSemas
      /\ UNCHANGED active

(* 0x20/2: never blocks; a handle is not checked against the connection.    *)
WaitSemaphore(c, h) ==
  /\ active[c] /\ IsSema(semas, h)
  /\ semas[h].value >= 1
  /\ semas' = [semas EXCEPT ![h].value = @ - 1]
  /\ UNCHANGED <<connSemas, active>>

(* 0x20/3.                                                                  *)
SignalSemaphore(c, h) ==
  /\ active[c] /\ IsSema(semas, h)
  /\ semas[h].value < MaxValue
  /\ semas' = [semas EXCEPT ![h].value = @ + 1]
  /\ UNCHANGED <<connSemas, active>>

(* Mutant of CloseSemaphore: the connection keeps its entry.                *)
CloseSemaphoreKeepsEntry(c, h) ==
  /\ active[c] /\ Holds(c, h)
  /\ semas' = close_sema(semas, h)
  /\ UNCHANGED <<connSemas, active>>

(* 0x20/4.                                                                  *)
CloseSemaphore(c, h) ==
  /\ active[c] /\ Holds(c, h)
  /\ connSemas' = [connSemas EXCEPT ![c] = close_conn_sema(@, h)]
  /\ semas' = close_sema(semas, h)
  /\ UNCHANGED active

Request(c) ==
  \/ \E n \in Name, v \in InitValues : OpenSemaphore(c, n, v)
  \/ \E h \in Handle : \/ WaitSemaphore(c, h)
                       \/ SignalSemaphore(c, h)
                       \/ CloseSemaphore(c, h)

Next == \E c \in Conn : InsertConnection(c) \/ ClearConnection(c) \/ Request(c)

Spec == Init /\ [][Next]_vars

-----------------------------------------------------------------------------
(* Two clients that open the same name always share one semaphore: a name   *)
(* is in at most one live slot, whatever was freed and reused before, and a *)
(* connection lists a handle at most once.                                  *)
NamesUnique ==
  /\ \A i, j \in 1..Len(semas) :
       IsSema(semas, i) /\ IsSema(semas, j) /\ semas[i].name = semas[j].name => i = j
  /\ \A c \in Conn : \A i, j \in 1..Len(connSemas[c]) :
       connSemas[c][i].handle = connSemas[c][j].handle /\ connSemas[c][i].handle > 0
         => i = j

(* A semaphore is never freed under a connection that still has it open:    *)
(* the global opencount is at least the number of the connections' opens.   *)
OpencountCovers ==
  \A h \in Handle :
    LET held == Cardinality(UNION {OpensBy(c, h) : c \in Conn})
    IN  held > 0 => IsSema(semas, h) /\ semas[h].opencount >= held

(* While a connection keeps a handle open, the handle goes on naming the    *)
(* same semaphore, whatever the other connections open, close or lose.      *)
HandleStable ==
  [][\A c \in Conn, h \in Handle :
       Holds(c, h) /\ Holds(c, h)' => /\ IsSema(semas', h)
                                      /\ semas'[h].name = semas[h].name]_vars

=============================================================================
