------------------------------ MODULE ConnTable ------------------------------
(***************************************************************************)
(* The life of the connections, over the three processes that each keep a   *)
(* table of them by connection number:                                      *)
(*                                                                         *)
(*   ncpserv (ncpserv.c)  hands out the numbers, forks an nwconn process    *)
(*                        per connection, signals and reaps it;             *)
(*   nwserv  (nwserv.c)   watches for clients that have gone (watchdog);    *)
(*   nwbind  (nwbind.c)   knows who is logged in on which connection.       *)
(*                                                                         *)
(* ncpserv tells nwserv over a pipe what it did, nwserv passes that on to   *)
(* nwbind with packets, and tells ncpserv in the same way to clear the      *)
(* connection of a vanished client.  A packet is repeated while it is not   *)
(* confirmed, a few times only: then nwserv gives it up for good.  Nothing  *)
(* orders these messages with the clients' own packets.                     *)
(***************************************************************************)
EXTENDS Integers, Sequences, FiniteSets, FiniteSetsExt, SequencesExt

CONSTANTS
  Client,     \* client addresses
  Leaver,     \* the clients that are switched off at times
  NoClient,
  MaxConn,    \* max_connections
  MaxTries,   \* MAX_WDOG_TRIES
  MaxPid,     \* bound on the nwconn processes ever forked
  MaxSends,   \* bound on the transmissions of a packet to nwbind (MAX_SEND_TRIES)
  Lossy,      \* bound: the slots whose packets to nwbind may be lost or repeated
  Cap         \* bound on the messages waiting in a pipe or socket

ASSUME ConnConstants ==
  /\ NoClient \notin Client /\ Leaver \subseteq Client
  /\ MaxConn \in Nat \ {0} /\ MaxTries \in Nat \ {0} /\ MaxPid \in Nat
  /\ MaxSends \in Nat \ {0} /\ Cap \in Nat \ {0} /\ Lossy \subseteq 1..MaxConn

VARIABLES
  conns,     \* ncpserv's connections[]: fd open or not, pid, client_adr
  count,     \* count_connections
  proc,      \* the nwconn processes: none, run, term (told to end), zombie, gone
  sigchld,   \* got_sig_child
  reaping,   \* between kill_connections() and got_sig_child = 0
  toNwserv,  \* the pipe FD_NWSERV
  wdogs,     \* nwserv's connections[]: last_time set or not, counter, addr
  hi_conn,
  toServ,    \* clear packets nwserv -> ncpserv
  toBind,    \* packets nwserv -> nwbind
  missed,    \* history: what nwbind has missed since it was last told of a slot
  binds,     \* nwbind's connections[]: active, client_adr, object_id (whose login)
  alive      \* the clients that still answer

bindQueue == <<toBind, missed>>
vars == <<conns, count, proc, sigchld, reaping, toNwserv, wdogs, hi_conn,
          toServ, bindQueue, binds, alive>>
servVars == <<conns, count, proc, sigchld, reaping>>
nwservVars == <<wdogs, hi_conn>>

Slot == 1..MaxConn
Pid == 1..MaxPid
NoPid == 0

(* The address of a free slot is never read, so it is not kept.             *)
FreeConn == [fd |-> FALSE, pid |-> NoPid, addr |-> NoClient]
NoWdog == [last |-> FALSE, counter |-> 0, addr |-> NoClient]
NoBind == [active |-> FALSE, addr |-> NoClient, login |-> NoClient]

(* Messages of the pipe: insert (0x2222), close (0x5555), reset and         *)
(* activate (0x4444 with 0 and 1).                                          *)
Msg(what, n, a) == [what |-> what, conn |-> n, addr |-> a]
CloseMsg(n) == Msg("close", n, NoClient)

-----------------------------------------------------------------------------
Init ==
  /\ conns = [n \in Slot |-> FreeConn] /\ count = 0
  /\ proc = [p \in Pid |-> "none"]
  /\ sigchld = FALSE /\ reaping = FALSE
  /\ toNwserv = <<>> /\ toServ = <<>> /\ toBind = <<>>
  /\ wdogs = [n \in Slot |-> NoWdog] /\ hi_conn = 0
  /\ missed = [n \in Slot |-> "nothing"]
  /\ binds = [n \in Slot |-> NoBind]
  /\ alive = Client

(* ncpserv is in its loop, and the pipe takes another message.              *)
CanServe == ~reaping /\ Len(toNwserv) < Cap

(* Mutant of find_conn_nr: the loop ends one slot early.                    *)
find_conn_nr_short(a) == {n \in 1..count-1 : conns[n].fd /\ conns[n].addr = a}

(* find_conn_nr: the open connection of an address.                         *)
find_conn_nr(a) == {n \in 1..count : conns[n].fd /\ conns[n].addr = a}

(* new_conn_nr: the slots whose fd and pid are both unset.  (With           *)
(* count_connections 0 all slots are.)                                      *)
FreeSlots == {n \in Slot : ~conns[n].fd /\ conns[n].pid = NoPid}

(* 0x1111 of a client that has a connection: it keeps it, and nwserv and    *)
(* nwbind are told to insert it once more.                                  *)
ConnectAgain(a) ==
  /\ CanServe /\ find_conn_nr(a) # {}
  /\ toNwserv' = Append(toNwserv, Msg("insert", Min(find_conn_nr(a)), a))
  /\ UNCHANGED <<servVars, nwservVars, toServ, bindQueue, binds, alive>>

(* 0x1111 of a client without one: the lowest free slot and a new process.  *)
ConnectNew(a, p) ==
  /\ CanServe /\ find_conn_nr(a) = {} /\ FreeSlots # {}
  /\ proc[p] = "none" /\ \A q \in 1..p-1 : proc[q] # "none"
  /\ LET n == Min(FreeSlots)
     IN  /\ conns' = [conns EXCEPT ![n] = [fd |-> TRUE, pid |-> p, addr |-> a]]
         /\ count' = Max({count, n})
         /\ toNwserv' = Append(toNwserv, Msg("insert", n, a))
  /\ proc' = [proc EXCEPT ![p] = "run"]
  /\ UNCHANGED <<sigchld, reaping, nwservVars, toServ, bindQueue, binds, alive>>

(* pipe() or fork() fails: free_conn_nr, but count_connections stays raised.*)
ConnectFails(a) ==
  /\ CanServe /\ find_conn_nr(a) = {} /\ FreeSlots # {}
  /\ count' = Max({count, Min(FreeSlots)})
  /\ UNCHANGED <<conns, proc, sigchld, reaping, toNwserv, nwservVars, toServ, bindQueue, binds, alive>>

(* No slot is free: all watchdogs are activated.                            *)
ConnectFull(a) ==
  /\ CanServe /\ find_conn_nr(a) = {} /\ FreeSlots = {}
  /\ toNwserv' = Append(toNwserv, Msg("activate", 0, NoClient))
  /\ UNCHANGED <<servVars, nwservVars, toServ, bindQueue, binds, alive>>

(* Mutant of clear_connection: no SIGTERM for the process.                  *)
clear_connection_no_kill(n) ==
  /\ toNwserv' = Append(toNwserv, CloseMsg(n))
  /\ IF n <= count /\ conns[n].fd
     THEN conns' = [conns EXCEPT ![n].fd = FALSE] ELSE UNCHANGED conns
  /\ UNCHANGED proc

(* clear_connection(n): nwserv is told in any case; an open connection is   *)
(* closed and its process gets SIGTERM.  The slot keeps its pid.            *)
clear_connection(n) ==
  /\ toNwserv' = Append(toNwserv, CloseMsg(n))
  /\ IF n <= count /\ conns[n].fd
     THEN /\ conns' = [conns EXCEPT ![n].fd = FALSE]
          /\ proc' = [proc EXCEPT ![conns[n].pid] = IF @ = "run" THEN "term" ELSE @]
     ELSE UNCHANGED <<conns, proc>>

(* 0x5555 of the client itself (with the next sequence number).             *)
Destroy(a, n) ==
  /\ CanServe /\ n <= count /\ conns[n].fd /\ conns[n].addr = a
  /\ clear_connection(n)
  /\ UNCHANGED <<count, sigchld, reaping, nwservVars, toServ, bindQueue, binds, alive>>

(* 0x2222 after more than 50 seconds: the watchdog need not look.           *)
ResetWdog(a, n) ==
  /\ CanServe /\ n <= count /\ conns[n].fd /\ conns[n].addr = a /\ a \in alive
  /\ toNwserv' = Append(toNwserv, Msg("reset", n, NoClient))
  /\ UNCHANGED <<servVars, nwservVars, toServ, bindQueue, binds, alive>>

(* handle_ctrl 0x5555, from the watchdog.                                   *)
CtrlClear ==
  /\ CanServe /\ toServ # <<>>
  /\ toServ' = Tail(toServ)
  /\ clear_connection(Head(toServ))
  /\ UNCHANGED <<count, sigchld, reaping, nwservVars, bindQueue, binds, alive>>

(* kill_connections: reaps what has died and closes its connections,        *)
(* SIGKILLs the processes of closed connections that still run, and frees   *)
(* the slots of both.                                                       *)
KillConnections ==
  LET dead == {p \in Pid : proc[p] = "zombie"}
      closing == {n \in 1..count : conns[n].pid \in dead}
      freed == {n \in 1..count : conns[n].pid # NoPid /\ (~conns[n].fd \/ n \in closing)}
      left == {n \in 1..count : n \notin freed /\ (conns[n].fd \/ conns[n].pid # NoPid)}
  IN  /\ sigchld /\ CanServe
      /\ toNwserv' = toNwserv \o SetToSeq({CloseMsg(n) : n \in closing})
      /\ conns' = [n \in Slot |-> IF n \in freed THEN FreeConn ELSE conns[n]]
      /\ proc' = [p \in Pid |-> IF p \in dead THEN "gone"
                                ELSE IF \E n \in freed : conns[n].pid = p THEN "term"
                                ELSE proc[p]]
      /\ count' = Max({0} \cup left)
      /\ reaping' = TRUE
      /\ UNCHANGED <<sigchld, nwservVars, toServ, bindQueue, binds, alive>>

(* got_sig_child = 0, whatever has arrived since.                           *)
ClearSigChild ==
  /\ reaping
  /\ reaping' = FALSE /\ sigchld' = FALSE
  /\ UNCHANGED <<conns, count, proc, toNwserv, nwservVars, toServ, bindQueue, binds, alive>>

(* A process ends, told to or not.                                          *)
NwconnEnds(p) ==
  /\ proc[p] \in {"run", "term"}
  /\ proc' = [proc EXCEPT ![p] = "zombie"]
  /\ sigchld' = TRUE
  /\ UNCHANGED <<conns, count, reaping, toNwserv, nwservVars, toServ, bindQueue, binds, alive>>

-----------------------------------------------------------------------------
(* nwserv: modify_wdog_conn, modes 0 (reset) and 1 (activate).  An entry    *)
(* below hi_conn is set whether it is in use or not.                        *)
ResetEntry(w) == [w EXCEPT !.last = TRUE, !.counter = 0]
ActivateEntry(w) == [w EXCEPT !.last = TRUE, !.counter = Max({@, 1, MaxTries - 1})]

(* hi_conn after an entry at the end is removed.                            *)
Shrink(w, n) ==
  IF n # hi_conn THEN hi_conn ELSE Max({0} \cup {k \in 1..hi_conn : w[k].last})

(* What nwbind misses of slot n when m does not arrive: a close weighs more *)
(* than the inserts after it.                                               *)
Missed(n, m) ==
  IF m.what = "close" \/ missed[n] = "close" THEN "close" ELSE "insert"

(* write_to_nwbind: send_own_data repeats the packet while it is not        *)
(* confirmed, so that k copies of it arrive.  After MAX_SEND_TRIES it gives *)
(* up, and write_wdata only logs that: k may be 0.                          *)
SendToBind(m) ==
  \E k \in 0..MaxSends :
    /\ Len(toBind) < Cap /\ (k # 1 => m.conn \in Lossy)
    /\ toBind' = toBind \o [i \in 1..k |-> m]
    /\ missed' = [missed EXCEPT ![m.conn] = IF k > 0 THEN "nothing" ELSE Missed(m.conn, m)]

NwservInsert ==
  LET m == Head(toNwserv)
  IN  /\ toNwserv # <<>> /\ m.what = "insert"
      /\ toNwserv' = Tail(toNwserv)
      /\ wdogs' = [k \in Slot |->
                     IF k = m.conn THEN [last |-> TRUE, counter |-> 0, addr |-> m.addr]
                     ELSE IF k \in hi_conn+1..m.conn THEN NoWdog ELSE wdogs[k]]
      /\ hi_conn' = Max({hi_conn, m.conn})
      /\ SendToBind(m)
      /\ UNCHANGED <<servVars, toServ, binds, alive>>

NwservClose ==
  LET m == Head(toNwserv)
      w == [wdogs EXCEPT ![m.conn] = NoWdog]
  IN  /\ toNwserv # <<>> /\ m.what = "close"
      /\ toNwserv' = Tail(toNwserv)
      /\ IF m.conn <= hi_conn
         THEN wdogs' = w /\ hi_conn' = Shrink(w, m.conn)
         ELSE UNCHANGED nwservVars
      /\ SendToBind(m)
      /\ UNCHANGED <<servVars, toServ, binds, alive>>

NwservReset ==
  LET m == Head(toNwserv)
  IN  /\ toNwserv # <<>> /\ m.what = "reset"
      /\ toNwserv' = Tail(toNwserv)
      /\ wdogs' = IF m.conn <= hi_conn
                  THEN [wdogs EXCEPT ![m.conn] = ResetEntry(@)] ELSE wdogs
      /\ UNCHANGED <<servVars, hi_conn, toServ, bindQueue, binds, alive>>

(* Mutant of CountUp: the tries are not counted.                            *)
CountUpNot(w) == w

(* send_wdogs for the entries k that are due: a client that has not         *)
(* answered often enough is cleared, the others are asked.  (Above MaxTries *)
(* a counter need not be told apart.)  When ncpserv does not confirm a      *)
(* clear in time, nwserv gives it up until the next round.                  *)
CountUp(w) == [w EXCEPT !.counter = IF @ > MaxTries THEN @ ELSE @ + 1]
GivenUp(w, due) == {k \in due : w[k].counter > MaxTries}

send_wdogs(w, due) ==
  /\ toServ' = IF Len(toServ) < Cap THEN toServ \o SetToSeq(GivenUp(w, due)) ELSE toServ
  /\ wdogs' = [k \in Slot |-> IF k \in due THEN CountUp(w[k]) ELSE w[k]]

(* 0x4444, 1: every entry is activated, and due at once.                    *)
NwservActivate ==
  LET w == [k \in Slot |-> IF k <= hi_conn THEN ActivateEntry(wdogs[k]) ELSE wdogs[k]]
  IN  /\ toNwserv # <<>> /\ Head(toNwserv).what = "activate"
      /\ toNwserv' = Tail(toNwserv)
      /\ send_wdogs(w, 1..hi_conn)
      /\ UNCHANGED <<servVars, hi_conn, bindQueue, binds, alive>>

(* The timer: entry k has been silent for more than 50 or 60 seconds.       *)
WdogDue(k) ==
  /\ k <= hi_conn /\ wdogs[k].last
  /\ send_wdogs(wdogs, {k})
  /\ UNCHANGED <<servVars, hi_conn, toNwserv, bindQueue, binds, alive>>

(* handle_event, WDOG_SLOT: the client of the entry answers 'Y'.            *)
WdogAnswer(k) ==
  /\ k <= hi_conn /\ wdogs[k].addr \in alive
  /\ wdogs' = [wdogs EXCEPT ![k] = ResetEntry(@)]
  /\ UNCHANGED <<servVars, hi_conn, toNwserv, toServ, bindQueue, binds, alive>>

-----------------------------------------------------------------------------
(* Mutant of Entry: a clear leaves the entry active.                        *)
EntryStaysActive(b, m) ==
  IF m.what = "insert" THEN [active |-> TRUE, addr |-> m.addr, login |-> NoClient]
  ELSE [b EXCEPT !.login = NoClient]

(* Mutant of Entry: object_id is not reset.                                 *)
EntryKeepsLogin(b, m) ==
  [b EXCEPT !.active = m.what = "insert", !.addr = m.addr]

(* nwbind's entry b after open_clear_connection.                            *)
Entry(b, m) ==
  IF m.what = "insert" THEN [active |-> TRUE, addr |-> m.addr, login |-> NoClient] ELSE NoBind

(* nwbind, handle_ctrl.                                                     *)
BindCtrl ==
  LET m == Head(toBind)
  IN  /\ toBind # <<>>
      /\ toBind' = Tail(toBind)
      /\ binds' = [binds EXCEPT ![m.conn] = Entry(@, m)]
      /\ UNCHANGED <<servVars, toNwserv, nwservVars, toServ, missed, alive>>

(* A login reaches nwbind over the client's nwconn; nwbind serves active    *)
(* connections only.                                                        *)
Login(n) ==
  /\ conns[n].fd /\ conns[n].addr \in alive /\ proc[conns[n].pid] = "run"
  /\ binds[n].active
  /\ binds' = [binds EXCEPT ![n].login = conns[n].addr]
  /\ UNCHANGED <<servVars, toNwserv, nwservVars, toServ, bindQueue, alive>>

(* External: a client is switched off, or on again.                         *)
ClientOff(a) ==
  /\ a \in alive /\ alive' = alive \ {a}
  /\ UNCHANGED <<servVars, toNwserv, nwservVars, toServ, bindQueue, binds>>

ClientOn(a) ==
  /\ a \notin alive /\ alive' = alive \cup {a}
  /\ UNCHANGED <<servVars, toNwserv, nwservVars, toServ, bindQueue, binds>>

-----------------------------------------------------------------------------
Connect(a) ==
  /\ a \in alive
  /\ ConnectAgain(a) \/ (\E p \in Pid : ConnectNew(a, p)) \/ ConnectFails(a) \/ ConnectFull(a)

Ncpserv ==
  \/ \E a \in Client : Connect(a)
  \/ \E a \in alive, n \in Slot : Destroy(a, n) \/ ResetWdog(a, n)
  \/ CtrlClear \/ KillConnections \/ ClearSigChild
NwservReads == NwservInsert \/ NwservClose \/ NwservReset \/ NwservActivate

Next ==
  \/ Ncpserv \/ NwservReads \/ BindCtrl
  \/ \E k \in Slot : WdogDue(k) \/ WdogAnswer(k) \/ Login(k)
  \/ \E p \in Pid : NwconnEnds(p)
  \/ \E a \in Leaver : ClientOff(a) \/ ClientOn(a)

Spec == Init /\ [][Next]_vars

(* The three servers work off what they are sent, and the watchdog timer    *)
(* runs out for every entry that stays silent.                              *)
Fairness ==
  /\ WF_vars(NwservReads) /\ WF_vars(BindCtrl) /\ WF_vars(ClearSigChild)
  /\ SF_vars(CtrlClear) /\ \A k \in Slot : SF_vars(WdogDue(k))

FairSpec == Spec /\ Fairness

-----------------------------------------------------------------------------
(* A client never has two connections, no matter how its 0x1111, its        *)
(* 0x5555, the watchdog and the end of its process interleave.              *)
OneSlotPerClient ==
  \A m, n \in Slot : conns[m].fd /\ conns[n].fd /\ conns[m].addr = conns[n].addr => m = n

(* No process is forgotten: one that nobody has told to end belongs to an   *)
(* open connection, to exactly one, below count_connections.                *)
NoStrayProcess ==
  \A p \in Pid : proc[p] = "run" =>
    \E n \in 1..count : /\ conns[n].fd /\ conns[n].pid = p
                        /\ \A m \in Slot \ {n} : conns[m].pid # p

(* What nwbind still has to be told of slot n: the last of it is in the     *)
(* pipe to nwserv, or is a packet of nwserv's.                              *)
About(q, n) == {i \in 1..Len(q) : q[i].what \in {"insert", "close"} /\ q[i].conn = n}
Told(n) == About(toNwserv, n) # {} \/ About(toBind, n) # {}
LastTold(n) ==
  IF About(toNwserv, n) # {} THEN toNwserv[Max(About(toNwserv, n))]
  ELSE toBind[Max(About(toBind, n))]

(* nwbind's table follows ncpserv's: with the messages still under way      *)
(* applied, exactly the open connections are active, each for its own       *)
(* client, even if packets are repeated and slots are reused meanwhile.     *)
(* Only a slot whose last message nwserv has given up may differ, until the *)
(* next one that arrives.                                                   *)
BindFollows ==
  \A n \in Slot : missed[n] = "nothing" =>
    LET b == IF Told(n) THEN [active |-> LastTold(n).what = "insert", addr |-> LastTold(n).addr]
             ELSE [active |-> binds[n].active, addr |-> binds[n].addr]
    IN  IF conns[n].fd THEN b.active /\ b.addr = conns[n].addr ELSE ~b.active

(* Nobody works under the login of the slot's former client: once nothing   *)
(* about a slot is under way, a login there is the present client's own.    *)
(* It takes a close that nwserv has given up, with no message that arrived  *)
(* since, to break this; inserts given up do not.                           *)
NoInheritedLogin ==
  \A n \in Slot :
    conns[n].fd /\ ~Told(n) /\ missed[n] # "close" =>
      binds[n].login \in {NoClient, conns[n].addr}

(* A client that has vanished, and does not come back, loses its connection *)
(* in the end.                                                              *)
VanishedCleared ==
  \A a \in Leaver :
    a \notin alive ~> a \in alive \/ \A n \in Slot : ~(conns[n].fd /\ conns[n].addr = a)

=============================================================================
