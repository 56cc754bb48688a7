------------------------------- MODULE Queues -------------------------------
(***************************************************************************)
(* Print queues: the queue lists of nwbind (src/src/nwqueue.c), the job     *)
(* tables of the connection processes (src/src/nwqconn.c) and the requests  *)
(* that run through both (0x17/0x64..0x87, 0x18, 0x19).                     *)
(*                                                                         *)
(* A request of a connection starts in nwconn, is handled by nwbind in one  *)
(* atomic step and, for three of them, ends in nwconn again.  pend[c] is    *)
(* the message between the two; other connections' requests run in between. *)
(*                                                                         *)
(* A job is identified by its stamp, the file_entry_time that makes the     *)
(* name of its file unique; its job id is what requests carry and is reused.*)
(* The job's target, type and execute time only decide whether it suits a   *)
(* queue server: the set suits is chosen by the environment.                *)
(***************************************************************************)
EXTENDS Integers, Sequences, FiniteSets, SequencesExt

CONSTANTS
  Conn,       \* connection numbers
  Queue,      \* bindery ids of print queues
  User,       \* bindery ids of users
  Sup,        \* the supervisor (id 1)
  Creators,   \* the connections whose clients create jobs
  LoginAs,    \* LoginAs[c]: the users who may log in on connection c
  Servers,    \* members of the queues' Q_SERVERS
  NoUser,     \* object id 0
  NoConn,     \* server_station 0
  Task,       \* task numbers of a client
  Restarts,   \* values of the client's restart flag (0x10)
  MaxJobId,   \* the largest job id (999)
  MaxPage,    \* entries of one job list answer (125)
  MaxClock    \* bound on the number of jobs created

ASSUME QueueConstants ==
  /\ LoginAs \in [Conn -> SUBSET User]
  /\ Sup \in User /\ Servers \subseteq User /\ NoUser \notin User
  /\ Restarts \subseteq BOOLEAN /\ NoConn \notin Conn
  /\ MaxJobId \in Nat \ {0} /\ MaxClock \in Nat /\ MaxPage \in Nat \ {0}

VARIABLES
  jobs,     \* queue_jobs of every queue, in list order
  lastId,   \* last_job_id
  qstate,   \* "off" (no such queue), "on", "stopped" (status & 4)
  qserver,  \* the one attached queue server, or {}
  files,    \* files[s]: the job file of stamp s, "none", "empty" or "data"
  clock,    \* the last stamp given
  user,     \* object_id of every connection, NoUser before login
  local,    \* queue_jobs of every connection process
  pend,     \* the request a connection process has sent to nwbind
  reused    \* a job id was given again while a connection process still had it

vars == <<jobs, lastId, qstate, qserver, files, clock, user, local, pend, reused>>

(* A job file: the directory of its queue and the time in its name.         *)
Stamp == Queue \X (1..MaxClock)
JobId == 1..MaxJobId

NoRequest == [op |-> "none"]
Server == [user : User, conn : Conn]

Ids(list) == {list[i].id : i \in DOMAIN list}
StampsOf(q) == {jobs[q][i].stamp : i \in DOMAIN jobs[q]}

(* free_queue_job: the list without the jobs of the stamps S; the positions *)
(* are the places in the list.                                              *)
Without(list, S) ==
  LET kept[n \in 0..Len(list)] ==
        IF n = 0 THEN <<>>
        ELSE IF list[n].stamp \in S THEN kept[n - 1] ELSE Append(kept[n - 1], list[n])
  IN  kept[Len(list)]

-----------------------------------------------------------------------------
(* The list of a queue.                                                     *)

(* The k-th id after the last one given.                                    *)
NextId(last, k) == ((last - 1 + k) % MaxJobId) + 1

(* Mutant of FreeIds: the next id is taken to be free.                      *)
FreeIdsNext(list, last) == 1..MaxJobId - 1

(* The number of steps after which the search of add_queue_job stops at an  *)
(* unused id: it goes round from the last id given and gives up when it     *)
(* comes back to it, used or not.                                           *)
FreeIds(list, last) ==
  {k \in 1..MaxJobId - 1 : NextId(last, k) \notin Ids(list)}

(* add_queue_job: the list and the last id afterwards.  A job that already  *)
(* has an id (read from the file) keeps it, but the search for a free id is *)
(* made for it all the same, and the job is dropped when it fails.          *)
add_queue_job(q, j) ==
  LET list == q.list
      k    == IF list = <<>> THEN 1 ELSE Min(FreeIds(list, q.last))
      last == NextId(q.last, k)
  IN  IF list # <<>> /\ FreeIds(list, q.last) = {} THEN q
      ELSE [list |-> Append(list, [j EXCEPT !.id = IF @ = 0 THEN last ELSE @]),
            last |-> last]

(* What r_w_queue_jobs corrects in the jobs it reads back.                  *)
Saved(list) ==
  [i \in DOMAIN list |->
    [list[i] EXCEPT !.held = FALSE, !.server = NoUser, !.station = NoConn]]

(* exit_queues writes the lists, init_queues reads them into new queues.    *)
r_w_queue_jobs(list) ==
  LET read[n \in 0..Len(list)] ==
        IF n = 0 THEN [list |-> <<>>, last |-> 0]
        ELSE add_queue_job(read[n - 1], Saved(list)[n])
  IN  read[Len(list)]

(* The ids one call of nw_get_queue_job_list answers from an offset on.     *)
nw_get_queue_job_list(list, offset) ==
  [i \in 1..Min({MaxPage, Len(list) - offset}) |-> list[offset + i].id]

(* The answer to 0x6c, 0x7a: a job, its position and the id of the next.    *)
fill_q_job_entry(list, i) ==
  [id |-> list[i].id, job_position |-> i,
   record_next |-> IF i < Len(list) THEN list[i + 1].id ELSE 0]

(* get_qj_file_size is positive.                                            *)
HasData(s) == files[s] = "data"

(* remove_queue_job_file for a set of stamps.                               *)
remove_queue_job_file(S) == [s \in Stamp |-> IF s \in S THEN "none" ELSE files[s]]

-----------------------------------------------------------------------------
(* The table of a connection process: entries [q, id, task, stamp, mode]    *)
(* with the file each has open, for "write" or "read", or "closed" again.   *)

find_queue_job(c, q, id) == {e \in local[c] : e.q = q /\ e.id = id}

(* open_creat_queue_file can make a file, and open one that is there.       *)
open_creat_queue_file(mode, s) == mode = "write" \/ files[s] # "none"

(* Mutant of close_queue_job: the file stays open.                          *)
StaysOpen(c, q, id) == local[c]

(* close_queue_job: nw_close_file on the job's handle; the entry stays.     *)
close_queue_job(c, q, id) ==
  {IF e \in find_queue_job(c, q, id) THEN [e EXCEPT !.mode = "closed"] ELSE e
     : e \in local[c]}

-----------------------------------------------------------------------------
Idle(c) == user[c] # NoUser /\ pend[c] = NoRequest

Sends(c, m) == pend' = [pend EXCEPT ![c] = m]

Init ==
  /\ jobs = [q \in Queue |-> <<>>]
  /\ lastId = [q \in Queue |-> 0]
  /\ qstate = [q \in Queue |-> "on"]
  /\ qserver = [q \in Queue |-> {}]
  /\ files = [s \in Stamp |-> "none"]
  /\ clock = 0
  /\ user = [c \in Conn |-> NoUser]
  /\ local = [c \in Conn |-> {}]
  /\ pend = [c \in Conn |-> NoRequest]
  /\ reused = FALSE

Login(c, u) ==
  /\ user[c] = NoUser
  /\ user' = [user EXCEPT ![c] = u]
  /\ UNCHANGED <<jobs, lastId, qstate, qserver, files, clock, local, pend, reused>>

(* new_queue_job, with the fields nw_creat_queue_job fills in.              *)
NewJob(c, q, t, restart) ==
  [id |-> 0, stamp |-> <<q, clock + 1>>, conn |-> c, task |-> t,
   client |-> user[c], held |-> TRUE, restart |-> restart,
   server |-> NoUser, station |-> NoConn]

(* A connection process has an entry with the job id, or is about to.        *)
Known(q, id) ==
  \E c \in Conn :
    \/ \E e \in local[c] : e.q = q /\ e.id = id
    \/ pend[c].op \in {"create", "service"} /\ pend[c].q = q /\ pend[c].id = id

(* 0x68, 0x79 in nwbind: nw_creat_queue_job.  Neither the queue's status    *)
(* nor Q_USERS is looked at.  The job is held (0x20) until it is closed;    *)
(* restart is the client's 0x10 flag.                                       *)
CreateJob(c, q, t, restart) ==
  LET r == add_queue_job([list |-> jobs[q], last |-> lastId[q]],
                         NewJob(c, q, t, restart))
  IN  /\ Idle(c) /\ qstate[q] # "off" /\ clock < MaxClock
      /\ jobs' = [jobs EXCEPT ![q] = r.list]
      /\ lastId' = [lastId EXCEPT ![q] = r.last]
      /\ clock' = clock + 1
      /\ IF r.list = jobs[q] THEN UNCHANGED <<pend, reused>>
         ELSE /\ Sends(c, [op |-> "create", q |-> q, id |-> r.last,
                           task |-> t, stamp |-> <<q, clock + 1>>])
              /\ reused' = (reused \/ Known(q, r.last))
      /\ UNCHANGED <<qstate, qserver, files, user, local>>

(* The rest of it in nwconn: creat_queue_job makes the file and the entry;  *)
(* when the file cannot be made the entry is freed again.                   *)
CreateFile(c, ok) ==
  /\ pend[c].op = "create"
  /\ Sends(c, NoRequest)
  /\ IF ok
     THEN /\ files' = [files EXCEPT ![pend[c].stamp] = "empty"]
          /\ local' = [local EXCEPT ![c] = @ \cup
               {[q |-> pend[c].q, id |-> pend[c].id, task |-> pend[c].task,
                 stamp |-> pend[c].stamp, mode |-> "write"]}]
     ELSE UNCHANGED <<files, local>>
  /\ UNCHANGED <<jobs, lastId, qstate, qserver, clock, user, reused>>

(* The client writes to the job file; to no effect once it was removed.     *)
WriteFile(c, e) ==
  /\ Idle(c) /\ e \in local[c] /\ e.mode = "write"
  /\ files' = [files EXCEPT ![e.stamp] = IF @ = "empty" THEN "data" ELSE @]
  /\ UNCHANGED <<jobs, lastId, qstate, qserver, clock, user, local, pend, reused>>

(* 0x69, 0x7f in nwconn: without an entry of its own the request fails.     *)
CloseFile(c, q, id) ==
  /\ Idle(c) /\ find_queue_job(c, q, id) # {}
  /\ local' = [local EXCEPT ![c] = close_queue_job(c, q, id)]
  /\ Sends(c, [op |-> "close", q |-> q, id |-> id])
  /\ UNCHANGED <<jobs, lastId, qstate, qserver, files, clock, user, reused>>

(* nw_close_queue_job: the job is released for the queue servers, or, in a  *)
(* queue with a print command (Q_UNIX_PRINT, which may be written at any    *)
(* time), taken from the list.  On an error nwconn keeps its entry.         *)
CloseJob(c, direct) ==
  LET q == pend[c].q
      found == {i \in DOMAIN jobs[q] : jobs[q][i].id = pend[c].id}
  IN  /\ pend[c].op = "close"
      /\ IF found = {} \/ qstate[q] = "off"
         THEN Sends(c, NoRequest) /\ UNCHANGED jobs
         ELSE LET i == Min(found) IN
              /\ jobs' = [jobs EXCEPT ![q] =
                   IF direct THEN Without(@, {@[i].stamp})
                   ELSE [@ EXCEPT ![i].held = FALSE]]
              /\ Sends(c, [op |-> "print", q |-> q, id |-> pend[c].id, direct |-> direct])
      /\ UNCHANGED <<lastId, qstate, qserver, files, clock, user, local, reused>>

(* close_queue_job2: the file is piped to the print command and removed     *)
(* when that succeeds; the first entry with the id is freed in any case.    *)
PrintFile(c, ok) ==
  LET found == find_queue_job(c, pend[c].q, pend[c].id)
  IN  /\ pend[c].op = "print"
      /\ Sends(c, NoRequest)
      /\ \E e \in found :
           /\ local' = [local EXCEPT ![c] = @ \ {e}]
           /\ files' = IF ok /\ pend[c].direct THEN remove_queue_job_file({e.stamp})
                       ELSE files
      /\ UNCHANGED <<jobs, lastId, qstate, qserver, clock, user, reused>>

(* 0x6a, 0x80: nw_remove_job_from_queue, for the supervisor and the user    *)
(* who made the job.                                                        *)
RemoveJob(c, q, i) ==
  /\ Idle(c) /\ i \in DOMAIN jobs[q]
  /\ user[c] \in {Sup, jobs[q][i].client}
  /\ jobs' = [jobs EXCEPT ![q] = Without(@, {@[i].stamp})]
  /\ files' = remove_queue_job_file({jobs[q][i].stamp})
  /\ UNCHANGED <<lastId, qstate, qserver, clock, user, local, pend, reused>>

(* 0x67, 0x7e, only for the supervisor.                                     *)
SetQueueStatus(c, q, st) ==
  /\ Idle(c) /\ user[c] = Sup /\ qstate[q] # "off"
  /\ qstate' = [qstate EXCEPT ![q] = st]
  /\ UNCHANGED <<jobs, lastId, qserver, files, clock, user, local, pend, reused>>

(* 0x6f: a second queue server takes the place of the first.                *)
AttachServer(c, q) ==
  /\ Idle(c) /\ qstate[q] # "off" /\ user[c] \in Servers
  /\ qserver' = [qserver EXCEPT ![q] = {[user |-> user[c], conn |-> c]}]
  /\ UNCHANGED <<jobs, lastId, qstate, files, clock, user, local, pend, reused>>

(* 0x70.                                                                    *)
DetachServer(c, q) ==
  /\ Idle(c) /\ qserver[q] = {[user |-> user[c], conn |-> c]}
  /\ qserver' = [qserver EXCEPT ![q] = {}]
  /\ UNCHANGED <<jobs, lastId, qstate, files, clock, user, local, pend, reused>>

(* Mutant of Servable: a job that has a server is taken again.              *)
ServableTaken(j, suits) == ~j.held /\ j.stamp \in suits

(* The jobs of a list that suit a queue server.                             *)
Servable(j, suits) == j.server = NoUser /\ ~j.held /\ j.stamp \in suits

(* 0x71, 0x7c in nwbind: nw_service_queue_job.  The list is walked up to    *)
(* the first suitable job with data; suitable jobs without data that are    *)
(* older than a minute are removed on the way.                              *)
ServiceJob(c, q, suits, aged) ==
  LET list  == jobs[q]
      full  == {i \in DOMAIN list : Servable(list[i], suits)
                                    /\ HasData(list[i].stamp)}
      upto  == IF full = {} THEN Len(list) + 1 ELSE Min(full)
      gone  == {list[i].stamp : i \in {k \in DOMAIN list :
                  /\ aged /\ k < upto /\ Servable(list[k], suits)
                  /\ ~HasData(list[k].stamp)}}
      taken == IF full = {} THEN list
               ELSE [list EXCEPT ![upto].server = user[c], ![upto].station = c]
  IN  /\ Idle(c) /\ qserver[q] = {[user |-> user[c], conn |-> c]}
      /\ qstate[q] = "on"
      /\ full # {} \/ gone # {}
      /\ jobs' = [jobs EXCEPT ![q] = Without(taken, gone)]
      /\ files' = remove_queue_job_file(gone)
      /\ \E t \in Task :
           IF full = {} THEN UNCHANGED pend
           ELSE Sends(c, [op |-> "service", q |-> q, id |-> list[upto].id,
                          task |-> t, stamp |-> list[upto].stamp])
      /\ UNCHANGED <<lastId, qstate, qserver, clock, user, local, reused>>

(* service_queue_job in nwconn: the file is opened to read; when that fails *)
(* the entry is freed, and nwbind is not told.                              *)
OpenServed(c, ok) ==
  /\ pend[c].op = "service"
  /\ ok => open_creat_queue_file("read", pend[c].stamp)
  /\ Sends(c, NoRequest)
  /\ local' = [local EXCEPT ![c] = IF ~ok THEN @ ELSE @ \cup
       {[q |-> pend[c].q, id |-> pend[c].id, task |-> pend[c].task,
         stamp |-> pend[c].stamp, mode |-> "read"]}]
  /\ UNCHANGED <<jobs, lastId, qstate, qserver, files, clock, user, reused>>

(* 0x72, 0x83 and 0x73, 0x84 in nwconn: finish_abort_queue_job.             *)
FinishAbort(c, e, abort) ==
  /\ Idle(c) /\ e \in local[c]
  /\ local' = [local EXCEPT ![c] = @ \ {e}]
  /\ Sends(c, [op |-> "finish", q |-> e.q, id |-> e.id, abort |-> abort])
  /\ UNCHANGED <<jobs, lastId, qstate, qserver, files, clock, user, reused>>

(* The job is served by this user on this connection.                       *)
Serves(c, j) == j.server = user[c] /\ j.station = c

(* nw_finish_abort_queue_job: an aborted job with the restart flag waits    *)
(* again, any other is removed with its file.                               *)
FinishJob(c) ==
  LET q == pend[c].q
      found == {i \in DOMAIN jobs[q] : jobs[q][i].id = pend[c].id}
  IN  /\ pend[c].op = "finish"
      /\ Sends(c, NoRequest)
      /\ IF \E i \in found : Serves(c, jobs[q][i])
         THEN \E i \in found :
                IF pend[c].abort /\ jobs[q][i].restart
                THEN /\ jobs' = [jobs EXCEPT ![q][i].server = NoUser,
                                             ![q][i].station = NoConn]
                     /\ UNCHANGED files
                ELSE /\ jobs' = [jobs EXCEPT ![q] = Without(@, {@[i].stamp})]
                     /\ files' = remove_queue_job_file({jobs[q][i].stamp})
         ELSE UNCHANGED <<jobs, files>>
      /\ UNCHANGED <<lastId, qstate, qserver, clock, user, local, reused>>

-----------------------------------------------------------------------------
(* Mutant of PendingJobs: a job is dropped with its data.                   *)
PendingJobsAll(c, ts, q) ==
  [drop |-> {jobs[q][i].stamp : i \in {k \in DOMAIN jobs[q] : jobs[q][k].conn = c
                                       /\ jobs[q][k].task \in ts /\ jobs[q][k].held}},
   keep |-> {}]

(* The held jobs a connection has made with the given tasks: without data   *)
(* they are dropped, the others are released.                               *)
PendingJobs(c, ts, q) ==
  LET mine == {jobs[q][i] : i \in {k \in DOMAIN jobs[q] : jobs[q][k].conn = c
                                   /\ jobs[q][k].task \in ts /\ jobs[q][k].held}}
      data == {j \in mine : HasData(j.stamp)}
  IN  [drop |-> {j.stamp : j \in mine \ data}, keep |-> {j.stamp : j \in data}]

(* nw_close_connection_jobs, over all queues.                               *)
nw_close_connection_jobs(c, ts) ==
  /\ jobs' = [q \in Queue |->
       LET p == PendingJobs(c, ts, q)
           released == [i \in DOMAIN jobs[q] |->
             IF jobs[q][i].stamp \in p.keep THEN [jobs[q][i] EXCEPT !.held = FALSE]
             ELSE jobs[q][i]]
       IN  Without(released, p.drop)]
  /\ files' = remove_queue_job_file(UNION {PendingJobs(c, ts, q).drop : q \in Queue})

(* 0x18 End of Job, 0x19 logout in nwconn: the entries are freed and the    *)
(* handles closed, those of one task or all of them.                        *)
EndOfJob(c, ts) ==
  /\ Idle(c)
  /\ ts = Task \/ \E t \in Task : ts = {t}
  /\ local' = [local EXCEPT ![c] = {e \in @ : e.task \notin ts}]
  /\ Sends(c, [op |-> "end", tasks |-> ts])
  /\ UNCHANGED <<jobs, lastId, qstate, qserver, files, clock, user, reused>>

(* ... and in nwbind; logout (all tasks) also takes the user off.           *)
EndJobs(c) ==
  /\ pend[c].op = "end"
  /\ nw_close_connection_jobs(c, pend[c].tasks)
  /\ Sends(c, NoRequest)
  /\ user' = [user EXCEPT ![c] = IF pend[c].tasks = Task THEN NoUser ELSE @]
  /\ UNCHANGED <<lastId, qstate, qserver, clock, local, reused>>

(* The connection is cleared (watchdog, attach in its place): its process   *)
(* is killed, nwbind forgets the user, and the queues are not told.         *)
ClearConnection(c) ==
  /\ user[c] # NoUser
  /\ user' = [user EXCEPT ![c] = NoUser]
  /\ local' = [local EXCEPT ![c] = {}]
  /\ Sends(c, NoRequest)
  /\ UNCHANGED <<jobs, lastId, qstate, qserver, files, clock, reused>>

(* 0x65: nw_destroy_queue removes the queue, its jobs and the files of its  *)
(* directory.                                                               *)
DestroyQueue(c, q) ==
  /\ Idle(c) /\ user[c] = Sup /\ qstate[q] # "off"
  /\ qstate' = [qstate EXCEPT ![q] = "off"]
  /\ jobs' = [jobs EXCEPT ![q] = <<>>]
  /\ qserver' = [qserver EXCEPT ![q] = {}]
  /\ files' = remove_queue_job_file({s \in Stamp : s[1] = q})
  /\ UNCHANGED <<lastId, clock, user, local, pend, reused>>

(* 0x64: nw_creat_queue.  The bindery gives the lowest free id, so the id   *)
(* of a destroyed queue comes back, with an empty list.                     *)
CreateQueue(c, q) ==
  /\ Idle(c) /\ user[c] = Sup /\ qstate[q] = "off"
  /\ qstate' = [qstate EXCEPT ![q] = "on"]
  /\ lastId' = [lastId EXCEPT ![q] = 0]
  /\ UNCHANGED <<jobs, qserver, files, clock, user, local, pend, reused>>

(* The server goes down and comes up: exit_queues, init_queues.             *)
Restart ==
  /\ jobs' = [q \in Queue |-> r_w_queue_jobs(jobs[q]).list]
  /\ lastId' = [q \in Queue |-> r_w_queue_jobs(jobs[q]).last]
  /\ qstate' = [q \in Queue |-> IF qstate[q] = "off" THEN "off" ELSE "on"]
  /\ qserver' = [q \in Queue |-> {}]
  /\ user' = [c \in Conn |-> NoUser]
  /\ local' = [c \in Conn |-> {}]
  /\ pend' = [c \in Conn |-> NoRequest]
  /\ UNCHANGED <<files, clock, reused>>

(* The requests of queue clients and of the supervisor.                     *)
ClientRequest(c, q) ==
  \/ c \in Creators /\ \E t \in Task, r \in Restarts : CreateJob(c, q, t, r)
  \/ \E id \in JobId : CloseFile(c, q, id)
  \/ \E i \in DOMAIN jobs[q] : RemoveJob(c, q, i)
  \/ \E st \in {"on", "stopped"} : SetQueueStatus(c, q, st)
  \/ DestroyQueue(c, q) \/ CreateQueue(c, q)

(* The requests of queue servers.                                           *)
ServerRequest(c, q) ==
  \/ AttachServer(c, q) \/ DetachServer(c, q)
  \/ \E suits \in SUBSET StampsOf(q), aged \in BOOLEAN : ServiceJob(c, q, suits, aged)

(* Login, end of job and the parts of the requests in nwconn.               *)
ConnStep(c) ==
  \/ \E u \in LoginAs[c] : Login(c, u)
  \/ \E ok \in BOOLEAN : \/ CreateFile(c, ok) \/ CloseJob(c, ok)
                         \/ PrintFile(c, ok) \/ OpenServed(c, ok)
  \/ \E e \in local[c] : WriteFile(c, e) \/ \E a \in BOOLEAN : FinishAbort(c, e, a)
  \/ FinishJob(c)
  \/ \E ts \in SUBSET Task : EndOfJob(c, ts)
  \/ EndJobs(c) \/ ClearConnection(c)

Next ==
  \/ \E c \in Conn : ConnStep(c)
  \/ \E c \in Conn, q \in Queue : ClientRequest(c, q) \/ ServerRequest(c, q)
  \/ Restart

Spec == Init /\ [][Next]_vars

-----------------------------------------------------------------------------
(* What a client sees that pages through a list: it asks again from the     *)
(* number of entries it has got.                                            *)
Pages(list) ==
  LET starts == {o \in 0..Len(list) : o % MaxPage = 0}
  IN  UNION {{<<o + i, nw_get_queue_job_list(list, o)[i]>> :
                i \in DOMAIN nw_get_queue_job_list(list, o)} : o \in starts}

(* No two jobs of a queue share a job id, although ids wrap, are kept over  *)
(* a restart and the search of add_queue_job starts anywhere; and a client  *)
(* that pages through the list, or follows its next ids, sees every job once*)
JobIdsUnique ==
  \A q \in Queue :
    /\ \A i, j \in DOMAIN jobs[q] : jobs[q][i].id = jobs[q][j].id => i = j
    /\ Pages(jobs[q]) = {<<i, jobs[q][i].id>> : i \in DOMAIN jobs[q]}
    /\ \A i, j \in DOMAIN jobs[q] :
         fill_q_job_entry(jobs[q], i).record_next = jobs[q][j].id <=> j = i + 1

(* As long as no job id was given again while a connection process had it,  *)
(* a job that was given to a queue server is not being written by any client*)
(* any more: nwconn closes the file before nwbind releases the job, on      *)
(* close, end of job, logout and restart alike.  (Requests carry the ids    *)
(* alone, and nwconn keeps its entry of a job that was taken from the queue *)
(* behind its back; once the id is given again, the entry acts on the new   *)
(* job.)                                                                    *)
ServedNotWritten ==
  ~reused =>
    \A q \in Queue : \A i \in DOMAIN jobs[q] : jobs[q][i].server # NoUser =>
      \A c \in Conn : \A e \in local[c] :
        e.stamp = jobs[q][i].stamp => e.mode # "write"

(* The connections that read a job for printing, or are about to.           *)
Readers(s) ==
  {<<c, "open">> : c \in {d \in Conn : \E e \in local[d] :
                          e.stamp = s /\ e.mode = "read"}}
  \cup {<<c, "opening">> : c \in {d \in Conn : pend[d].op = "service" /\ pend[d].stamp = s}}

(* Likewise a job is printed by one queue server at a time, the one the list*)
(* names: while a connection process reads its file, the job stays marked   *)
(* with that station, until it is finished, aborted or removed.  Replacing  *)
(* the attached server, clearing its connection and a restart keep this.    *)
OneReader ==
  ~reused => \A s \in Stamp :
    /\ Cardinality(Readers(s)) <= 1
    /\ \A q \in Queue : \A i \in DOMAIN jobs[q] : jobs[q][i].stamp = s =>
         \A r \in Readers(s) : jobs[q][i].station = r[1]

(* A job with data leaves its queue only when its queue server finishes or  *)
(* aborts it, when its owner or the supervisor removes it, when the client  *)
(* prints it directly, when the queue is destroyed, or when a full queue is *)
(* read back at a restart; never by an end of job, a logout, a cleared      *)
(* connection, or the walk of another queue server.                         *)
DataKeptStep ==
  jobs' # jobs => \A q \in Queue : \A i \in DOMAIN jobs[q] :
    (HasData(jobs[q][i].stamp) /\ jobs[q][i].stamp \notin StampsOf(q)')
      => \/ \E c \in Conn : \/ Idle(c) /\ user[c] \in {Sup, jobs[q][i].client}
                               /\ UNCHANGED <<pend, user>>
                            \/ pend[c].op = "finish" /\ jobs[q][i].server = user[c]
                               /\ jobs[q][i].station = c
                            \/ pend[c].op = "close" /\ pend'[c].op = "print"
         \/ Len(jobs[q]) = MaxJobId /\ local' = [c \in Conn |-> {}]

DataKept == [][DataKeptStep]_vars
=============================================================================
