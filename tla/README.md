# mars_nwe in TLA+

mars_nwe is a NetWare 3.x file server for Unix. This directory holds TLA+ models
of the parts of it in which several processes, the network and the kernel's file
locks meet, TLC configurations that check them on small instances, and proofs
that TLAPS checks for every instance. All paths below are relative to the
repository (`src/` is its top directory, so the C files are in `src/src/`).

## The system

One server is a handful of cooperating processes:

| Process | Files | State | Role |
|---|---|---|---|
| nwserv | `nwserv.c`, `nwroute.c` | watchdog table, routes, servers | starts the others, SAP/RIP, watches for clients that have gone |
| ncpserv | `ncpserv.c` | `connections[]` (fd, pid, address, sequence) | receives every NCP packet, one nwconn process per connection |
| nwconn | `nwconn.c`, `connect.c`, `nwfile.c`, `nwshare.c`, `namspace.c`, `trustee.c`, `nwvolume.c` ... | the files, handles and directories of one client | carries out the requests of one client |
| nwbind | `nwbind.c`, `nwdbm.c`, `sema.c`, `nwqueue.c` | bindery, logins, semaphores, queues | what the connections have in common |

A request goes client → ncpserv → (pipe) → nwconn; nwconn answers the client
directly or passes the request to nwbind, whose answer comes back over ncpserv
and the pipe. ncpserv reports new and closed connections to nwserv over a pipe,
nwserv repeats that to nwbind with packets, each sent up to `MAX_SEND_TRIES` times while it
is not confirmed and then given up, and asks ncpserv in the same way to clear the connection
of a vanished client.
nwconn processes have no server for what they share about files: each publishes
its opens as `fcntl` locks on bytes of a few files in a lock directory.

### Inventory

| Component | Operations | What is hard | What makes it correct | Module |
|---|---|---|---|---|
| File sharing (`nwshare.c`, callers in `nwfile.c`, `connect.c`) | test, add, remove; file lock | test and add of several processes, kill in between, `fcntl` semantics | deny modes hold between all handles; mutex always freed | `ShareFile`, `ShareService` |
| NCP session (`nwconn.c`, `ncpserv.c`, `nwbind.c`) | request, repeat, pass to nwbind, answer | loss, repetition, overtaking, merged pipe reads, timer | the answer is the request's own; not carried out twice; answered in the end | `NcpSession` |
| Connection life (`ncpserv.c`, `nwserv.c`, `nwbind.c`) | connect, destroy, watchdog, reap, log in | three tables updated by messages, signals, reuse of slots | one connection per client, no stray process, no inherited login but after a lost close, vanished clients cleared | `ConnTable` |
| Supervision (`nwserv.c`, main loops of `nwbind.c`, `ncpserv.c`) | start, signals, death of a child, shutdown | flags set at any moment, `waitpid` without `WNOHANG`, signals before a blocking receive | never blocks, no child left, a loss is noticed, an order to stop is obeyed | `Nwserv` |
| Semaphores (`sema.c`) | open, close, wait, signal, clear of a connection | reuse of slots, full tables, a clear among other users | one semaphore per name; not freed while open; a handle keeps its meaning | `Semaphores` |
| Queues (`nwqueue.c`, `nwqconn.c`) | create, write, close, serve, finish, abort, remove job; attach server; save and restore | a table in nwbind and one in each nwconn, servers that vanish, job ids reused | a job is served by one server and not before it is written; jobs with data stay | `Queues` |
| Bindery (`nwdbm.c`, `nwbind.c`) | objects, properties, sets, security, login | records in four files written one by one, kill in between, ids reused, sets written as values | no property without object, a name finds its object, members are kept | `Bindery` |
| Routing (`nwroute.c`, `nwserv.c`) | RIP and SAP updates, requests, broadcasts, interfaces | late, lost and reordered packets, routes without age, servers that move, messages given up | no circles, no route over a dead device, nwbind knows the servers | `Routes` |
| Record locks, logical records, handles (`nwfile.c`, `nwshare.c`) | open, create, close, write, lock, unlock | POSIX locks belong to the process: any close drops them | no overlapping locks of two clients; a refused open does no harm | `Files` |
| Base handles, directory handles (`namspace.c`, `connect.c`, `nwvolume.c`) | look up, create, rename, remove, evict | found again by path, links on disk, inodes reused | a handle that is accepted leads to its own object | `Names` |
| Searches (`connect.c`, `namspace.c`) | search first, next, of three kinds | shared and stolen handles, directories that change meanwhile | nothing is skipped or told twice | `Searches` |
| Trustees (`trustee.c`, `nwvolume.c`) | grant, revoke, mask, walk, effective rights | a cache per process, a serial number on disk, nothing locked | cached rights are those on disk | `Trustees` |

The remaining parts (encryption, attributes, IPX interface, tools, test client,
DOS utilities) are I/O or stateless; `PROJECT.json` lists each with the reason.

## The modules

Every module models the processes that take part with one action per handler or,
where others can get in between, one per step. Handlers of nwbind and ncpserv
are single actions: each of them is one process that finishes a packet before it
receives the next.

### ShareFile, ShareService
`cnt`, `fl`, `ex` are the counts a process keeps per inode, `klock`, `kfl` and
`sm` the kernel's locks. A call of `share_file` goes through the steps wait (for
`F_SETLKW`), test, add or remove, leave; the steps of different processes
interleave, and `Die` kills a process at any of them. The `fh` of the model are
the handles of `nwfile.c`: an add fills the handle, a remove empties it.
Device and inode are one `Inode` (one device); the access mode is the set of its bits.

`ShareService` is the abstract promise: one step decides a request against the
handles of all processes. `ShareFile` implements it with the refinement mapping
`handles <- fh`, `outcome <-` the result the call has so far; the decision is
the test for a refusal and the add for a grant. File locks are outside that service.

### NcpSession
One connection end to end. A request is an id and a kind: answered by nwconn
("local"), by nwbind ("bind"), or by nwconn after nwbind ("after"). Packets
between client and server may be lost; a socket that is full drops, a full pipe
makes the writer wait. `NwconnRead` returns all packets that are in the pipe and
looks at the first, as `read()` on the byte stream does. `nw` holds
`last_sequence`, `saved_sequence`, the answer in `ipxdata` and whether
`ud.udata.len` is still its length. `ran` is a history variable: how often each
request was carried out, and where. The 0x9999 answer ("being serviced") only makes a
client wait, which it may do anyway, so it is not a message.

### ConnTable
`conns`, `wdogs` and `binds` are the tables of ncpserv, nwserv and nwbind.
`toNwserv` is the pipe, `toServ` and `toBind` the packets; `SendToBind` may
deliver a packet several times, as `send_own_data` does when a confirmation is
late, or not at all: after `MAX_SEND_TRIES` it gives up and `write_wdata` only logs that.
`missed` is history: what nwbind has missed of a slot since a message about it last arrived. A
slot of which it missed something may differ (`BindFollows`), and one whose close was given up may
keep the login of its former client (`NoInheritedLogin`), until the next message about it
arrives. Nothing in the code repairs either before. `KillConnections` and `ClearSigChild` are two steps because a SIGCHLD may
arrive between them. Clients come and go (external).

### Nwserv
`pc` is the place of nwserv in its start, its main loop or `close_all`, `child[c]`
that of nwbind and ncpserv in their loops. Signal handlers set `flags`, `gotchld`
and `sig[c]` at any moment; each test and each reset of them is a step. Whether a
signal ends a blocked receive depends on the C library: `interrupts` is chosen
once, and every property is checked for both. A SIGCHLD for a child that is merely stopped is not
modelled. `SignalMissed` names the three moments in which an order to stop has no
effect; `StopEnds` shows there are no others.

### Semaphores
`semas` is the global table and `connSemas[c]` the table of connection `c`, both
sequences whose length is the code's count. `clear_conn_semas` closes each handle
as often as the connection opened it. A failed open keeps the effect it has in the
code: the global count stays raised, because the undoing `close_sema(result)` gets
the error code. Examine, which only reads, and the timeout of wait, which the code
ignores, are left out.

### Queues
The queue lists of nwbind and the job tables of the nwconn processes. A request
starts in nwconn, is one step of nwbind, and for creating, closing and serving a job ends in
nwconn again; `pend[c]` is the message between the two, and other connections run
in between. A job is identified by the stamp in its file's name, its id is what
requests carry. Target, type and execute time only decide whether a job suits a
server, and are the set `suits` the environment chooses. `Restart` is an orderly
one, which saves the queues and restores them; a killed nwbind forgets what
changed since its start, because nothing else writes that file. Kept as in the
code: `nw_close_queue_job` asks for no owner; restoring into a full queue
drops a job; 0x5555 does not call `nw_close_connection_jobs`; a failed open leaves
the job marked as served. `reused` is history: an id was given again that a nwconn
still has for an older job. `ServedNotWritten` and `OneReader` except that.

### Bindery
The four dbm files as functions. A request is the sequence of its dbm writes, carried out
completely, or up to any point at which nwbind is killed and restarted. `nw_rename_obj` does
not test the new name, and ids of deleted objects are used again. Whether a property is a set is a
flag of its record. The client chooses it, `nw_create_obj_prop` overwrites it when the property
exists, and neither 0x3e (write a value) nor 0x41 and 0x42 (members) ask for it. Segment 0 of a value
is accepted, and deleted by nothing but the repair at a start. The property after
the one with the largest id gets id 0; the next one takes its place. Id 0 means "by name" to
`loc_delete_property`, so such a property is never deleted, and a start that has to delete it
ends with a fault (`Unstartable`): no start with these files succeeds, and the model
ends there. `torn` and `loose` are history: `torn` says that the deletion of a value of several
segments was cut off, `loose` names the properties whose cells the calls for members did not fill (a
client wrote them, or the flag was overwritten). `NoOrphans` and `MembersKept` except
these, and `NoOrphans` the number 0, and nothing else.

### Routes
Several routers with their tables of nets and servers, and what nwbind has been told of the servers.
A server's address is the internal net of its router and a node; a server that comes back may have another
node, while packets with the former one are still under way. `Notice` is what nwserv tells nwbind after a change of
its table (another address, or that the server is gone) and `toBind` the messages; as in `ConnTable`
a message arrives once, several times or, given up, not at all. `missed` is history: the
servers whose last message was given up. `echoed` is, too: a router that has heard its own name with another address
has overwritten its own entry, which the guard against deleting it does not know any more (a finding). A packet is lost when sent
or waits for any time, in any order. The code has no aging: a route goes when its
device goes, when its router withdraws it or when a better one comes. `withdrawn` remembers that
a way was lost; until then routes are free of circles (`LoopFree`), afterwards
counting to infinity is possible.

### Files
Handle tables, lists of record locks and of logical records per process, and the
kernel's record locks per process and inode. Share modes are decided in one step,
which `ShareFile` justifies; an open is still two steps, test and add, with the
truncation in between. `load` picks what the clients of a behaviour do, because
the groups share little state. Logical records survive a logout, as in the code.

### Names
One volume: a root, directories, files in them. `base[p]` is the table of base
entries, most recently used first, `disk` the paths saved as links when it is full,
`dirs[p]` the short directory handles. Inode numbers are reused after a removal,
links on disk go stale, and the older calls (`nw_mk_rd_dir`, `mv_dir`) do not bring the
tables up to date. Requests are atomic. `renamed`, `gone` and `goneOld` are history: what
was renamed, removed by another process, or removed in a way that leaves a link behind. The last
happens by an older call, and when another process still has an entry of the directory and writes its
link again as it gives the entry up (`KnownTo`, a finding). A process may also have two entries of one object,
because `find_base_entry` takes over whatever inode is at an entry's path now; a removal frees only the first
(`KnownTwice`, a finding).

### Searches
One client's searches: name space calls with their search handles, 0x3e/0x3f with
directory handles all searches of a directory share, and 0x40, which counts from the
start every time. A directory file is a row of slots (external): removal leaves a
hole, a new entry fills any. A position that had to be counted again in a
directory from which something was removed may skip; the properties except that and nothing else.

### Trustees
One path from the volume's root to a file. Each access to the disk is a step of
its process: the links of trustees and masks, the serial number (unlink and symlink
are two steps), the walk that fills the cache and the computation of effective
rights. `astray` says that a serial number does not tell of a change any more: two writers
met, so that the number went back or is not above the one given when the change was read (a finding), or a
writer was killed after its change and before the number; `recycled` that the file was
removed and its inode used again, of which no number tells; `Doomed(p)` that the node
p works on was freed under it. `CacheCurrent` excepts these and nothing else.

## What TLC checks

| Run | Instance | Shows |
|---|---|---|
| share_file | 2 processes, 1 inode, 2 handles, 3 access modes, file locks, kills | `DenyModesHold`, `LocksMirrorHandles`, `ImplementsService`, `SemaphorFreed` |
| ncp_session | 2 requests, local and after, losses, one timer | `AnswerIsOwn`, `LocalOnceAlone`, `AllAnswered` |
| conn_table | 2 clients, one of which vanishes, 2 slots, 2 processes, packets of one slot sent twice or given up | `OneSlotPerClient`, `NoStrayProcess`, `BindFollows`, `NoInheritedLogin`, `VanishedCleared` |
| nwserv | all signals, both children may die | `WaitNeverBlocks`, `NoChildLeft`, `ChildLossNoticed`, `StopEnds` |
| semaphores | 2 connections, 4 names, tables of 3 and 2 slots | `NamesUnique`, `OpencountCovers`, `HandleStable` while tables run full and slots are reused |
| queues | a client and a queue server, 1 queue, 3 jobs, 2 job ids, restarts | `JobIdsUnique`, `ServedNotWritten`, `OneReader`, `DataKept` |
| bindery | 3 names, 3 ids, 2 property ids, 4 requests that write, kills between writes, values of 2 segments and a segment 0 | `NoOrphans`, `ObjectFound`, `MembersKept` |
| routes | 3 routers in a line with a fast and a slow net between two of them, 2 nodes, 2 packets under way and 2 timer runs or shutdowns, or 1 and 3, messages to nwbind sent twice or given up | `BindKnowsServers`, `RouteOverDevice`, `LoopFree` |
| files | 2 processes, 1 file, 2 handles, 3 logical records in 2 lock files | `RecordExclusive`, `EntriesLive`, `RefusedOpenHarmless`, `LogicalExclusive` |
| names | a client of all calls and one of the older calls only, 2 directories, 3 inodes, 3 base entries, 2 short handles, 2 changes | `BaseHandleTrue`, `ShortHandleTrue`, `SourceAlive` |
| searches | 2 searches, directories of 3 and 1 files, 2 search handles, 1 directory handle, 2 changes | `NothingSkipped`, `NothingTwice` |
| trustees | a supervisor who writes twice, a user whose process reads, a path of 3 nodes | `CacheCurrent` |

Each property is stated in words above its definition. The operators whose comment
begins with "Mutant of" are plausible bugs of the code; with one of them in place of
the definition it names, TLC finds the property violated that `PROJECT.json` gives with it.

Where a comment of the code promises more than it does, the property says what
holds, with the exception named (`SignalMissed`, `LocalOnceAlone`'s premise, `torn`,
`loose`, `missed`, `echoed`, `withdrawn`, `astray`), and `PROJECT.json` quotes the comment under "findings".

### Bounds
- Two processes or connections are what a conflict needs, a third name, slot or
  job makes tables run full. The three access modes of share_file use all four
  bits, and include two that go together and one that excludes itself.
- Sockets hold `Cap` packets, the pipe `PipeCap`. Two in the pipe are enough for a
  packet to be merged with another one; one in each socket for a repetition to
  overtake an answer.
- Sequence numbers have the space `SeqSpace`; with as few requests as the runs
  have, the wrap of the one-byte number is not reached (`NoWrap` of the proofs).
- `MaxOpen`, `MaxValue`, `MaxFileLock`, `MaxPid`, `MaxSends`, `MaxTicks`, `MaxReq`,
  `MaxClock`, `MaxWrites`, `MaxChanges`, `MaxLocks`, `MaxCount`, `Budgets`, `MaxCopies`, `MaxQueue`,
  `Deaths` bound what grows without limit in the code. `MaxTries` (`MAX_WDOG_TRIES`),
  `MaxJobId`, `MaxPage`, `SegSize`, `MaxSeg`, `MaxPropId`, `MaxBase`, `MaxDirs`,
  `MaxSearchH`, `MaxDirH`, `MaxIdle`, `MaxCache`, `MaxSemas`, `MaxSemaConn` are
  limits of the code, taken smaller so that they are reached.
- In conn_table the packets to nwbind about one of the two slots (`Lossy`) are repeated and given up.
  Slots share nothing in nwbind, so that each is followed through all of it.
- A request of the bindery run that is cut off by a kill counts as `KillCost` = 2 of the 4. With
  `MaxPropId` = 2 the third property of an object gets id 0 and the fourth overwrites it. Clients write the
  id 3 into every cell of a segment (`Written`): of a member, of an object that is not there, and twice.
- In the routes run the two bounds of `Budgets` go together: a behaviour has more timer runs
  or more packets under way. An address can change, and the former one be heard again, in each.
- The trustees run has as many cache places as nodes, so nothing is evicted there (`MaxCache`);
  what eviction does is covered by the theorem `CacheIsCurrent` only.
- `MaxBase` is at least `TouchFrom + 3`. The code allows 5 entries with
  `TouchFrom` 4, where `SourceAlive` fails (a finding).
- The queue run has one user per connection and sets the client's restart flag (0x10); the
  search run looks at calls of one kind at a time (`OneKind`), which share no state.
- conn_table was also checked for safety with three processes and trustees with three;
  both have no other outcome. Three processes and three changes are what the lost serial
  number of `trustee.c:426` takes: it was found while `CacheCurrent` was being proved.
- In the names run one process has base entries. Two (`BaseUsers = {p1, p2}`, `DirUsers = {}`) were
  checked with two inode numbers, and with three and no files (`Kid = {}`); these are what a
  link that is written again takes. All calls of two such clients together are too many states
  for a run and were only simulated.
- Symmetry (processes in files, inodes and directories in names) is used only where no
  liveness is checked.

### Deadlock
It is checked for share_file, ncp_session, conn_table and semaphores. The other
systems may really stop: nwserv ends, and the others have bounded what can change.

### Fairness
- ShareFile: weak fairness of the steps inside the mutex. Nothing there blocks
  (`F_SETLK`, `F_GETLK`), so a process that is not killed goes on. Waiting for
  the mutex has no fairness: the kernel does not promise an order.
- NcpSession: the processes run on (weak), the client repeats until answered
  (weak), and what is sent again and again is not lost each time (strong, for
  the request and the answer).
- ConnTable: the servers read what they are sent and the signal flag (weak). Strong
  fairness where the step waits for room in a bounded channel or alternates with
  other work in the server's loop: the clear that reaches ncpserv (`CtrlClear`) and
  the watchdog timer of a silent entry (`WdogDue`). Clients need not do anything.
- Nwserv: the processes run on (weak); nwserv leaves its loop when it may again and
  again (strong), because the loop test recurs with the timeout of poll.

## What is proved

`ShareFileProofs` proves, for any number of processes, inodes and handles and any
set of access modes (assumption `ShareConstants`: `NoProc` is no process, the
handles of a process are finite, an access mode has at least one of the four bits,
`MaxFileLock` is a number):

- `TypeCorrect`: `Spec => []TypeOK`
- `DenyModes`: `Spec => []DenyModesHold`
- `LocksMirror`: `Spec => []LocksMirrorHandles`

They follow from `Invariance`, `Spec => []IInv`. `DenyModesHold` is not inductive:
the add relies on a test made two steps earlier. `IInv` adds what carries it there:
- `Mutex`: whoever is past `F_SETLKW` is the holder of its inode's mutex, so no
  other call changes the inode between test and add;
- `Passed`: a call at "add" would still pass the test;
- `LocksMirrorHandles`: what the test sees (own counts and the others' kernel
  locks) is what is open, which `OpenIsSeen` turns into "every open handle is in
  `act_mode`";
- `CallOk`: the handle of an open is still closed when the add fills it, and the
  handle of a close still has the inode and mode the close was called with.

One lemma per action shows that it preserves `IInv`. Counting handles uses the
cardinality theorems of the library.

The module also proves `Refinement`, `Spec => ImplementsService`, from the same
assumption. `RInv` adds to `IInv` what a call carries (`ArgsOk`): calls about
file locks have no handle, all others an access mode of a client, and there is no
answer before the decision. `SameDecision` shows that the test, made from own counts and kernel
locks, decides what all handles demand: one direction is `OpenIsSeen`, the other
that every lock has a handle behind it. Then each action is a step of the service or
leaves it alone: the test decides a test and a refused open, the add
grants an open (`Passed` makes it compatible still), the remove is the close.

`ProcessProofs` proves of `Nwserv`, for any set of signals and any number of deaths:

- `WaitReturns`: `Spec => []WaitNeverBlocks`
- `ChildrenGone`: `Spec => []NoChildLeft`

`WaitNeverBlocks` needs to know, before the call, that the flag is only set while a child is
there to collect (`FlagIsTrue`): SIGCHLD sets one flag for two children, and the
flag may be set again after it was reset and before `waitpid`; then both have
ended, so one remains for the next call. `Collected` follows
`close_all` from ncpserv to nwbind.

`TableProofs` proves of `Semaphores`, for any number of connections, names and table slots:

- `OneSemaphore`: `Spec => []NamesUnique`
- `NotFreedWhileOpen`: `Spec => []OpencountCovers`
- `HandlesStable`: `Spec => HandleStable` (an action property)

The inductive invariant is `TypeOK /\ SlotsOpened /\ NamesUnique` and `Covered(h)` for each
handle. The count of a semaphore is compared with a sum over all connections and their slots; `Opens(h)`
states it as a set of tuples (connection, slot, how manieth open), so that its
cardinality is the sum and the library's theorems on finite sets give what one open or
close changes. `SlotsOpened` (no slot of a connection with the count 0) is what
`clear_conn_semas`, which closes a handle as often as it was opened, relies on.

`ProcessProofs` proves of `ConnTable`, for any number of clients, slots, processes and packets repeated or given up:

- `OneSlot`: `Spec => []OneSlotPerClient`
- `NoStray`: `Spec => []NoStrayProcess`
- `Follow`: `Spec => []BindFollows`
- `OwnLogin`: `Spec => []NoInheritedLogin`

`ServInv` is about ncpserv alone: the count covers the slots in use, a process belongs to the slot
that names it and nobody else's, and a running process nobody told to end has a slot (`RunsForSlot`).
`NoStrayProcess` follows from it. The other two are about what the last message under way says of a slot, in
the pipe to nwserv and in the packets to nwbind, the older channel first: `Inv` adds the types of the
messages. `SlotInv(n)` says more than the two properties: a message in the pipe is right whatever was
missed, because nothing in the pipe is lost; a free slot never misses only an insert, so what it misses
until it is used again is a close, or nothing; and a login that is not the present client's has a close
under way or given up. The last message of a queue is a lemma (`LastOf` of an appended and of a
shortened queue).

`NwconnProofs` proves of `NcpSession`, for any number of requests, repetitions and losses and any capacity of the channels:

- `AnswersBelong`: `NoWrap` implies `Spec => []AnswerIsOwn`
- `LocalOnce`: `NoWrap` implies `Spec => []LocalOnceAlone`

`NoWrap == MaxReq < SeqSpace` says that no packet outlives 255 later requests of its connection. The code has nothing
else against that: with a one-byte number, an answer 256 requests old looks
like the present one, in every NCP server. `AnswersInv` says what travels: an answer has the sequence of its
request and tells of nothing that has not been carried out, nwbind's answers are about requests it has
served. `OrderInv` adds, for as long as nwbind has served nothing, that requests are in order
from the client's socket to nwconn and `last_sequence` never goes back, so a repetition is recognised.

`RoutesProofs` proves for any topology and any number of routers and packets:

- `BindAgrees`: `Spec => []BindKnowsServers`
- `RoutesOverDevices`: `SmallTicks` implies `Spec => []RouteOverDevice`
- `NoLoops`: `SmallTicks` implies `Spec => []LoopFree`

`BindAgrees` is about what nwbind will have: the last message that waits about a server, or what nwbind has
when none does (`WillHave`). A message put at the end of the queue, in any number of copies, makes its address
that, and reading a message changes nothing. Nothing waits for
the nwbind of a router that is off (`OffQuiet`), and both start with the own server. The exceptions are needed: after a message that was given up nwserv does
not tell of the server again until its address changes, and an own entry overwritten under
a former address can be deleted.

`SmallTicks` bounds the ticks of a device by 3800: fifteen of them, and one more per hop, fit into
the 16 bits `insert_delete_net` keeps. With larger ones, which the configuration may contain, the sum
wraps and a far route looks near. `RoutesInv` says that the next router of a route, and the
sender of a report under way, are nearer to the net than the route or the report says, unless a
way to that net has been lost. A report that is late is harmless then, because metrics only fall.
`NoLoops` needs more than an invariant: a circle of routers would have ticks that fall
all the way round, which the well-foundedness of the numbers excludes.

`FilesProofs` proves for any processes, files, handles, ranges and logical records:

- `RefusalHarmless`: `Spec => []RefusedOpenHarmless`, from `OpenInv`: an open that has created or truncated and
  met no race is compatible with all others still, so its add is granted;
- `LockEntriesLive`: `Spec => []EntriesLive` and `RecordLocks`: `Spec => []RecordExclusive`, from `LockInv`: the kernel
  excludes byte by byte, and the list of a process that did not spoil its own locks (by closing another
  descriptor of the file) is disjoint and locked in the kernel;
- `LogicalLocks`: `Spec => []LogicalExclusive`, from `LogInv`, the same for the lock files.

`TrusteesProofs` proves for any number of processes, writers, objects, depth of the path and size of the caches:

- `CacheIsCurrent`: `Spec => []CacheCurrent`

The walk, the computation of rights, the change of a link and the two steps of the serial number of all processes
interleave, so the invariant is about every place a process may be at. `Structure` says what a walk
knows of its cache; `Numbers` that, as long as nothing is astray, the number on the disk is the highest one
given or is about to come back, so that nobody has seen a number from the future;
`Fresh(p)` that a process with the highest number, while no change waits to be
announced, has the disk's links in every node (`Agrees`) and carries what is held above down its walk
(`Carries`). Each step either leaves the disk and the number alone, or leaves something to be announced, or
gives a number nobody has (`Calm`). That last alternative failed with two overlapping writers, which is how the
finding about `tru_vol_sernum` came up; `astray` names it.

`QueuesProofs` proves for any number of connections, queues and users, any range of ids, size of a page and number of jobs:

- `QueuesIdsUnique`: `Spec => []JobIdsUnique`
- `QueuesDataKept`: `Spec => DataKept` (an action property)
- `QueuesServedNotWritten`: `Spec => []ServedNotWritten`
- `QueuesOneReader`: `Spec => []OneReader`

`ListInv` says that the jobs of a list differ in id and in file, that the files are older than the clock, and
likewise of what the connections hold and ask for; `JobIdsUnique`, which speaks of a client that pages through
the list, follows from it. What is recursive in the code (the restored list, the end of the connection's jobs, the
pages) is a recursive function on numbers in the model; `Iterates` and the least number of a set replace the
induction theorems of the library. `ServedNotWritten` and `OneReader` are about nwbind's list and the tables of
the connections at once. `Fresh` relates them, unless an id was reused: a connection has one entry of a job and no
request under way that could make a second; whoever has an entry or a request of a job is its creator
while the job is held, and its server afterwards; two connections never read one file. `Fresh` also holds at each
point where the second half of a request is still a message.

`NwconnProofs` proves of `Names`, for any processes, directories, files and inodes, any sizes of the tables and
any number of changes:

- `NamesBaseHandles`: `NamesSpec => []BaseHandleTrue`
- `NamesShortHandles`: `NamesSpec => []ShortHandleTrue`
- `NamesSourceAlive`: `NamesSpec => []SourceAlive`

The first two follow from `HandleInv`. The tree is one (`TreeInv`: what is at a path has its parents, and an inode
is at one path). An inode is clean for a process as long as none of the exceptions the properties
name has happened to it (`Clean`), and clean for some process (`CleanSome`). `TablePairs` are the pairs of
inode and path that an entry of a process's table may be: the path of a clean inode is where it is. `LinkPairs` are those a
link on disk may be. The second needs `CleanSome`, because a link is read by all processes, and that is why an
entry of a directory has to satisfy it too: it is a link as soon as it is evicted. The lemmas show that looking up, sorting
down, evicting and inserting stay within any set of pairs closed under what the tree has now; what is left for
each action is what it does to the tree. This is where `KnownTwice` came up: without that exception the step of
`Delete` fails, and the states the prover was left with are reachable.

`SourceAlive` needs the places in the table. Between requests no entry is locked (`Calm`), so a look-up moves
entries down by at most one place each, and a new entry pushes the others down. The source of a rename is the
first entry after its look-up, or within the first `TouchFrom + 1`. A full table gives up the last file or the
last entry, beyond `TouchFrom + 2` since `MaxBase >= TouchFrom + 3` and `FileFrom > TouchFrom`. So it is never
the source.

`TableProofs` proves of `Searches`, for any searches and patterns, directories of any length, sizes of the two tables
and number of changes:

- `SearchesNothingSkipped`: `SearchesSpec => []NothingSkipped`
- `SearchesNothingTwice`: `SearchesSpec => []NothingTwice`

A handle is shared, and its position is not the one the search was at. What makes it usable is its number:
`SearchInv` says of every search that runs that it has been told of exactly those of its entries that
are up to its own position (`Knows`), and of the handle it would go on with that the two numbers differ by the entries
between the two positions (`Near`). Both halves are inequalities: one is lost when an entry is removed, the
other when one is added, and each property needs only one of them. Going back to the start and counting keeps
them, and so does every other search on the same handle (`Moved`). For the calls of the name spaces `Noted` adds that the
entry found last is the next one, which is why a handle taken over by another search of the same
directory does no harm. The sequence numbers have no bound in the theorem; the wrap at 0xffff is not modelled. No
inode has two slots of a directory at first (`SearchConstants`): with hard links made under Unix an entry
is not known by its inode.

The assumptions on constants are those each module declares (`SemaConstants` and so on): the bounds are numbers, the
special values are no members of the sets. `SmallTicks` and `NoWrap` are the only further hypotheses; the
instances of the runs satisfy them.

Only model-checked:

- all liveness properties (`SemaphorFreed`, `AllAnswered`, `VanishedCleared`, `ChildLossNoticed`, `StopEnds`):
  fairness and leads-to are out of the prover's reach;
- Bindery: a request is a fold over its dbm writes, given to it as functions (LAMBDA), and what a fold
  computes needs induction over data.

## Not modelled

- Password encryption (`nwcrypt.c`), attributes (`nwattrib.c`), IPX interface
  (`emutli.c`, `ipxif.c`), tools and logging, mounting and quotas: I/O or pure functions of bytes.
- Requests that only report (examine, scan, information records), accounting, broadcast
  messages, the print command of queues, pipe files, reads through mmap: they
  change no state the properties are about.
- Unix rights, symbolic links, other devices and supervisor equivalence in `Trustees`; the idle
  counters of its cache (any entry may be evicted); the lists of trustees for a volume.
- Share sets: their entries never get a lock type, so locking a set does nothing (a finding).
- Failures of the system where the code goes on regardless: `share_file` does not look at the result of
  `F_SETLKW` (`nwshare.c:248`), so an interrupted wait enters without the mutex; `ShareFile` has
  no interrupted waits. A search that cannot get an entry or open its directory (`get_add_new_entry`,
  `opendir`) ends with an error and is left out of `Searches`.
- What becomes of a bindery with which nwbind cannot start.
- The kernel's routing table, the wire format of RIP and SAP beyond the metric.
- Burst mode and connections over sockets, which the build switches off.
- The sequence wrap of NCP (256) and of searches (0xffff): out of the bounds' reach.

## Plan

1. Names with the steps of a request apart, so that a rename of another process can
   fall between the look-up and the use of a path.
2. Bindery with its requests as sequences of writes carried out step by step, which could be proved about;
   the runs grow too large today.
