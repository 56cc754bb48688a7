------------------------------- MODULE Nwserv -------------------------------
(***************************************************************************)
(* The life of the server as a whole: nwserv starts nwbind and ncpserv,    *)
(* notices their end, takes signals and shuts everything down              *)
(* (src/src/nwserv.c), while the two children wait for packets in their    *)
(* own loops (src/src/nwbind.c, src/src/ncpserv.c).                        *)
(*                                                                         *)
(* Signal handlers only set flags, at any moment; the loops test the flags *)
(* and reset them step by step, so a signal may fall between a test and    *)
(* the reset, or between a test and the call that blocks.  Whether a       *)
(* signal makes a blocked receive return depends on the C library:         *)
(* interrupts is chosen once.                                              *)
(***************************************************************************)
EXTENDS Integers, FiniteSets

CONSTANTS
  Signals,   \* signals an operator sends: subset of {"hup", "usr1", "usr2", "term"}
  ChildSigs, \* signals sent to nwbind by hand: subset of {"hup", "usr2"}
  Deaths     \* bound on the number of children that end by themselves

Child == {"nwbind", "ncpserv"}

ASSUME NwservConstants ==
  /\ Signals \subseteq {"hup", "usr1", "usr2", "term"}
  /\ ChildSigs \subseteq {"hup", "usr2"}
  /\ Deaths \in 0..2

VARIABLES
  pc,          \* where nwserv is in main and close_all
  flags,       \* fl_get_int
  ignored,     \* signals whose handler is SIG_IGN
  gotchld,     \* fl_got_sigchld
  downstamp,   \* server_down_stamp is set
  child,       \* child[c]: "none", "test", "recv", "work", "reinit" (its loop), "zombie", "gone"
  sig,         \* sig[c]: got_sig of nwbind, server_is_down of ncpserv
  packet,      \* packet[c]: a packet waits in its socket
  pidfile,     \* the file that says the server runs
  asked,       \* history: SIGTERM has been sent to the running server
  deaths,      \* children that ended by themselves
  interrupts   \* a signal ends a blocked receive

lifeVars == <<pc, flags, ignored, gotchld, downstamp, child, sig, packet, pidfile,
              asked, deaths, interrupts>>

Alive(c) == child[c] \in {"test", "recv", "work", "reinit"}
Zombies == {c \in Child : child[c] = "zombie"}

NwservInit ==
  /\ pc = "start" /\ flags = {} /\ ignored = Signals /\ gotchld = FALSE /\ downstamp = FALSE
  /\ child = [c \in Child |-> "none"] /\ sig = [c \in Child |-> "no"]
  /\ packet = [c \in Child |-> FALSE]
  /\ pidfile = TRUE /\ asked = FALSE /\ deaths = 0
  /\ interrupts \in BOOLEAN

-----------------------------------------------------------------------------
(* nwserv.  Fork of the two children; a failed fork ends in close_all.     *)
start_nwbind ==
  /\ pc = "start"
  /\ \/ pc' = "started" /\ child' = [child EXCEPT !["nwbind"] = "test"]
     \/ pc' = "quit ncpserv" /\ UNCHANGED child
  /\ UNCHANGED <<flags, ignored, gotchld, downstamp, sig, packet, pidfile, asked, deaths, interrupts>>

start_ncpserv ==
  /\ pc = "started"
  /\ \/ /\ pc' = "poll" /\ child' = [child EXCEPT !["ncpserv"] = "test"]
        /\ ignored' = {}
     \/ pc' = "quit ncpserv" /\ UNCHANGED <<child, ignored>>
  /\ UNCHANGED <<flags, gotchld, downstamp, sig, packet, pidfile, asked, deaths, interrupts>>

(* Mutant: the flag is reset after the children have been looked for.      *)
TestChildLate ==
  /\ pc = "poll"
  /\ pc' = IF gotchld THEN "waitpid" ELSE "flags"
  /\ UNCHANGED <<flags, ignored, gotchld, downstamp, child, sig, packet, pidfile, asked, deaths, interrupts>>

(* poll has returned: the first test of the loop.                          *)
TestChild ==
  /\ pc = "poll"
  /\ pc' = IF gotchld THEN "waitpid" ELSE "flags"
  /\ gotchld' = FALSE
  /\ UNCHANGED <<flags, ignored, downstamp, child, sig, packet, pidfile, asked, deaths, interrupts>>

(* down_server tells the children and announces the end, once.  The rest   *)
(* of the loop follows.                                                    *)
down_server ==
  /\ downstamp' = TRUE
  /\ packet' = IF downstamp THEN packet ELSE [c \in Child |-> packet[c] \/ Alive(c)]
  /\ ignored' = IF downstamp THEN ignored ELSE ignored \union (Signals \cap {"hup"})

(* Mutant: only the end of ncpserv is taken for one.                       *)
WaitNcpserv ==
  /\ pc = "waitpid"
  /\ \E c \in Zombies :
       /\ child' = [child EXCEPT ![c] = "gone"]
       /\ IF c = "ncpserv" THEN down_server ELSE UNCHANGED <<downstamp, packet, ignored>>
  /\ pc' = "flags"
  /\ UNCHANGED <<flags, gotchld, sig, pidfile, asked, deaths, interrupts>>

(* One child is collected.  Both are known, so the server goes down.       *)
WaitPid ==
  /\ pc = "waitpid"
  /\ \E c \in Zombies : child' = [child EXCEPT ![c] = "gone"]
  /\ down_server
  /\ pc' = "flags"
  /\ UNCHANGED <<flags, gotchld, sig, pidfile, asked, deaths, interrupts>>

TestFlags ==
  /\ pc = "flags"
  /\ pc' = IF flags = {} THEN "events" ELSE "hup"
  /\ UNCHANGED <<flags, ignored, gotchld, downstamp, child, sig, packet, pidfile, asked, deaths, interrupts>>

(* The four flags are tested one after the other, and reset at the end.    *)
After(s) == CASE s = "hup" -> "usr1" [] s = "usr1" -> "usr2" [] s = "usr2" -> "term"
              [] s = "term" -> "reset"

(* HUP is passed on to the children, USR1 and USR2 only make broadcasts.   *)
TestFlag(s) ==
  /\ pc = s /\ pc' = After(s)
  /\ \/ s = "hup" /\ s \in flags
        /\ packet' = [c \in Child |-> packet[c] \/ Alive(c)] /\ UNCHANGED <<downstamp, ignored>>
     \/ s = "term" /\ s \in flags /\ down_server
     \/ (s \in {"usr1", "usr2"} \/ s \notin flags) /\ UNCHANGED <<packet, downstamp, ignored>>
  /\ UNCHANGED <<flags, gotchld, child, sig, pidfile, asked, deaths, interrupts>>

ResetFlags ==
  /\ pc = "reset" /\ pc' = "events"
  /\ flags' = {}
  /\ UNCHANGED <<ignored, gotchld, downstamp, child, sig, packet, pidfile, asked, deaths, interrupts>>

(* Packets and pipes are served; a request of a client may end the server  *)
(* (0xffff from ncpserv).                                                  *)
Events ==
  /\ pc = "events" /\ pc' = "poll"
  /\ \/ Alive("ncpserv") /\ down_server
     \/ UNCHANGED <<downstamp, packet, ignored>>
  /\ UNCHANGED <<flags, gotchld, child, sig, pidfile, asked, deaths, interrupts>>

(* The delay of a shutdown is over.                                        *)
LeaveLoop ==
  /\ pc = "events" /\ downstamp
  /\ pc' = "quit ncpserv"
  /\ UNCHANGED <<flags, ignored, gotchld, downstamp, child, sig, packet, pidfile, asked, deaths, interrupts>>

(* Mutant: only nwbind gets the signal.                                    *)
QuitNwbind(c) ==
  /\ pc = IF c = "ncpserv" THEN "quit ncpserv" ELSE "quit nwbind"
  /\ pc' = IF c = "ncpserv" THEN "wait ncpserv" ELSE "wait nwbind"
  /\ sig' = IF c = "nwbind" /\ Alive(c) THEN [sig EXCEPT ![c] = "quit"] ELSE sig
  /\ child' = IF Alive(c) /\ interrupts /\ child[c] = "recv"
              THEN [child EXCEPT ![c] = "work"] ELSE child
  /\ UNCHANGED <<flags, ignored, gotchld, downstamp, packet, pidfile, asked, deaths, interrupts>>

(* close_all: a child is told to quit, collected, and killed.              *)
QuitChild(c) ==
  /\ pc = IF c = "ncpserv" THEN "quit ncpserv" ELSE "quit nwbind"
  /\ pc' = IF c = "ncpserv" THEN "wait ncpserv" ELSE "wait nwbind"
  /\ sig' = IF Alive(c) THEN [sig EXCEPT ![c] = "quit"] ELSE sig
  /\ child' = IF Alive(c) /\ interrupts /\ child[c] = "recv"
              THEN [child EXCEPT ![c] = "work"] ELSE child
  /\ UNCHANGED <<flags, ignored, gotchld, downstamp, packet, pidfile, asked, deaths, interrupts>>

(* Mutant: the child is not waited for.                                    *)
CollectAny(c) ==
  /\ pc = IF c = "ncpserv" THEN "wait ncpserv" ELSE "wait nwbind"
  /\ pc' = IF c = "ncpserv" THEN "quit nwbind" ELSE "close"
  /\ UNCHANGED <<flags, ignored, gotchld, downstamp, child, sig, packet, pidfile, asked, deaths, interrupts>>

CollectChild(c) ==
  /\ pc = IF c = "ncpserv" THEN "wait ncpserv" ELSE "wait nwbind"
  /\ ~Alive(c)
  /\ pc' = IF c = "ncpserv" THEN "quit nwbind" ELSE "close"
  /\ child' = [child EXCEPT ![c] = IF @ = "zombie" THEN "gone" ELSE @]
  /\ UNCHANGED <<flags, ignored, gotchld, downstamp, sig, packet, pidfile, asked, deaths, interrupts>>

(* The withdrawal of the routes, and exit_tools.                           *)
Exit ==
  /\ pc = "close" /\ pc' = "end" /\ pidfile' = FALSE
  /\ UNCHANGED <<flags, ignored, gotchld, downstamp, child, sig, packet, asked, deaths, interrupts>>

-----------------------------------------------------------------------------
(* Signals to nwserv.  The handler of TERM, QUIT and INT turns itself off. *)
Signal(s) ==
  /\ pc # "end"
  /\ asked' = (asked \/ s = "term")
  /\ s \notin ignored
  /\ flags' = flags \union {s}
  /\ ignored' = IF s = "term" THEN ignored \union (Signals \cap {"term", "hup"}) ELSE ignored
  /\ UNCHANGED <<pc, gotchld, downstamp, child, sig, packet, pidfile, deaths, interrupts>>

(* A child ends by itself.                                                 *)
Die(c) ==
  /\ deaths < Deaths /\ Alive(c)
  /\ deaths' = deaths + 1
  /\ child' = [child EXCEPT ![c] = "zombie"]
  /\ gotchld' = TRUE
  /\ UNCHANGED <<pc, flags, ignored, downstamp, sig, packet, pidfile, asked, interrupts>>

-----------------------------------------------------------------------------
(* A child: the test of its loop, the receive, and what follows it.        *)
ChildTest(c) ==
  /\ child[c] = "test"
  /\ IF sig[c] = "quit"
     THEN /\ child' = [child EXCEPT ![c] = "zombie"]
          /\ gotchld' = TRUE
     ELSE /\ child' = [child EXCEPT ![c] = "recv"]
          /\ UNCHANGED gotchld
  /\ UNCHANGED <<pc, flags, ignored, downstamp, sig, packet, pidfile, asked, deaths, interrupts>>

ChildReceive(c) ==
  /\ child[c] = "recv" /\ packet[c]
  /\ child' = [child EXCEPT ![c] = "work"]
  /\ packet' = [packet EXCEPT ![c] = FALSE]
  /\ UNCHANGED <<pc, flags, ignored, gotchld, downstamp, sig, pidfile, asked, deaths, interrupts>>

(* nwbind acts on a signal at the end of its loop and then resets got_sig, *)
(* whatever it has become meanwhile.                                       *)
ChildWork(c) ==
  /\ child[c] = "work"
  /\ child' = [child EXCEPT ![c] = IF sig[c] \in {"hup", "usr2"} THEN "reinit" ELSE "test"]
  /\ UNCHANGED <<pc, flags, ignored, gotchld, downstamp, sig, packet, pidfile, asked, deaths, interrupts>>

reinit_nwbind ==
  /\ child["nwbind"] = "reinit"
  /\ child' = [child EXCEPT !["nwbind"] = "test"]
  /\ sig' = [sig EXCEPT !["nwbind"] = "no"]
  /\ UNCHANGED <<pc, flags, ignored, gotchld, downstamp, packet, pidfile, asked, deaths, interrupts>>

(* A packet of a client or of a connection process.                        *)
Arrive(c) ==
  /\ Alive(c) /\ ~packet[c]
  /\ packet' = [packet EXCEPT ![c] = TRUE]
  /\ UNCHANGED <<pc, flags, ignored, gotchld, downstamp, child, sig, pidfile, asked, deaths, interrupts>>

(* A signal an operator sends to nwbind.                                   *)
SignalNwbind(s) ==
  /\ Alive("nwbind")
  /\ sig' = [sig EXCEPT !["nwbind"] = s]
  /\ child' = [child EXCEPT !["nwbind"] = IF @ = "recv" /\ interrupts THEN "work" ELSE @]
  /\ UNCHANGED <<pc, flags, ignored, gotchld, downstamp, packet, pidfile, asked, deaths, interrupts>>

-----------------------------------------------------------------------------
Server ==
  \/ start_nwbind \/ start_ncpserv \/ TestChild \/ WaitPid \/ TestFlags \/ ResetFlags \/ Events \/ Exit
  \/ \E s \in {"hup", "usr1", "usr2", "term"} : TestFlag(s)
  \/ \E c \in Child : QuitChild(c) \/ CollectChild(c)

ChildStep(c) ==
  \/ ChildTest(c) \/ ChildReceive(c) \/ ChildWork(c)
  \/ c = "nwbind" /\ reinit_nwbind

NwservNext ==
  \/ Server \/ LeaveLoop
  \/ \E s \in Signals : Signal(s)
  \/ \E s \in ChildSigs : SignalNwbind(s)
  \/ \E c \in Child : ChildStep(c) \/ Die(c) \/ Arrive(c)

(* The processes are scheduled, poll returns at the latest with its        *)
(* timeout, and the time of a shutdown passes.  Nothing is said of packets *)
(* and signals.                                                            *)
NwservSpec ==
  /\ NwservInit /\ [][NwservNext]_lifeVars
  /\ WF_lifeVars(Server) /\ SF_lifeVars(LeaveLoop)
  /\ \A c \in Child : WF_lifeVars(ChildStep(c))

-----------------------------------------------------------------------------
(* waitpid in the main loop never blocks: the flag is only set when there  *)
(* is a child to collect, in whatever order the children end and the flag  *)
(* is reset (main, fl_got_sigchld).                                        *)
WaitNeverBlocks == pc = "waitpid" => Zombies # {}

(* When nwserv has ended no child is left, also after a failed start       *)
(* (close_all).                                                            *)
NoChildLeft == pc = "end" => \A c \in Child : child[c] \in {"none", "gone"}

Closing == pc \in {"quit ncpserv", "wait ncpserv", "quit nwbind", "wait nwbind", "close", "end"}

(* The end of a child always brings the server down: it stops announcing   *)
(* its services and ends (main, down_server).                              *)
ChildLossNoticed == \A c \in Child : child[c] = "zombie" ~> downstamp \/ Closing

(* The three moments in which a signal to stop has no effect: TERM between  *)
(* its test and the reset of the flags (nwserv.c:1441-1444); QUIT between a *)
(* child's loop test and its receive, or before a receive that a signal     *)
(* does not end (nwbind.c:2148, ncpserv.c:776); QUIT while nwbind acts on   *)
(* an earlier signal, or before a later one: got_sig is set to the last     *)
(* signal, and reset after the work (nwbind.c:2084, 2228-2234).             *)
SignalMissed ==
  \/ pc = "reset" /\ "term" \in flags /\ ~downstamp
  \/ \E c \in Child : child[c] = "recv" /\ sig[c] = "quit"
  \/ pc = "wait nwbind" /\ Alive("nwbind") /\ sig["nwbind"] # "quit"

(* nwserv -k, "stop main process, wait for it": a server that is asked to   *)
(* stop does, unless a signal falls into one of those moments.              *)
StopEnds == <>asked => <>(pc = "end" \/ SignalMissed)
=============================================================================
