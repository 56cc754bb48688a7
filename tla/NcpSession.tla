----------------------------- MODULE NcpSession -----------------------------
(***************************************************************************)
(* One NCP connection end to end: the client, ncpserv (src/src/ncpserv.c),  *)
(* the connection's nwconn process (src/src/nwconn.c) and nwbind            *)
(* (src/src/nwbind.c), with the connection already established.             *)
(*                                                                         *)
(*   client --net--> ncpserv --pipe--> nwconn --toBind--> nwbind            *)
(*   client <--toClient-- ncpserv, nwconn        nwbind --fromBind--> ncpserv*)
(*                                                                         *)
(* NCP over IPX: a client has one request outstanding, numbers them with a  *)
(* one-byte sequence, and repeats a request until the answer with its       *)
(* sequence arrives.  Packets to and from the client may be lost.  nwconn   *)
(* answers some requests itself, passes others to nwbind and sends on what  *)
(* nwbind answers, and for a third kind does work of its own                *)
(* (handle_after_bind) when nwbind's answer is back.                        *)
(***************************************************************************)
EXTENDS Integers, Sequences

CONSTANTS
  Kinds,     \* the kinds of request the client sends, of AllKinds
  MaxReq,    \* number of requests the client sends
  SeqSpace,    \* size of the sequence number space (256)
  Cap,       \* bound on the packets in a datagram channel
  PipeCap,   \* bound on the packets in the pipe to nwconn
  MaxTicks   \* bound on the times the 60 second timer of nwconn runs out

(* "local": answered by nwconn.  "bind": handle_ncp_serv returned -1.       *)
(* "after": it returned -2, nwconn acts again after nwbind.                 *)
AllKinds == {"local", "bind", "after"}

ASSUME SessionConstants ==
  /\ Kinds \subseteq AllKinds
  /\ MaxReq \in Nat /\ SeqSpace \in Nat \ {0, 1} /\ MaxTicks \in Nat
  /\ Cap \in Nat \ {0} /\ PipeCap \in Nat \ {0}

VARIABLES
  cur,       \* the client's last request, as a record [id, kind]
  answer,    \* answer[id]: what the client accepted as the answer, or none
  net,       \* requests on their way to ncpserv
  toClient,  \* answers on their way to the client
  sequence,  \* ncpserv: c->sequence, the last sequence passed to nwconn
  pipe,      \* ncpserv -> nwconn
  nw,        \* nwconn: at, msg, last_sequence, saved_sequence, the answer in
             \* ipxdata, and whether ud.udata.len is still its length
  busy,      \* nwconn_state[connection], in shared memory
  late,      \* nwconn: act_time > last_time + 60
  ticks,     \* how often that became true
  toBind, fromBind,  \* nwconn -> nwbind -> ncpserv
  ran        \* ran[id]: how often request id was carried out, by nwconn,
             \* by nwbind, and by handle_after_bind

vars == <<cur, answer, net, toClient, sequence, pipe, nw, busy, late, ticks,
          toBind, fromBind, ran>>

Ids == 1..MaxReq
Seq8(id) == id % SeqSpace

NoRequest == [id |-> 0, kind |-> "local"]

(* An answer, to none here: the sequence in its header, the request its data belongs to,  *)
(* and what that data is: "done" is the result the client asked for,        *)
(* "failed" nwbind's error code, "raw" the internal data nwbind sends       *)
(* nwconn for an "after" request, "cut" an answer sent with a wrong length. *)
NoAnswer == [seq |-> 0, req |-> NoRequest, what |-> "done"]

(* What travels on the pipe: requests and nwbind's 0x3333 packets (reply).  *)
NoPacket == [reply |-> FALSE, req |-> NoRequest]

None == -1

(* The channels other than the pipe are datagram sockets: what does not fit *)
(* is dropped.                                                              *)
Push(q, x) == IF Len(q) < Cap THEN Append(q, x) ELSE q

-----------------------------------------------------------------------------
(* A 0x1111 with sequence 0 has just been answered.                         *)
Init ==
  /\ cur = NoRequest
  /\ answer = [id \in 0..MaxReq |-> NoAnswer]
  /\ net = <<>> /\ toClient = <<>> /\ pipe = <<>> /\ toBind = <<>> /\ fromBind = <<>>
  /\ sequence = 0
  /\ nw = [at |-> "read", msg |-> NoPacket, last |-> 0, saved |-> None,
           buf |-> NoAnswer, len |-> TRUE]
  /\ busy = FALSE
  /\ late = FALSE /\ ticks = 0
  /\ ran = [id \in 0..MaxReq |-> [nwconn |-> 0, nwbind |-> 0, after |-> 0]]

Waiting == cur.id > 0 /\ answer[cur.id] = NoAnswer

(* External: the NCP client (requester).                                    *)
ClientSend(k) ==
  /\ ~Waiting /\ cur.id < MaxReq /\ Len(net) < Cap
  /\ cur' = [id |-> cur.id + 1, kind |-> k]
  /\ net' = Append(net, cur')
  /\ UNCHANGED <<answer, toClient, sequence, pipe, nw, busy, late, ticks, toBind, fromBind, ran>>

ClientRetry ==
  /\ Waiting /\ Len(net) < Cap
  /\ net' = Append(net, cur)
  /\ UNCHANGED <<cur, answer, toClient, sequence, pipe, nw, busy, late, ticks, toBind, fromBind, ran>>

(* Any answer with the current sequence is the answer.                      *)
ClientReceive ==
  LET a == Head(toClient)
  IN  /\ toClient # <<>>
      /\ toClient' = Tail(toClient)
      /\ answer' = IF Waiting /\ a.seq = Seq8(cur.id)
                   THEN [answer EXCEPT ![cur.id] = a] ELSE answer
      /\ UNCHANGED <<cur, net, sequence, pipe, nw, busy, late, ticks, toBind, fromBind, ran>>

(* The client has no more requests.                                         *)
ClientQuiet == ~Waiting /\ cur.id = MaxReq /\ UNCHANGED vars

(* External: the network loses a packet.                                    *)
LoseRequest ==
  /\ net # <<>> /\ net' = Tail(net)
  /\ UNCHANGED <<cur, answer, toClient, sequence, pipe, nw, busy, late, ticks, toBind, fromBind, ran>>

LoseAnswer ==
  /\ toClient # <<>> /\ toClient' = Tail(toClient)
  /\ UNCHANGED <<cur, answer, net, sequence, pipe, nw, busy, late, ticks, toBind, fromBind, ran>>

-----------------------------------------------------------------------------
(* ncpserv, handle_ncp_request 0x2222: a repeated sequence while nwconn is  *)
(* busy is answered with 0x9999, everything else goes to nwconn.  0x9999    *)
(* only makes the client wait, which it may do anyway: the packet is not in *)
(* toClient.                                                                *)
BeingServiced(r) == Seq8(r.id) = sequence /\ busy

(* write() to a full pipe waits.                                            *)
PipeHasRoom == Len(pipe) < PipeCap

ServeRequest ==
  LET r == Head(net)
  IN  /\ net # <<>> /\ PipeHasRoom
      /\ net' = Tail(net)
      /\ IF BeingServiced(r)
         THEN UNCHANGED <<pipe, sequence>>
         ELSE /\ pipe' = Append(pipe, [reply |-> FALSE, req |-> r])
              /\ sequence' = Seq8(r.id)
      /\ UNCHANGED <<cur, answer, toClient, nw, busy, late, ticks, toBind, fromBind, ran>>

(* ncpserv, 0x3333 from nwbind: to nwconn.                                  *)
ServeBindReply ==
  /\ fromBind # <<>> /\ PipeHasRoom
  /\ pipe' = Append(pipe, [reply |-> TRUE, req |-> Head(fromBind)])
  /\ fromBind' = Tail(fromBind)
  /\ UNCHANGED <<cur, answer, net, toClient, sequence, nw, busy, late, ticks, toBind, ran>>

-----------------------------------------------------------------------------
(* nwconn: read(0, readbuff, ...).  The pipe is a byte stream, so the read  *)
(* returns all packets queued in it, and only the first is looked at.       *)
NwconnRead ==
  /\ nw.at = "read" /\ pipe # <<>>
  /\ nw' = [nw EXCEPT !.at = "got", !.msg = Head(pipe)]
  /\ pipe' = <<>>
  /\ UNCHANGED <<cur, answer, net, toClient, sequence, busy, late, ticks, toBind, fromBind, ran>>

NwconnSetBusy ==
  /\ nw.at = "got"
  /\ nw' = [nw EXCEPT !.at = "run"]
  /\ busy' = TRUE
  /\ UNCHANGED <<cur, answer, net, toClient, sequence, pipe, late, ticks, toBind, fromBind, ran>>

NwconnSetFree ==
  /\ nw.at = "done"
  /\ nw' = [nw EXCEPT !.at = "read", !.msg = NoPacket]
  /\ busy' = FALSE
  /\ UNCHANGED <<cur, answer, net, toClient, sequence, pipe, late, ticks, toBind, fromBind, ran>>

(* ncp_response: the answer goes out, is kept in the buffer, and its        *)
(* sequence becomes last_sequence.                                          *)
ncp_response(s, r, what, saved) ==
  LET a == [seq |-> s, req |-> r, what |-> what]
  IN  /\ toClient' = Push(toClient, a)
      /\ nw' = [nw EXCEPT !.at = "done", !.last = s, !.saved = saved, !.buf = a, !.len = TRUE]

(* Counted up to 2, "more than once", for nwconn, up to 1 elsewhere.        *)
Often == [nwconn |-> 2, nwbind |-> 1, after |-> 1]
Ran(id, where) == ran' = [ran EXCEPT ![id][where] = IF @ < Often[where] THEN @ + 1 ELSE @]

(* Mutant of ReplySequence: the sequence of the last request.               *)
ReplySequenceLast(r) == sequence

(* The answer to nwbind's packet carries the sequence of that packet.       *)
ReplySequence(r) == Seq8(r.id)

(* A 0x3333 packet of nwbind, with the completion code 0 (ok) or an error.  *)
(* If it belongs to the saved request, nwconn's own part of that request    *)
(* follows; else, and on an error, it goes to the client as it is.          *)
NwconnBindReply ==
  LET r == nw.msg.req
      asis(ok) == IF ~ok THEN "failed" ELSE IF r.kind = "after" THEN "raw" ELSE "done"
  IN  /\ nw.at = "run" /\ nw.msg.reply
      /\ \E ok \in BOOLEAN :
           IF ok /\ nw.saved = Seq8(r.id)
           THEN ncp_response(ReplySequence(r), r, "done", None) /\ Ran(r.id, "after")
           ELSE ncp_response(ReplySequence(r), r, asis(ok), None) /\ UNCHANGED ran
      /\ UNCHANGED <<cur, answer, net, sequence, pipe, busy, late, ticks, toBind, fromBind>>

(* The branch on the watchdog timer: the packet that finds the timer run    *)
(* out only resets nwbind's watchdog entry; the `else if' that follows it   *)
(* leaves the request itself unhandled.  call_nwbind leaves the length of   *)
(* its own packet in ud.udata.len.                                          *)
TimerBranch == late /\ nw.saved = None

(* Mutant of NwconnTimer: last_time is not set.                             *)
NwconnTimerNoReset ==
  /\ nw.at = "run" /\ ~nw.msg.reply /\ TimerBranch
  /\ nw' = [nw EXCEPT !.at = "done", !.len = FALSE]
  /\ UNCHANGED <<cur, answer, net, toClient, sequence, pipe, busy, late, ticks, toBind, fromBind, ran>>

NwconnTimer ==
  /\ nw.at = "run" /\ ~nw.msg.reply /\ TimerBranch
  /\ nw' = [nw EXCEPT !.at = "done", !.len = FALSE]
  /\ late' = FALSE
  /\ UNCHANGED <<cur, answer, net, toClient, sequence, pipe, busy, ticks, toBind, fromBind, ran>>

(* Mutant of IsRepeat: compares with < instead of =.                        *)
IsRepeatOlder(r) == Seq8(r.id) < nw.last

(* handle_ncp_serv: "send the same again", with the length ud has now.      *)
IsRepeat(r) == nw.last = Seq8(r.id)

NwconnRepeat ==
  /\ nw.at = "run" /\ ~nw.msg.reply /\ ~TimerBranch /\ IsRepeat(nw.msg.req)
  /\ toClient' = Push(toClient, IF nw.len THEN nw.buf ELSE [nw.buf EXCEPT !.what = "cut"])
  /\ nw' = [nw EXCEPT !.at = "done"]
  /\ UNCHANGED <<cur, answer, net, sequence, pipe, busy, late, ticks, toBind, fromBind, ran>>

NwconnLocal ==
  LET r == nw.msg.req
  IN  /\ nw.at = "run" /\ ~nw.msg.reply /\ ~TimerBranch /\ ~IsRepeat(r)
      /\ r.kind = "local"
      /\ ncp_response(Seq8(r.id), r, "done", nw.saved)
      /\ Ran(r.id, "nwconn")
      /\ UNCHANGED <<cur, answer, net, sequence, pipe, busy, late, ticks, toBind, fromBind>>

NwconnCallBind ==
  LET r == nw.msg.req
  IN  /\ nw.at = "run" /\ ~nw.msg.reply /\ ~TimerBranch /\ ~IsRepeat(r)
      /\ r.kind # "local"
      /\ toBind' = Push(toBind, r)
      /\ nw' = [nw EXCEPT !.at = "done", !.len = FALSE,
                          !.saved = IF r.kind = "after" THEN Seq8(r.id) ELSE None]
      /\ UNCHANGED <<cur, answer, net, toClient, sequence, pipe, busy, late, ticks, fromBind, ran>>

(* 60 seconds pass.                                                         *)
Tick ==
  /\ ~late /\ ticks < MaxTicks
  /\ late' = TRUE /\ ticks' = ticks + 1
  /\ UNCHANGED <<cur, answer, net, toClient, sequence, pipe, nw, busy, toBind, fromBind, ran>>

(* nwbind, main loop and handle_fxx: every packet is carried out and        *)
(* answered; there is no check for repeated sequences.                      *)
BindServe ==
  LET r == Head(toBind)
  IN  /\ toBind # <<>>
      /\ toBind' = Tail(toBind)
      /\ fromBind' = Push(fromBind, r)
      /\ Ran(r.id, "nwbind")
      /\ UNCHANGED <<cur, answer, net, toClient, sequence, pipe, nw, busy, late, ticks>>

-----------------------------------------------------------------------------
Client == (\E k \in Kinds : ClientSend(k)) \/ ClientRetry \/ ClientReceive \/ ClientQuiet
Ncpserv == ServeRequest \/ ServeBindReply
NwconnHandle == NwconnBindReply \/ NwconnTimer \/ NwconnRepeat \/ NwconnLocal \/ NwconnCallBind
Nwconn == NwconnRead \/ NwconnSetBusy \/ NwconnHandle \/ NwconnSetFree

Next == Client \/ LoseRequest \/ LoseAnswer \/ Ncpserv \/ Nwconn \/ BindServe \/ Tick

Spec == Init /\ [][Next]_vars

(* The processes run on; a client repeats a request until it is answered;   *)
(* a request, or an answer, sent again and again is not lost every time.    *)
Fairness ==
  /\ WF_vars(ClientRetry) /\ WF_vars(Nwconn) /\ WF_vars(BindServe) /\ WF_vars(ServeBindReply)
  /\ SF_vars(ServeRequest) /\ SF_vars(ClientReceive)

FairSpec == Spec /\ Fairness

-----------------------------------------------------------------------------
(* Where a request's result comes from.                                     *)
Worker == [local |-> "nwconn", bind |-> "nwbind", after |-> "after"]

(* The client never takes for the answer of a request the answer of another *)
(* one, and a result is never given before the request was carried out to   *)
(* the end, whatever was lost, repeated, merged or overtaken.               *)
AnswerIsOwn ==
  \A id \in Ids : answer[id] # NoAnswer =>
    /\ answer[id].req.id = id
    /\ answer[id].what = "failed" => ran[id].nwbind > 0
    /\ answer[id].what = "done" => ran[id][Worker[answer[id].req.kind]] > 0

(* A request that nwconn carries out itself is carried out once, a repeated *)
(* one is answered from the buffer (nwconn.c:2714-2718, "if nwconn is free, *)
(* we are simply resend previous reply"), as long as no request of the      *)
(* connection has gone to nwbind.  After one has, it may run twice:         *)
(* nwbind's answer, sent late, replaces the buffered one.                   *)
LocalOnceAlone ==
  (\A id \in Ids : ran[id].nwbind = 0) => \A id \in Ids : ran[id].nwconn <= 1

Answered(id) == answer[id] # NoAnswer

(* Nothing of an earlier transmission is left in the server.                *)
Quiet == /\ net = <<>> /\ pipe = <<>> /\ toBind = <<>> /\ fromBind = <<>>
         /\ nw.at = "read"

(* Every request is answered in the end, although packets are lost, the     *)
(* pipe merges packets and the watchdog timer swallows requests: one that   *)
(* nwconn handles itself however fast the client repeats it, one through    *)
(* nwbind to a client that in the end repeats no faster than the server     *)
(* works.  (A client that always does can be starved: its repetition, read  *)
(* first, hides nwbind's answer behind it in the pipe.)                     *)
AllAnswered ==
  <>[][ClientRetry => Quiet \/ cur.kind = "local"]_vars
    => \A id \in Ids : cur.id = id ~> Answered(id)
=============================================================================
