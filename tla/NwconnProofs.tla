----------------------------- MODULE NwconnProofs -----------------------------
(***************************************************************************)
(* Proofs about the process of one connection.                             *)
(*                                                                         *)
(* NcpSession: for any number of requests, losses and repetitions and any  *)
(* capacity of the channels, as long as the sequence numbers of the        *)
(* connection's requests are different, a client never takes a wrong       *)
(* answer, and without nwbind no request runs twice.                       *)
(*                                                                         *)
(* Names: for any processes, directories, files and inodes, any sizes of   *)
(* the tables that NamesConstants allows and any number of changes, a base *)
(* handle and a short directory handle lead to the object they were given  *)
(* out for, and a rename does not use an entry it has freed.               *)
(***************************************************************************)
EXTENDS NcpSession, Names, TLAPS, SequenceTheorems, WellFoundedInduction

-----------------------------------------------------------------------------
(* NcpSession                                                                *)

(* The client has sent less requests than there are sequence numbers.  An  *)
(* NCP client relies on no packet outliving 255 later requests: without    *)
(* that an answer with the right sequence may be 256 requests old.         *)
NoWrap == MaxReq < SeqSpace

-----------------------------------------------------------------------------
(* The inductive invariant: what travels.                                  *)

Req == [id : 0..MaxReq, kind : AllKinds]
Packet == [reply : BOOLEAN, req : Req]
AnAnswer == [seq : Nat, req : Req, what : {"done", "failed", "raw", "cut"}]
Counts == [nwconn : Nat, nwbind : Nat, after : Nat]

(* A request the client has sent.                                          *)
Sent == {r \in Req : r.id \in 1..cur.id}

(* A request that nwbind has been passed, and one it has carried out.      *)
Passed == {r \in Sent : r.kind # "local"}
Served == {r \in Passed : ran[r.id].nwbind > 0}

(* A packet for nwconn is a request sent, or nwbind's answer to one.       *)
GoodPacket == {p \in Packet : p.req \in (IF p.reply THEN Served ELSE Sent)}

(* An answer has the sequence of its request, and tells of nothing that    *)
(* has not been carried out.                                               *)
GoodAnswer ==
  {a \in AnAnswer :
    /\ a.seq = Seq8(a.req.id)
    /\ a.what = "failed" => ran[a.req.id].nwbind > 0
    /\ a.what = "done" /\ a.req.id > 0 => ran[a.req.id][Worker[a.req.kind]] > 0}

TypeOK ==
  /\ cur \in Req
  /\ answer \in [0..MaxReq -> AnAnswer]
  /\ ran \in [0..MaxReq -> Counts]
  /\ nw \in [at : {"read", "got", "run", "done"}, msg : Packet, last : Nat,
             saved : Nat \union {None}, buf : AnAnswer, len : BOOLEAN]
  /\ busy \in BOOLEAN /\ late \in BOOLEAN /\ sequence \in Nat /\ ticks \in Nat

Travels ==
  /\ net \in Seq(Sent) /\ toBind \in Seq(Passed) /\ fromBind \in Seq(Served)
  /\ pipe \in Seq(GoodPacket)
  /\ nw.at \in {"got", "run"} => nw.msg \in GoodPacket
  /\ toClient \in Seq(GoodAnswer) /\ nw.buf \in GoodAnswer

Accepted ==
  \A id \in Ids : answer[id] # NoAnswer => answer[id] \in GoodAnswer /\ answer[id].req.id = id

AnswersInv == TypeOK /\ Travels /\ Accepted

(* What the property says of the accepted answers follows.                 *)
LEMMA AnswersOwn == AnswersInv => AnswerIsOwn
  BY SessionConstants DEF AnswersInv, Accepted, AnswerIsOwn, GoodAnswer, Ids

-----------------------------------------------------------------------------
(* What the steps have in common.                                          *)

(* A sequence number is the number of the request.                         *)
LEMMA SeqIs ==
  ASSUME NoWrap
  PROVE  \A id \in 0..MaxReq : Seq8(id) = id
<1>1. \A id \in 0..MaxReq : id \in Nat /\ id < SeqSpace /\ SeqSpace \in Nat \ {0}
  BY SessionConstants DEF NoWrap
<1> QED BY <1>1 DEF Seq8

(* Every sequence number is one.                                           *)
LEMMA SeqNat == \A id \in 0..MaxReq : Seq8(id) \in Nat
  BY SessionConstants DEF Seq8

(* A channel takes in one packet more or none, and gives its first one.    *)
LEMMA PushIs ==
  ASSUME NEW S, NEW q \in Seq(S), NEW e \in S
  PROVE  Push(q, e) \in Seq(S)
  BY DEF Push

(* The first packet of a queue, and the rest.                              *)
LEMMA FirstIs ==
  ASSUME NEW S, NEW q \in Seq(S), q # <<>>
  PROVE  Head(q) \in S /\ Tail(q) \in Seq(S)
  OBVIOUS

(* Nothing that was carried out is undone: what was good stays good.       *)
LEMMA GoodStays ==
  ASSUME TypeOK, ran' \in [0..MaxReq -> Counts], cur'.id \in Nat, cur.id <= cur'.id,
         \A id \in 0..MaxReq : /\ ran[id].nwconn > 0 => ran'[id].nwconn > 0
                               /\ ran[id].nwbind > 0 => ran'[id].nwbind > 0
                               /\ ran[id].after > 0 => ran'[id].after > 0
  PROVE  /\ Sent \subseteq Sent' /\ Passed \subseteq Passed' /\ Served \subseteq Served'
         /\ GoodPacket \subseteq GoodPacket' /\ GoodAnswer \subseteq GoodAnswer'
<1>1. cur.id \in Nat
  BY SessionConstants DEF TypeOK, Req
<1>2. Sent \subseteq Sent' /\ Passed \subseteq Passed'
  BY <1>1 DEF Sent, Passed
<1>3. Served \subseteq Served'
  BY <1>2 DEF Served, Passed, Sent, Req
<1>4. GoodPacket \subseteq GoodPacket'
  BY <1>2, <1>3 DEF GoodPacket
<1>5. ASSUME NEW a \in GoodAnswer PROVE a \in GoodAnswer'
  <2>1. a \in AnAnswer /\ a.req \in Req /\ a.req.id \in 0..MaxReq /\ a.req.kind \in AllKinds
    BY DEF GoodAnswer, AnAnswer, Req
  <2>2. Worker[a.req.kind] \in {"nwconn", "nwbind", "after"}
    BY <2>1 DEF Worker, AllKinds
  <2>3. \A w \in {"nwconn", "nwbind", "after"} : ran[a.req.id][w] > 0 => ran'[a.req.id][w] > 0
    BY <2>1
  <2> QED BY <2>1, <2>2, <2>3 DEF GoodAnswer
<1> QED BY <1>2, <1>3, <1>4, <1>5

(* Carrying out a request is counted, and nothing else changes.            *)
LEMMA RanIs ==
  ASSUME TypeOK, NEW id \in 0..MaxReq, NEW w \in {"nwconn", "nwbind", "after"}, Ran(id, w)
  PROVE  /\ ran' \in [0..MaxReq -> Counts]
         /\ \A i \in 0..MaxReq : /\ ran[i].nwconn > 0 => ran'[i].nwconn > 0
                                 /\ ran[i].nwbind > 0 => ran'[i].nwbind > 0
                                 /\ ran[i].after > 0 => ran'[i].after > 0
         /\ ran'[id][w] > 0
         /\ \A i \in 0..MaxReq : i # id => ran'[i] = ran[i]
         /\ \A x \in {"nwconn", "nwbind", "after"} : x # w => ran'[id][x] = ran[id][x]
         /\ ran'[id][w] <= ran[id][w] + 1
<1>1. ran \in [0..MaxReq -> Counts]
  BY DEF TypeOK
<1>2. PICK c \in Counts : c = ran[id]
  BY <1>1
<1>3. PICK k \in Nat : k = (IF c[w] < Often[w] THEN c[w] + 1 ELSE c[w]) /\ k > 0
                       /\ k <= c[w] + 1 /\ c[w] \in Nat
  <2>1. c[w] \in Nat /\ Often[w] \in Nat \ {0}
    BY DEF Counts, Often
  <2> QED BY <2>1
<1>4. ran' = [ran EXCEPT ![id] = [c EXCEPT ![w] = k]]
  BY <1>1, <1>2, <1>3 DEF Ran
<1>5. PICK d \in Counts : /\ d = [c EXCEPT ![w] = k] /\ d[w] = k
                          /\ \A x \in {"nwconn", "nwbind", "after"} : x # w => d[x] = c[x]
  <2>1. CASE w = "nwconn"
    <3>1. [c EXCEPT !.nwconn = k] \in Counts /\ [c EXCEPT !.nwconn = k].nwconn = k
          /\ [c EXCEPT !.nwconn = k].nwbind = c.nwbind
          /\ [c EXCEPT !.nwconn = k].after = c.after
      BY DEF Counts
    <3> QED BY <3>1, <2>1
  <2>2. CASE w = "nwbind"
    <3>1. [c EXCEPT !.nwbind = k] \in Counts /\ [c EXCEPT !.nwbind = k].nwbind = k
          /\ [c EXCEPT !.nwbind = k].nwconn = c.nwconn
          /\ [c EXCEPT !.nwbind = k].after = c.after
      BY DEF Counts
    <3> QED BY <3>1, <2>2
  <2>3. CASE w = "after"
    <3>1. [c EXCEPT !.after = k] \in Counts /\ [c EXCEPT !.after = k].after = k
          /\ [c EXCEPT !.after = k].nwconn = c.nwconn
          /\ [c EXCEPT !.after = k].nwbind = c.nwbind
      BY DEF Counts
    <3> QED BY <3>1, <2>3
  <2> QED BY <2>1, <2>2, <2>3
<1>6. ran' = [ran EXCEPT ![id] = d]
  BY <1>4, <1>5
<1>7. \A i \in 0..MaxReq : ran'[i] = IF i = id THEN d ELSE ran[i]
  BY <1>6, <1>1
<1>8. \A x \in {"nwconn", "nwbind", "after"} : c[x] > 0 => d[x] > 0
  BY <1>5, <1>3
<1>9. ran' \in [0..MaxReq -> Counts]
  BY <1>6, <1>1
<1>10. c.nwconn > 0 => d.nwconn > 0
  BY <1>8
<1>11. c.nwbind > 0 => d.nwbind > 0
  BY <1>8
<1>12. c.after > 0 => d.after > 0
  BY <1>8
<1> QED BY <1>2, <1>3, <1>5, <1>7, <1>9, <1>10, <1>11, <1>12

(* What travelled before a step still may after it.                        *)
LEMMA TravelStays ==
  ASSUME AnswersInv, ran' \in [0..MaxReq -> Counts], cur'.id \in Nat, cur.id <= cur'.id,
         \A id \in 0..MaxReq : /\ ran[id].nwconn > 0 => ran'[id].nwconn > 0
                               /\ ran[id].nwbind > 0 => ran'[id].nwbind > 0
                               /\ ran[id].after > 0 => ran'[id].after > 0
  PROVE  /\ net \in Seq(Sent') /\ toBind \in Seq(Passed') /\ fromBind \in Seq(Served')
         /\ pipe \in Seq(GoodPacket')
         /\ nw.at \in {"got", "run"} => nw.msg \in GoodPacket'
         /\ toClient \in Seq(GoodAnswer') /\ nw.buf \in GoodAnswer'
         /\ \A id \in Ids : answer[id] # NoAnswer =>
              answer[id] \in GoodAnswer' /\ answer[id].req.id = id
<1>1. /\ Sent \subseteq Sent' /\ Passed \subseteq Passed' /\ Served \subseteq Served'
      /\ GoodPacket \subseteq GoodPacket' /\ GoodAnswer \subseteq GoodAnswer'
  BY GoodStays DEF AnswersInv
<1>2. /\ Seq(Sent) \subseteq Seq(Sent') /\ Seq(Passed) \subseteq Seq(Passed')
      /\ Seq(Served) \subseteq Seq(Served') /\ Seq(GoodPacket) \subseteq Seq(GoodPacket')
      /\ Seq(GoodAnswer) \subseteq Seq(GoodAnswer')
  BY <1>1, SeqMonotonic
<1> QED BY <1>1, <1>2 DEF AnswersInv, Travels, Accepted

(* Where nothing new is carried out and nothing new is sent, all that      *)
(* travels is judged as before.                                            *)
LEMMA SameGood ==
  ASSUME ran' = ran, cur' = cur
  PROVE  /\ Sent' = Sent /\ Passed' = Passed /\ Served' = Served
         /\ GoodPacket' = GoodPacket /\ GoodAnswer' = GoodAnswer
  BY DEF Sent, Passed, Served, GoodPacket, GoodAnswer

-----------------------------------------------------------------------------
(* The steps.                                                              *)

(* Nothing is under way at first.                                          *)
LEMMA AnswersInit == Init => AnswersInv
<1> SUFFICES ASSUME Init PROVE AnswersInv
  OBVIOUS
<1>1. NoRequest \in Req /\ NoRequest.id = 0
  BY SessionConstants DEF NoRequest, Req, AllKinds
<1>2. NoAnswer \in AnAnswer /\ NoAnswer.seq = 0 /\ NoAnswer.req = NoRequest /\ NoAnswer.what = "done"
  BY <1>1 DEF NoAnswer, AnAnswer
<1>3. NoPacket \in Packet
  BY <1>1 DEF NoPacket, Packet
<1>4. Seq8(0) = 0
  BY SessionConstants DEF Seq8
<1>5. NoAnswer \in GoodAnswer
  BY <1>1, <1>2, <1>4 DEF GoodAnswer
<1>6. TypeOK
  BY <1>1, <1>2, <1>3 DEF Init, TypeOK, Counts
<1>7. Travels
  BY <1>5 DEF Init, Travels
<1>8. Accepted
  BY SessionConstants DEF Init, Accepted, Ids
<1> QED BY <1>6, <1>7, <1>8 DEF AnswersInv

(* The client sends, repeats, and takes an answer.                         *)
LEMMA AnswersClient ==
  ASSUME NoWrap, AnswersInv, Client
  PROVE  AnswersInv'
<1>0. cur \in Req /\ cur.id \in 0..MaxReq /\ MaxReq \in Nat /\ Kinds \subseteq AllKinds
  BY SessionConstants DEF AnswersInv, TypeOK, Req
<1>1. ASSUME NEW k \in Kinds, ClientSend(k) PROVE AnswersInv'
  <2>1. cur' \in Req /\ cur'.id = cur.id + 1 /\ cur'.id \in 1..MaxReq
    BY <1>0, <1>1 DEF ClientSend, Req
  <2>2. /\ net \in Seq(Sent') /\ toBind \in Seq(Passed') /\ fromBind \in Seq(Served')
        /\ pipe \in Seq(GoodPacket')
        /\ nw.at \in {"got", "run"} => nw.msg \in GoodPacket'
        /\ toClient \in Seq(GoodAnswer') /\ nw.buf \in GoodAnswer'
        /\ \A id \in Ids : answer[id] # NoAnswer =>
             answer[id] \in GoodAnswer' /\ answer[id].req.id = id
    <3>1. ran' = ran /\ ran \in [0..MaxReq -> Counts] /\ cur'.id \in Nat /\ cur.id <= cur'.id
      BY <1>0, <1>1, <2>1 DEF ClientSend, AnswersInv, TypeOK
    <3> QED BY <3>1, TravelStays
  <2>3. cur' \in Sent'
    BY <2>1 DEF Sent
  <2>4. net' \in Seq(Sent')
    BY <2>2, <2>3, <1>1 DEF ClientSend
  <2>5. Travels' /\ Accepted'
    BY <2>2, <2>4, <1>1 DEF ClientSend, Travels, Accepted
  <2>6. TypeOK'
    BY <2>1, <1>1 DEF ClientSend, AnswersInv, TypeOK
  <2> QED BY <2>5, <2>6 DEF AnswersInv
<1>2. CASE ClientRetry
  <2>1. ran' = ran /\ cur' = cur
    BY <1>2 DEF ClientRetry
  <2>2. cur \in Sent
    BY <1>0, <1>2 DEF ClientRetry, Waiting, Sent
  <2>3. net' \in Seq(Sent)
    BY <2>2, <1>2 DEF ClientRetry, AnswersInv, Travels
  <2>4. Travels' /\ Accepted'
    BY <2>1, <2>3, <1>2, SameGood DEF ClientRetry, AnswersInv, Travels, Accepted
  <2>5. TypeOK'
    BY <1>2 DEF ClientRetry, AnswersInv, TypeOK
  <2> QED BY <2>4, <2>5 DEF AnswersInv
<1>3. CASE ClientReceive
  <2>1. ran' = ran /\ cur' = cur
    BY <1>3 DEF ClientReceive
  <2>2. PICK a : a = Head(toClient)
    OBVIOUS
  <2>3. a \in GoodAnswer /\ Tail(toClient) \in Seq(GoodAnswer)
    BY <1>3, <2>2, FirstIs DEF ClientReceive, AnswersInv, Travels
  <2>4. a \in AnAnswer /\ a.req.id \in 0..MaxReq
    BY <2>3 DEF GoodAnswer, AnAnswer, Req
  <2>5. answer' = IF Waiting /\ a.seq = Seq8(cur.id) THEN [answer EXCEPT ![cur.id] = a] ELSE answer
    BY <1>3, <2>2 DEF ClientReceive
  <2>6. answer \in [0..MaxReq -> AnAnswer]
    BY DEF AnswersInv, TypeOK
  <2>7. Accepted'
    <3> SUFFICES ASSUME NEW id \in Ids, answer'[id] # NoAnswer
                 PROVE  answer'[id] \in GoodAnswer /\ answer'[id].req.id = id
      BY <2>1, SameGood DEF Accepted
    <3>1. CASE answer'[id] = answer[id]
      BY <3>1 DEF AnswersInv, Accepted
    <3>2. CASE answer'[id] # answer[id]
      <4>1. id = cur.id /\ answer'[id] = a /\ a.seq = Seq8(cur.id)
        BY <3>2, <2>5, <2>6, <1>0
      <4>2. a.req.id = cur.id
        BY <4>1, <2>3, <2>4, <1>0, SeqIs DEF GoodAnswer
      <4> QED BY <4>1, <4>2, <2>3
    <3> QED BY <3>1, <3>2
  <2>8. toClient' \in Seq(GoodAnswer)
    BY <2>3, <1>3 DEF ClientReceive
  <2>9. Travels'
    BY <2>1, <2>8, <1>3, SameGood DEF ClientReceive, AnswersInv, Travels
  <2>10. answer' \in [0..MaxReq -> AnAnswer]
    BY <2>4, <2>5, <2>6
  <2>11. TypeOK'
    BY <2>10, <1>3 DEF ClientReceive, AnswersInv, TypeOK
  <2> QED BY <2>7, <2>9, <2>11 DEF AnswersInv
<1>4. CASE ClientQuiet
  BY <1>4, SameGood DEF ClientQuiet, vars, AnswersInv, TypeOK, Travels, Accepted
<1> QED BY <1>1, <1>2, <1>3, <1>4 DEF Client

(* Lost packets, the timer, and ncpserv, which passes requests and         *)
(* nwbind's answers on.                                                    *)
LEMMA AnswersNcpserv ==
  ASSUME AnswersInv, LoseRequest \/ LoseAnswer \/ Tick \/ Ncpserv
  PROVE  AnswersInv'
<1>1. ran' = ran /\ cur' = cur /\ nw' = nw /\ answer' = answer /\ busy' = busy
  BY DEF LoseRequest, LoseAnswer, Tick, Ncpserv, ServeRequest, ServeBindReply
<1>2. net # <<>> => Head(net) \in Sent /\ Tail(net) \in Seq(Sent)
  BY FirstIs DEF AnswersInv, Travels
<1>3. toClient # <<>> => Tail(toClient) \in Seq(GoodAnswer)
  BY FirstIs DEF AnswersInv, Travels
<1>4. fromBind # <<>> => Head(fromBind) \in Served /\ Tail(fromBind) \in Seq(Served)
  BY FirstIs DEF AnswersInv, Travels
<1>5. net' \in Seq(Sent)
  BY <1>2 DEF LoseRequest, LoseAnswer, Tick, Ncpserv, ServeRequest, ServeBindReply,
              AnswersInv, Travels
<1>6. toClient' \in Seq(GoodAnswer)
  BY <1>3 DEF LoseRequest, LoseAnswer, Tick, Ncpserv, ServeRequest, ServeBindReply,
              AnswersInv, Travels
<1>7. fromBind' \in Seq(Served)
  BY <1>4 DEF LoseRequest, LoseAnswer, Tick, Ncpserv, ServeRequest, ServeBindReply,
              AnswersInv, Travels
<1>8. toBind' \in Seq(Passed)
  BY DEF LoseRequest, LoseAnswer, Tick, Ncpserv, ServeRequest, ServeBindReply,
         AnswersInv, Travels
<1>9. pipe' \in Seq(GoodPacket)
  <2>0. pipe \in Seq(GoodPacket)
    BY DEF AnswersInv, Travels
  <2>1. CASE ServeRequest
    <3>1. [reply |-> FALSE, req |-> Head(net)] \in GoodPacket
      BY <1>2, <2>1 DEF ServeRequest, GoodPacket, Packet, Sent
    <3> QED BY <2>0, <2>1, <3>1 DEF ServeRequest
  <2>2. CASE ServeBindReply
    <3>1. [reply |-> TRUE, req |-> Head(fromBind)] \in GoodPacket
      BY <1>4, <2>2 DEF ServeBindReply, GoodPacket, Packet, Sent, Passed, Served
    <3> QED BY <2>0, <2>2, <3>1 DEF ServeBindReply
  <2>3. CASE LoseRequest \/ LoseAnswer \/ Tick
    BY <2>0, <2>3 DEF LoseRequest, LoseAnswer, Tick
  <2> QED BY <2>1, <2>2, <2>3 DEF Ncpserv
<1>10. Travels' /\ Accepted'
  BY <1>1, <1>5, <1>6, <1>7, <1>8, <1>9, SameGood DEF AnswersInv, Travels, Accepted
<1>11. sequence' \in Nat
  <2>1. CASE ServeRequest
    <3>1. Head(net).id \in 0..MaxReq
      BY <1>2, <2>1 DEF ServeRequest, Sent, Req
    <3>2. Seq8(Head(net).id) \in Nat
      BY <3>1, SeqNat
    <3> QED BY <3>2, <2>1 DEF ServeRequest, AnswersInv, TypeOK
  <2>2. CASE ~ServeRequest
    BY <2>2 DEF LoseRequest, LoseAnswer, Tick, Ncpserv, ServeBindReply, AnswersInv, TypeOK
  <2> QED BY <2>1, <2>2
<1>12. late' \in BOOLEAN /\ ticks' \in Nat
  <2>1. late \in BOOLEAN /\ ticks \in Nat
    BY DEF AnswersInv, TypeOK
  <2>2. CASE Tick
    BY <2>1, <2>2 DEF Tick
  <2>3. CASE ~Tick
    BY <2>1, <2>3 DEF LoseRequest, LoseAnswer, Ncpserv, ServeRequest, ServeBindReply
  <2> QED BY <2>2, <2>3
<1>13. TypeOK'
  BY <1>1, <1>11, <1>12 DEF AnswersInv, TypeOK
<1> QED BY <1>10, <1>13 DEF AnswersInv

(* nwconn reads a packet, marks itself busy, and free again.               *)
LEMMA AnswersRead ==
  ASSUME AnswersInv, NwconnRead \/ NwconnSetBusy \/ NwconnSetFree
  PROVE  AnswersInv'
<1>1. /\ ran' = ran /\ cur' = cur /\ answer' = answer /\ net' = net /\ toBind' = toBind
      /\ fromBind' = fromBind /\ toClient' = toClient /\ late' = late /\ ticks' = ticks
      /\ sequence' = sequence
  BY DEF NwconnRead, NwconnSetBusy, NwconnSetFree
<1>2. nw \in [at : {"read", "got", "run", "done"}, msg : Packet, last : Nat,
             saved : Nat \union {None}, buf : AnAnswer, len : BOOLEAN]
  BY DEF AnswersInv, TypeOK
<1>3. /\ pipe' \in Seq(GoodPacket) /\ busy' \in BOOLEAN
      /\ nw' \in [at : {"read", "got", "run", "done"}, msg : Packet, last : Nat,
                  saved : Nat \union {None}, buf : AnAnswer, len : BOOLEAN]
      /\ nw'.at \in {"got", "run"} => nw'.msg \in GoodPacket
      /\ nw'.buf = nw.buf
  <2>1. CASE NwconnRead
    <3>1. Head(pipe) \in GoodPacket /\ Head(pipe) \in Packet
      BY <2>1, FirstIs DEF NwconnRead, AnswersInv, Travels, GoodPacket
    <3>2. pipe' = <<>> /\ busy' = busy /\ nw' = [nw EXCEPT !.at = "got", !.msg = Head(pipe)]
      BY <2>1 DEF NwconnRead
    <3>3. busy' \in BOOLEAN /\ pipe' \in Seq(GoodPacket)
      BY <3>2 DEF AnswersInv, TypeOK
    <3> QED BY <1>2, <3>1, <3>2, <3>3
  <2>2. CASE NwconnSetBusy
    <3>1. /\ nw' = [nw EXCEPT !.at = "run"] /\ nw.msg \in GoodPacket /\ pipe' = pipe
          /\ busy' \in BOOLEAN
      BY <2>2 DEF NwconnSetBusy, AnswersInv, Travels
    <3>2. pipe' \in Seq(GoodPacket)
      BY <3>1 DEF AnswersInv, Travels
    <3> QED BY <1>2, <3>1, <3>2
  <2>3. CASE NwconnSetFree
    <3>1. NoPacket \in Packet
      BY SessionConstants DEF NoPacket, NoRequest, Packet, Req, AllKinds
    <3>2. /\ nw' = [nw EXCEPT !.at = "read", !.msg = NoPacket] /\ pipe' = pipe
          /\ busy' \in BOOLEAN
      BY <2>3 DEF NwconnSetFree
    <3>3. pipe' \in Seq(GoodPacket)
      BY <3>2 DEF AnswersInv, Travels
    <3> QED BY <1>2, <3>1, <3>2, <3>3
  <2> QED BY <2>1, <2>2, <2>3
<1>4. Travels' /\ Accepted'
  BY <1>1, <1>3, SameGood DEF AnswersInv, Travels, Accepted
<1>5. TypeOK'
  BY <1>1, <1>3 DEF AnswersInv, TypeOK
<1> QED BY <1>4, <1>5 DEF AnswersInv

(* The answer that goes out, and into the buffer, is one about its request.*)
LEMMA ResponseIs ==
  ASSUME AnswersInv, NEW r \in Req, NEW what \in {"done", "failed", "raw"},
         NEW saved \in Nat \union {None}, ncp_response(Seq8(r.id), r, what, saved),
         ran' \in [0..MaxReq -> Counts], cur' = cur,
         toClient \in Seq(GoodAnswer'),
         what = "failed" => ran'[r.id].nwbind > 0,
         what = "done" => ran'[r.id][Worker[r.kind]] > 0
  PROVE  /\ toClient' \in Seq(GoodAnswer') /\ nw'.buf \in GoodAnswer' /\ nw'.at = "done"
         /\ nw' \in [at : {"read", "got", "run", "done"}, msg : Packet, last : Nat,
                     saved : Nat \union {None}, buf : AnAnswer, len : BOOLEAN]
         /\ nw'.msg = nw.msg /\ nw'.last = Seq8(r.id)
<1>1. PICK a : a = [seq |-> Seq8(r.id), req |-> r, what |-> what]
  OBVIOUS
<1>2. r.id \in 0..MaxReq
  BY DEF Req
<1>3. Seq8(r.id) \in Nat
  BY <1>2, SeqNat
<1>4. a \in AnAnswer
  BY <1>1, <1>3 DEF AnAnswer
<1>5. a \in GoodAnswer'
  BY <1>1, <1>4 DEF GoodAnswer
<1>6. /\ toClient' = Push(toClient, a)
      /\ nw' = [nw EXCEPT !.at = "done", !.last = Seq8(r.id), !.saved = saved,
                         !.buf = a, !.len = TRUE]
  BY <1>1 DEF ncp_response
<1>7. toClient' \in Seq(GoodAnswer')
  <2>1. PICK S : S = GoodAnswer'
    OBVIOUS
  <2>2. PICK q \in Seq(S) : q = toClient
    BY <2>1
  <2>3. Push(q, a) \in Seq(S)
    BY <1>5, <2>1, PushIs
  <2> QED BY <2>1, <2>2, <2>3, <1>6
<1>8. nw \in [at : {"read", "got", "run", "done"}, msg : Packet, last : Nat,
             saved : Nat \union {None}, buf : AnAnswer, len : BOOLEAN]
  BY DEF AnswersInv, TypeOK
<1> QED BY <1>3, <1>4, <1>5, <1>6, <1>7, <1>8

(* nwconn handles a packet: nwbind's answer, the timer, a repetition, a    *)
(* request of its own, one for nwbind.                                     *)
LEMMA AnswersHandle ==
  ASSUME AnswersInv, NwconnHandle
  PROVE  AnswersInv'
<1>0. /\ cur' = cur /\ answer' = answer /\ net' = net /\ pipe' = pipe
      /\ fromBind' = fromBind /\ busy' = busy /\ ticks' = ticks /\ sequence' = sequence
  BY DEF NwconnHandle, NwconnBindReply, NwconnTimer, NwconnRepeat, NwconnLocal, NwconnCallBind
<1>1. PICK r : r = nw.msg.req
  OBVIOUS
<1>2. nw.at = "run" /\ nw.msg \in GoodPacket
  BY DEF NwconnHandle, NwconnBindReply, NwconnTimer, NwconnRepeat, NwconnLocal,
         NwconnCallBind, AnswersInv, Travels
<1>3. r \in Sent /\ r \in Req /\ r.id \in 0..MaxReq /\ r.id > 0 /\ r.kind \in AllKinds
  BY <1>1, <1>2 DEF GoodPacket, Served, Passed, Sent, Req
<1>4. nw \in [at : {"read", "got", "run", "done"}, msg : Packet, last : Nat,
             saved : Nat \union {None}, buf : AnAnswer, len : BOOLEAN]
  BY DEF AnswersInv, TypeOK
<1>5. cur'.id \in Nat /\ cur.id <= cur'.id
  BY <1>0, SessionConstants DEF AnswersInv, TypeOK, Req
<1>6. ran \in [0..MaxReq -> Counts] /\ late \in BOOLEAN
  BY DEF AnswersInv, TypeOK
<1>7. ASSUME ran' = ran, toBind' \in Seq(Passed), toClient' \in Seq(GoodAnswer),
             nw'.at = "done", nw'.buf = nw.buf, late' \in BOOLEAN,
             nw' \in [at : {"read", "got", "run", "done"}, msg : Packet, last : Nat,
                     saved : Nat \union {None}, buf : AnAnswer, len : BOOLEAN]
      PROVE  AnswersInv'
  <2>1. Travels' /\ Accepted'
    BY <1>0, <1>7, SameGood DEF AnswersInv, Travels, Accepted
  <2>2. TypeOK'
    BY <1>0, <1>7 DEF AnswersInv, TypeOK
  <2> QED BY <2>1, <2>2 DEF AnswersInv
<1>8. ASSUME ran' \in [0..MaxReq -> Counts], toBind' = toBind, late' = late,
             \A id \in 0..MaxReq : /\ ran[id].nwconn > 0 => ran'[id].nwconn > 0
                                   /\ ran[id].nwbind > 0 => ran'[id].nwbind > 0
                                   /\ ran[id].after > 0 => ran'[id].after > 0,
             NEW what \in {"done", "failed", "raw"}, NEW saved \in Nat \union {None},
             ncp_response(Seq8(r.id), r, what, saved),
             what = "failed" => ran'[r.id].nwbind > 0,
             what = "done" => ran'[r.id][Worker[r.kind]] > 0
      PROVE  AnswersInv'
  <2>1. /\ net \in Seq(Sent') /\ toBind \in Seq(Passed') /\ fromBind \in Seq(Served')
        /\ pipe \in Seq(GoodPacket')
        /\ nw.at \in {"got", "run"} => nw.msg \in GoodPacket'
        /\ toClient \in Seq(GoodAnswer') /\ nw.buf \in GoodAnswer'
        /\ \A id \in Ids : answer[id] # NoAnswer =>
             answer[id] \in GoodAnswer' /\ answer[id].req.id = id
    BY <1>5, <1>8, TravelStays
  <2>2. /\ toClient' \in Seq(GoodAnswer') /\ nw'.buf \in GoodAnswer' /\ nw'.at = "done"
        /\ nw' \in [at : {"read", "got", "run", "done"}, msg : Packet, last : Nat,
                    saved : Nat \union {None}, buf : AnAnswer, len : BOOLEAN]
        /\ nw'.msg = nw.msg /\ nw'.last = Seq8(r.id)
    BY <1>0, <1>3, <1>8, <2>1, ResponseIs
  <2>3. Travels' /\ Accepted'
    BY <1>0, <1>8, <2>1, <2>2 DEF Travels, Accepted
  <2>4. TypeOK'
    BY <1>0, <1>8, <2>2 DEF AnswersInv, TypeOK
  <2> QED BY <2>3, <2>4 DEF AnswersInv
<1>9. CASE NwconnBindReply
  <2>0. r \in Served /\ r \in Passed /\ ran[r.id].nwbind > 0 /\ r.kind \in {"bind", "after"}
    BY <1>1, <1>2, <1>3, <1>9 DEF NwconnBindReply, GoodPacket, Served, Passed, AllKinds
  <2>1. toBind' = toBind /\ late' = late /\ None \in Nat \union {None}
    BY <1>9 DEF NwconnBindReply
  <2>2. \/ ncp_response(Seq8(r.id), r, "done", None) /\ Ran(r.id, "after")
        \/ /\ ran' = ran
           /\ \E ok \in BOOLEAN : ncp_response(Seq8(r.id), r,
                 IF ~ok THEN "failed" ELSE IF r.kind = "after" THEN "raw" ELSE "done", None)
    BY <1>1, <1>9 DEF NwconnBindReply, ReplySequence
  <2>3. CASE ncp_response(Seq8(r.id), r, "done", None) /\ Ran(r.id, "after")
    <3>1. /\ ran' \in [0..MaxReq -> Counts]
          /\ \A i \in 0..MaxReq : /\ ran[i].nwconn > 0 => ran'[i].nwconn > 0
                                  /\ ran[i].nwbind > 0 => ran'[i].nwbind > 0
                                  /\ ran[i].after > 0 => ran'[i].after > 0
          /\ ran'[r.id]["after"] > 0
      BY <1>3, <2>3, RanIs DEF AnswersInv
    <3>2. ran'[r.id][Worker[r.kind]] > 0
      <4>1. CASE r.kind = "after"
        BY <4>1, <3>1 DEF Worker
      <4>2. CASE r.kind = "bind"
        BY <4>2, <3>1, <2>0, <1>3 DEF Worker
      <4> QED BY <4>1, <4>2, <2>0
    <3> QED BY <2>1, <2>3, <3>1, <3>2, <1>8
  <2>4. ASSUME ran' = ran, NEW what \in {"done", "failed", "raw"},
               what = "done" => r.kind = "bind", ncp_response(Seq8(r.id), r, what, None)
        PROVE  AnswersInv'
    <3>1. what = "done" => ran'[r.id][Worker[r.kind]] > 0
      BY <2>0, <2>4 DEF Worker
    <3>2. what = "failed" => ran'[r.id].nwbind > 0
      BY <2>0, <2>4
    <3> QED BY <1>6, <2>1, <2>4, <3>1, <3>2, <1>8
  <2>5. ASSUME ran' = ran, NEW ok \in BOOLEAN, ncp_response(Seq8(r.id), r,
                 IF ~ok THEN "failed" ELSE IF r.kind = "after" THEN "raw" ELSE "done", None)
        PROVE  AnswersInv'
    <3>1. PICK what : what = IF ~ok THEN "failed" ELSE IF r.kind = "after" THEN "raw" ELSE "done"
      OBVIOUS
    <3>2. what \in {"done", "failed", "raw"} /\ (what = "done" => r.kind = "bind")
      BY <3>1, <2>0
    <3>3. ncp_response(Seq8(r.id), r, what, None)
      BY <3>1, <2>5
    <3> QED BY <3>2, <3>3, <2>4, <2>5
  <2> QED BY <2>2, <2>3, <2>5
<1>10. CASE NwconnTimer
  <2>1. /\ ran' = ran /\ toBind' = toBind /\ toClient' = toClient /\ late' \in BOOLEAN
        /\ nw' = [nw EXCEPT !.at = "done", !.len = FALSE]
    BY <1>10 DEF NwconnTimer
  <2>2. nw'.at = "done" /\ nw'.buf = nw.buf
        /\ nw' \in [at : {"read", "got", "run", "done"}, msg : Packet, last : Nat,
                    saved : Nat \union {None}, buf : AnAnswer, len : BOOLEAN]
    BY <1>4, <2>1
  <2>3. toBind' \in Seq(Passed) /\ toClient' \in Seq(GoodAnswer)
    BY <2>1 DEF AnswersInv, Travels
  <2> QED BY <2>1, <2>2, <2>3, <1>7
<1>11. CASE NwconnRepeat
  <2>1. PICK a : a = IF nw.len THEN nw.buf ELSE [nw.buf EXCEPT !.what = "cut"]
    OBVIOUS
  <2>2. /\ ran' = ran /\ toBind' = toBind /\ late' = late
        /\ nw' = [nw EXCEPT !.at = "done"] /\ toClient' = Push(toClient, a)
    BY <1>11, <2>1 DEF NwconnRepeat
  <2>3. nw'.at = "done" /\ nw'.buf = nw.buf
        /\ nw' \in [at : {"read", "got", "run", "done"}, msg : Packet, last : Nat,
                    saved : Nat \union {None}, buf : AnAnswer, len : BOOLEAN]
    BY <1>4, <2>2
  <2>4. a \in GoodAnswer
    <3>1. PICK b : b = nw.buf
      OBVIOUS
    <3>2. b \in GoodAnswer /\ b \in AnAnswer
      BY <3>1 DEF AnswersInv, Travels, GoodAnswer
    <3>3. /\ [b EXCEPT !.what = "cut"] \in AnAnswer /\ [b EXCEPT !.what = "cut"].seq = b.seq
          /\ [b EXCEPT !.what = "cut"].req = b.req /\ [b EXCEPT !.what = "cut"].what = "cut"
      BY <3>2 DEF AnAnswer
    <3>4. [b EXCEPT !.what = "cut"] \in GoodAnswer
      BY <3>2, <3>3 DEF GoodAnswer
    <3> QED BY <2>1, <3>1, <3>2, <3>4
  <2>5. toClient' \in Seq(GoodAnswer)
    BY <2>2, <2>4, PushIs DEF AnswersInv, Travels
  <2>6. toBind' \in Seq(Passed) /\ late' \in BOOLEAN
    BY <2>2, <1>6 DEF AnswersInv, Travels
  <2> QED BY <2>2, <2>3, <2>5, <2>6, <1>7
<1>12. CASE NwconnLocal
  <2>1. /\ ncp_response(Seq8(r.id), r, "done", nw.saved) /\ Ran(r.id, "nwconn")
        /\ toBind' = toBind /\ late' = late /\ r.kind = "local"
    BY <1>1, <1>12 DEF NwconnLocal
  <2>2. /\ ran' \in [0..MaxReq -> Counts]
        /\ \A i \in 0..MaxReq : /\ ran[i].nwconn > 0 => ran'[i].nwconn > 0
                                /\ ran[i].nwbind > 0 => ran'[i].nwbind > 0
                                /\ ran[i].after > 0 => ran'[i].after > 0
        /\ ran'[r.id]["nwconn"] > 0
    BY <1>3, <2>1, RanIs DEF AnswersInv
  <2>3. ran'[r.id][Worker[r.kind]] > 0
    BY <2>1, <2>2 DEF Worker
  <2>4. nw.saved \in Nat \union {None}
    BY <1>4
  <2> QED BY <2>1, <2>2, <2>3, <2>4, <1>8
<1>13. CASE NwconnCallBind
  <2>1. PICK s : s = IF r.kind = "after" THEN Seq8(r.id) ELSE None
    OBVIOUS
  <2>2. s \in Nat \union {None}
    BY <2>1, <1>3, SeqNat
  <2>3. /\ ran' = ran /\ toBind' = Push(toBind, r) /\ toClient' = toClient /\ late' = late
        /\ nw' = [nw EXCEPT !.at = "done", !.len = FALSE, !.saved = s] /\ r.kind # "local"
    BY <1>1, <1>13, <2>1 DEF NwconnCallBind
  <2>4. nw'.at = "done" /\ nw'.buf = nw.buf
        /\ nw' \in [at : {"read", "got", "run", "done"}, msg : Packet, last : Nat,
                    saved : Nat \union {None}, buf : AnAnswer, len : BOOLEAN]
    BY <1>4, <2>2, <2>3
  <2>5. r \in Passed
    BY <1>3, <2>3 DEF Passed
  <2>6. toBind' \in Seq(Passed)
    BY <2>3, <2>5, PushIs DEF AnswersInv, Travels
  <2>7. toClient' \in Seq(GoodAnswer) /\ late' \in BOOLEAN
    BY <2>3, <1>6 DEF AnswersInv, Travels
  <2> QED BY <2>3, <2>4, <2>6, <2>7, <1>7
<1> QED BY <1>9, <1>10, <1>11, <1>12, <1>13 DEF NwconnHandle

(* nwbind carries out a request and answers it.                            *)
LEMMA AnswersBind ==
  ASSUME AnswersInv, BindServe
  PROVE  AnswersInv'
<1>1. PICK r : r = Head(toBind)
  OBVIOUS
<1>2. r \in Passed /\ Tail(toBind) \in Seq(Passed)
  BY <1>1, FirstIs DEF BindServe, AnswersInv, Travels
<1>3. r \in Req /\ r.id \in 0..MaxReq
  BY <1>2 DEF Passed, Sent, Req
<1>4. /\ cur' = cur /\ answer' = answer /\ net' = net /\ pipe' = pipe /\ nw' = nw
      /\ toClient' = toClient /\ busy' = busy /\ ticks' = ticks /\ sequence' = sequence
      /\ late' = late /\ toBind' = Tail(toBind) /\ fromBind' = Push(fromBind, r)
      /\ Ran(r.id, "nwbind")
  BY <1>1 DEF BindServe
<1>5. /\ ran' \in [0..MaxReq -> Counts]
      /\ \A i \in 0..MaxReq : /\ ran[i].nwconn > 0 => ran'[i].nwconn > 0
                              /\ ran[i].nwbind > 0 => ran'[i].nwbind > 0
                              /\ ran[i].after > 0 => ran'[i].after > 0
      /\ ran'[r.id]["nwbind"] > 0
  BY <1>3, <1>4, RanIs DEF AnswersInv
<1>6. cur'.id \in Nat /\ cur.id <= cur'.id
  BY <1>4, SessionConstants DEF AnswersInv, TypeOK, Req
<1>7. /\ net \in Seq(Sent') /\ toBind \in Seq(Passed') /\ fromBind \in Seq(Served')
      /\ pipe \in Seq(GoodPacket')
      /\ nw.at \in {"got", "run"} => nw.msg \in GoodPacket'
      /\ toClient \in Seq(GoodAnswer') /\ nw.buf \in GoodAnswer'
      /\ \A id \in Ids : answer[id] # NoAnswer =>
           answer[id] \in GoodAnswer' /\ answer[id].req.id = id
  BY <1>5, <1>6, TravelStays
<1>8. Passed' = Passed
  BY <1>4 DEF Passed, Sent
<1>9. r \in Served'
  BY <1>2, <1>5, <1>8 DEF Served
<1>10. fromBind' \in Seq(Served')
  <2>1. PICK S : S = Served'
    OBVIOUS
  <2>2. PICK q \in Seq(S) : q = fromBind
    BY <1>7, <2>1
  <2>3. Push(q, r) \in Seq(S)
    BY <1>9, <2>1, PushIs
  <2> QED BY <2>1, <2>2, <2>3, <1>4
<1>11. toBind' \in Seq(Passed')
  BY <1>2, <1>4, <1>8
<1>12. Travels' /\ Accepted'
  BY <1>4, <1>7, <1>10, <1>11 DEF Travels, Accepted
<1>13. TypeOK'
  BY <1>4, <1>5 DEF AnswersInv, TypeOK
<1> QED BY <1>12, <1>13 DEF AnswersInv

(* Every step keeps answers with their requests.                           *)
LEMMA AnswersNext ==
  ASSUME NoWrap
  PROVE  AnswersInv /\ [Next]_vars => AnswersInv'
<1> SUFFICES ASSUME AnswersInv, [Next]_vars PROVE AnswersInv'
  OBVIOUS
<1>1. CASE UNCHANGED vars
  BY <1>1, SameGood DEF vars, AnswersInv, TypeOK, Travels, Accepted
<1>2. CASE Client
  BY <1>2, AnswersClient
<1>3. CASE LoseRequest \/ LoseAnswer \/ Tick \/ Ncpserv
  BY <1>3, AnswersNcpserv
<1>4. CASE Nwconn
  BY <1>4, AnswersRead, AnswersHandle DEF Nwconn
<1>5. CASE BindServe
  BY <1>5, AnswersBind
<1> QED BY <1>1, <1>2, <1>3, <1>4, <1>5 DEF Next

(* A client takes for the answer of a request only an answer to it, of a   *)
(* server that has carried it out (nwconn's last_sequence, its buffered    *)
(* answer and saved_sequence; nwbind's answers), however packets are lost, *)
(* repeated, overtaken or merged in the pipe.                              *)
THEOREM AnswersBelong ==
  ASSUME NoWrap
  PROVE  Spec => []AnswerIsOwn
<1>1. Init => AnswersInv
  BY AnswersInit
<1>2. AnswersInv /\ [Next]_vars => AnswersInv'
  BY AnswersNext
<1>3. AnswersInv => AnswerIsOwn
  BY AnswersOwn
<1> QED BY <1>1, <1>2, <1>3, PTL DEF Spec

-----------------------------------------------------------------------------
(* A request runs once: as long as nwbind has carried out none, requests   *)
(* reach nwconn in the order they were sent, and the sequence of the last  *)
(* answer is the one of the last request carried out.                      *)

(* nwbind has carried out no request.                                      *)
NoneServed == \A id \in Ids : ran[id].nwbind = 0

(* The request in nwconn's hands, and what is in the pipe and the net      *)
(* behind it, come in the order of their numbers.                          *)
Handling == nw.at \in {"got", "run"}

InOrder ==
  /\ nw.last \in 0..cur.id
  /\ Handling => nw.last <= nw.msg.req.id
  /\ \A i \in 1..Len(pipe) :
       /\ nw.last <= pipe[i].req.id
       /\ Handling => nw.msg.req.id <= pipe[i].req.id
       /\ \A j \in 1..Len(net) : pipe[i].req.id <= net[j].id
  /\ \A j \in 1..Len(net) : nw.last <= net[j].id /\ (Handling => nw.msg.req.id <= net[j].id)
  /\ \A i, j \in 1..Len(pipe) : i <= j => pipe[i].req.id <= pipe[j].req.id
  /\ \A i, j \in 1..Len(net) : i <= j => net[i].id <= net[j].id

(* What nwconn has carried out, it has carried out once, and not after the *)
(* request it answered last.                                               *)
RanOnce ==
  \A id \in Ids : ran[id].nwconn <= 1 /\ (ran[id].nwconn > 0 => id <= nw.last)

OrderInv == AnswersInv /\ (NoneServed => InOrder /\ RanOnce)

(* No answer of nwbind is on its way then.                                 *)
LEMMA NoReplies ==
  ASSUME AnswersInv, NoneServed
  PROVE  /\ fromBind = <<>> /\ (Handling => ~nw.msg.reply)
         /\ \A i \in 1..Len(pipe) : ~pipe[i].reply
<1>1. Served = {}
  BY DEF Served, Passed, Sent, Req, NoneServed, Ids
<1>2. \A p \in GoodPacket : ~p.reply
  BY <1>1 DEF GoodPacket
<1>3. fromBind = <<>>
  <2>1. fromBind \in Seq({})
    BY <1>1 DEF AnswersInv, Travels
  <2> QED BY <2>1
<1>4. pipe \in Seq(GoodPacket)
  BY DEF AnswersInv, Travels
<1> QED BY <1>2, <1>3, <1>4 DEF AnswersInv, Travels, Handling

(* The numbers of the requests that travel.                                *)
LEMMA Numbers ==
  ASSUME AnswersInv
  PROVE  /\ cur.id \in Nat /\ cur.id <= MaxReq /\ nw.last \in Nat
         /\ Len(pipe) \in Nat /\ Len(net) \in Nat
         /\ \A i \in 1..Len(pipe) : pipe[i].req.id \in 1..cur.id
         /\ \A j \in 1..Len(net) : net[j].id \in 1..cur.id
         /\ Handling => nw.msg.req.id \in 1..cur.id
<1>1. cur.id \in 0..MaxReq /\ nw.last \in Nat /\ MaxReq \in Nat
  BY SessionConstants DEF AnswersInv, TypeOK, Req
<1>2. pipe \in Seq(GoodPacket) /\ net \in Seq(Sent)
  BY DEF AnswersInv, Travels
<1>3. \A p \in GoodPacket : p.req.id \in 1..cur.id
  BY DEF GoodPacket, Served, Passed, Sent
<1>4. Handling => nw.msg.req.id \in 1..cur.id
  BY <1>3 DEF AnswersInv, Travels, Handling
<1>5. \A i \in 1..Len(pipe) : pipe[i] \in GoodPacket
  BY <1>2
<1>6. \A j \in 1..Len(net) : net[j] \in Sent
  BY <1>2
<1> QED BY <1>1, <1>2, <1>3, <1>4, <1>5, <1>6 DEF Sent

(* Steps that carry out no request, answer none and take none up.          *)
LEMMA OrderSame ==
  ASSUME OrderInv, nw' = nw, pipe' = pipe, net' = net, cur' = cur, ran' = ran
  PROVE  NoneServed' => InOrder' /\ RanOnce'
  BY DEF OrderInv, NoneServed, InOrder, Handling, RanOnce

(* A request sent is the last of all.                                      *)
LEMMA OrderSend ==
  ASSUME OrderInv, nw' = nw, pipe' = pipe, ran' = ran,
         cur'.id \in Nat, cur.id <= cur'.id, net' = Append(net, cur')
  PROVE  NoneServed' => InOrder' /\ RanOnce'
<1> SUFFICES ASSUME NoneServed' PROVE InOrder' /\ RanOnce'
  OBVIOUS
<1>1. InOrder /\ RanOnce
  BY DEF OrderInv, NoneServed
<1>2. /\ cur.id \in Nat /\ cur.id <= MaxReq /\ nw.last \in Nat
      /\ Len(pipe) \in Nat /\ Len(net) \in Nat
      /\ \A i \in 1..Len(pipe) : pipe[i].req.id \in 1..cur.id
      /\ \A j \in 1..Len(net) : net[j].id \in 1..cur.id
      /\ Handling => nw.msg.req.id \in 1..cur.id
  BY Numbers DEF OrderInv
<1>3. net \in Seq(Sent)
  BY DEF OrderInv, AnswersInv, Travels
<1>4. /\ Len(net') = Len(net) + 1 /\ net'[Len(net) + 1] = cur'
      /\ \A j \in 1..Len(net) : net'[j] = net[j]
  BY <1>3
<1>5. \A j \in 1..Len(net') : j \in 1..Len(net) \/ j = Len(net) + 1
  BY <1>2, <1>4
<1>6. Handling' <=> Handling
  BY DEF Handling
<1>7. RanOnce'
  BY <1>1 DEF RanOnce
<1>8. nw'.last \in 0..cur'.id /\ (Handling' => nw'.last <= nw'.msg.req.id)
  BY <1>1, <1>2, <1>6 DEF InOrder
<1>9. \A i \in 1..Len(pipe') :
        /\ nw'.last <= pipe'[i].req.id
        /\ Handling' => nw'.msg.req.id <= pipe'[i].req.id
        /\ \A j \in 1..Len(net') : pipe'[i].req.id <= net'[j].id
  BY <1>1, <1>2, <1>4, <1>5, <1>6 DEF InOrder
<1>10. \A j \in 1..Len(net') :
         nw'.last <= net'[j].id /\ (Handling' => nw'.msg.req.id <= net'[j].id)
  BY <1>1, <1>2, <1>4, <1>5, <1>6 DEF InOrder
<1>11. \A i, j \in 1..Len(pipe') : i <= j => pipe'[i].req.id <= pipe'[j].req.id
  BY <1>1 DEF InOrder
<1>12. \A i, j \in 1..Len(net') : i <= j => net'[i].id <= net'[j].id
  <2> SUFFICES ASSUME NEW i \in 1..Len(net'), NEW j \in 1..Len(net'), i <= j
               PROVE  net'[i].id <= net'[j].id
    OBVIOUS
  <2>1. CASE j = Len(net) + 1
    BY <2>1, <1>2, <1>4, <1>5
  <2>2. CASE j \in 1..Len(net)
    <3>1. i \in 1..Len(net)
      BY <2>2, <1>2
    <3> QED BY <3>1, <2>2, <1>1, <1>4 DEF InOrder
  <2> QED BY <2>1, <2>2, <1>5
<1> QED BY <1>7, <1>8, <1>9, <1>10, <1>11, <1>12 DEF InOrder

(* ncpserv takes the first packet of the net, and puts it into the pipe or *)
(* not; or the packet is lost.                                             *)
LEMMA OrderServe ==
  ASSUME OrderInv, nw' = nw, cur' = cur, ran' = ran, net # <<>>, net' = Tail(net),
         \/ pipe' = pipe
         \/ pipe' = Append(pipe, [reply |-> FALSE, req |-> Head(net)])
  PROVE  NoneServed' => InOrder' /\ RanOnce'
<1> SUFFICES ASSUME NoneServed' PROVE InOrder' /\ RanOnce'
  OBVIOUS
<1>1. InOrder /\ RanOnce
  BY DEF OrderInv, NoneServed
<1>2. /\ cur.id \in Nat /\ cur.id <= MaxReq /\ nw.last \in Nat
      /\ Len(pipe) \in Nat /\ Len(net) \in Nat
      /\ \A i \in 1..Len(pipe) : pipe[i].req.id \in 1..cur.id
      /\ \A j \in 1..Len(net) : net[j].id \in 1..cur.id
      /\ Handling => nw.msg.req.id \in 1..cur.id
  BY Numbers DEF OrderInv
<1>3. net \in Seq(Sent) /\ pipe \in Seq(GoodPacket)
  BY DEF OrderInv, AnswersInv, Travels
<1>4. /\ Len(net') = Len(net) - 1 /\ Len(net) > 0 /\ Head(net) = net[1]
      /\ \A j \in 1..Len(net') : j + 1 \in 1..Len(net) /\ net'[j] = net[j + 1]
  BY <1>3
<1>5. Handling' <=> Handling
  BY DEF Handling
<1>6. PICK p : p = [reply |-> FALSE, req |-> net[1]]
  OBVIOUS
<1>7. p.req.id = net[1].id /\ 1 \in 1..Len(net)
  BY <1>2, <1>4, <1>6
<1>8. /\ Len(pipe') \in Nat /\ \A i \in 1..Len(pipe) : i \in 1..Len(pipe') /\ pipe'[i] = pipe[i]
      /\ \A i \in 1..Len(pipe') : i \in 1..Len(pipe) \/ (i = Len(pipe) + 1 /\ pipe'[i] = p)
  <2>1. CASE pipe' = pipe
    BY <2>1, <1>2
  <2>2. CASE pipe' = Append(pipe, p)
    BY <2>2, <1>3
  <2> QED BY <2>1, <2>2, <1>4, <1>6
<1>9. RanOnce'
  BY <1>1 DEF RanOnce
<1>10. nw'.last \in 0..cur'.id /\ (Handling' => nw'.last <= nw'.msg.req.id)
  BY <1>1, <1>5 DEF InOrder
<1>11. ASSUME NEW i \in 1..Len(pipe')
       PROVE  /\ nw'.last <= pipe'[i].req.id
              /\ Handling' => nw'.msg.req.id <= pipe'[i].req.id
              /\ \A j \in 1..Len(net') : pipe'[i].req.id <= net'[j].id
  <2>1. CASE i \in 1..Len(pipe)
    BY <2>1, <1>1, <1>4, <1>5, <1>8 DEF InOrder
  <2>2. CASE pipe'[i] = p
    <3>1. nw.last <= net[1].id /\ (Handling => nw.msg.req.id <= net[1].id)
      BY <1>1, <1>7 DEF InOrder
    <3>2. \A j \in 1..Len(net') : net[1].id <= net[j + 1].id
      BY <1>1, <1>4, <1>7 DEF InOrder
    <3> QED BY <2>2, <3>1, <3>2, <1>4, <1>5, <1>7
  <2> QED BY <2>1, <2>2, <1>8
<1>12. \A j \in 1..Len(net') :
         nw'.last <= net'[j].id /\ (Handling' => nw'.msg.req.id <= net'[j].id)
  BY <1>1, <1>4, <1>5 DEF InOrder
<1>13. \A i, j \in 1..Len(pipe') : i <= j => pipe'[i].req.id <= pipe'[j].req.id
  <2> SUFFICES ASSUME NEW i \in 1..Len(pipe'), NEW j \in 1..Len(pipe'), i <= j
               PROVE  pipe'[i].req.id <= pipe'[j].req.id
    OBVIOUS
  <2>1. CASE j \in 1..Len(pipe)
    <3>1. i \in 1..Len(pipe)
      BY <2>1, <1>2, <1>8
    <3> QED BY <3>1, <2>1, <1>1, <1>8 DEF InOrder
  <2>2. CASE j = Len(pipe) + 1 /\ pipe'[j] = p
    <3>1. CASE i \in 1..Len(pipe)
      BY <3>1, <2>2, <1>1, <1>7, <1>8 DEF InOrder
    <3>2. CASE i = Len(pipe) + 1 /\ pipe'[i] = p
      BY <3>2, <2>2, <1>2, <1>7
    <3> QED BY <3>1, <3>2, <1>8
  <2> QED BY <2>1, <2>2, <1>8
<1>14. \A i, j \in 1..Len(net') : i <= j => net'[i].id <= net'[j].id
  <2>1. \A i, j \in 1..Len(net) : i <= j => net[i].id <= net[j].id
    BY <1>1 DEF InOrder
  <2> SUFFICES ASSUME NEW i \in 1..Len(net'), NEW j \in 1..Len(net'), i <= j
               PROVE  net'[i].id <= net'[j].id
    OBVIOUS
  <2>2. i + 1 <= j + 1
    OBVIOUS
  <2> QED BY <2>1, <2>2, <1>4
<1> QED BY <1>9, <1>10, <1>11, <1>12, <1>13, <1>14 DEF InOrder

(* nwconn takes up the first packet of the pipe; those behind it are lost. *)
LEMMA OrderRead ==
  ASSUME OrderInv, NwconnRead \/ NwconnSetBusy \/ NwconnSetFree
  PROVE  NoneServed' => InOrder' /\ RanOnce'
<1> SUFFICES ASSUME NoneServed' PROVE InOrder' /\ RanOnce'
  OBVIOUS
<1>1. ran' = ran /\ cur' = cur /\ net' = net
  BY DEF NwconnRead, NwconnSetBusy, NwconnSetFree
<1>2. InOrder /\ RanOnce
  BY <1>1 DEF OrderInv, NoneServed
<1>3. nw \in [at : {"read", "got", "run", "done"}, msg : Packet, last : Nat,
             saved : Nat \union {None}, buf : AnAnswer, len : BOOLEAN]
  BY DEF OrderInv, AnswersInv, TypeOK
<1>4. pipe \in Seq(GoodPacket) /\ Len(pipe) \in Nat
  BY DEF OrderInv, AnswersInv, Travels
<1>5. CASE NwconnRead
  <2>1. nw'.last = nw.last /\ nw'.msg = pipe[1] /\ pipe' = <<>> /\ 1 \in 1..Len(pipe)
    BY <1>3, <1>4, <1>5 DEF NwconnRead
  <2>2. nw.last <= pipe[1].req.id /\ \A j \in 1..Len(net) : pipe[1].req.id <= net[j].id
    BY <1>2, <2>1 DEF InOrder
  <2>3. \A i : ~(i \in 1..Len(<<>>))
    OBVIOUS
  <2> QED BY <1>1, <1>2, <2>1, <2>2, <2>3 DEF InOrder, RanOnce
<1>6. CASE NwconnSetBusy \/ NwconnSetFree
  <2>1. nw'.last = nw.last /\ pipe' = pipe
    BY <1>3, <1>6 DEF NwconnSetBusy, NwconnSetFree
  <2>2. Handling' => Handling /\ nw'.msg = nw.msg
    BY <1>3, <1>6 DEF NwconnSetBusy, NwconnSetFree, Handling
  <2> QED BY <1>1, <1>2, <2>1, <2>2 DEF InOrder, RanOnce
<1> QED BY <1>5, <1>6

(* nwconn answers, repeats, drops or passes on what it holds.              *)
LEMMA OrderHandle ==
  ASSUME NoWrap, OrderInv, NwconnHandle
  PROVE  NoneServed' => InOrder' /\ RanOnce'
<1> SUFFICES ASSUME NoneServed' PROVE InOrder' /\ RanOnce'
  OBVIOUS
<1>1. PICK r : r = nw.msg.req
  OBVIOUS
<1>2. cur' = cur /\ net' = net /\ pipe' = pipe /\ nw.at = "run" /\ Handling
  BY DEF NwconnHandle, NwconnBindReply, NwconnTimer, NwconnRepeat, NwconnLocal,
         NwconnCallBind, Handling
<1>3. nw \in [at : {"read", "got", "run", "done"}, msg : Packet, last : Nat,
             saved : Nat \union {None}, buf : AnAnswer, len : BOOLEAN]
  BY DEF OrderInv, AnswersInv, TypeOK
<1>4. /\ cur.id \in Nat /\ cur.id <= MaxReq /\ nw.last \in Nat
      /\ Len(pipe) \in Nat /\ Len(net) \in Nat
      /\ \A i \in 1..Len(pipe) : pipe[i].req.id \in 1..cur.id
      /\ \A j \in 1..Len(net) : net[j].id \in 1..cur.id
      /\ nw.msg.req.id \in 1..cur.id
  BY <1>2, Numbers DEF OrderInv
<1>5. r.id \in 1..cur.id /\ r.id \in 0..MaxReq /\ r.id \in Ids /\ MaxReq \in Nat
  BY <1>1, <1>4, SessionConstants DEF Ids
<1>6. CASE NwconnTimer \/ NwconnRepeat \/ NwconnCallBind
  <2>1. ran' = ran
    BY <1>6 DEF NwconnTimer, NwconnRepeat, NwconnCallBind
  <2>2. nw'.at = "done" /\ nw'.last = nw.last
    <3>1. CASE NwconnTimer
      BY <3>1, <1>3 DEF NwconnTimer
    <3>2. CASE NwconnRepeat
      BY <3>2, <1>3 DEF NwconnRepeat
    <3>3. CASE NwconnCallBind
      <4>1. PICK s : nw' = [nw EXCEPT !.at = "done", !.len = FALSE, !.saved = s]
        BY <3>3 DEF NwconnCallBind
      <4> QED BY <4>1, <1>3
    <3> QED BY <1>6, <3>1, <3>2, <3>3
  <2>3. InOrder /\ RanOnce
    BY <2>1 DEF OrderInv, NoneServed
  <2>4. ~Handling'
    BY <2>2 DEF Handling
  <2> QED BY <1>2, <2>1, <2>2, <2>3, <2>4 DEF InOrder, RanOnce
<1>7. CASE NwconnLocal
  <2>1. /\ ncp_response(Seq8(r.id), r, "done", nw.saved) /\ Ran(r.id, "nwconn")
        /\ nw.last # Seq8(r.id)
    BY <1>1, <1>7 DEF NwconnLocal, IsRepeat
  <2>2. Seq8(r.id) = r.id
    BY <1>5, SeqIs
  <2>3. /\ \A i \in 0..MaxReq : i # r.id => ran'[i] = ran[i]
        /\ \A x \in {"nwconn", "nwbind", "after"} : x # "nwconn" => ran'[r.id][x] = ran[r.id][x]
        /\ ran'[r.id]["nwconn"] <= ran[r.id]["nwconn"] + 1
        /\ ran' \in [0..MaxReq -> Counts]
    BY <1>5, <2>1, RanIs DEF OrderInv, AnswersInv
  <2>4. \A id \in Ids : ran'[id].nwbind = ran[id].nwbind /\ id \in 0..MaxReq
    BY <1>5, <2>3 DEF Ids
  <2>5. InOrder /\ RanOnce
    BY <2>4 DEF OrderInv, NoneServed
  <2>6. nw.last <= r.id /\ nw.last < r.id
    BY <1>1, <1>2, <1>4, <1>5, <2>1, <2>2, <2>5 DEF InOrder
  <2>7. nw'.at = "done" /\ nw'.last = r.id
    BY <1>3, <2>1, <2>2 DEF ncp_response
  <2>8. ran[r.id].nwconn \in Nat /\ ran'[r.id].nwconn \in Nat
    BY <1>5, <2>3 DEF OrderInv, AnswersInv, TypeOK, Counts
  <2>9. ran[r.id].nwconn = 0
    BY <1>4, <1>5, <2>5, <2>6, <2>8 DEF RanOnce
  <2>10. RanOnce'
    <3> SUFFICES ASSUME NEW id \in Ids
                 PROVE  ran'[id].nwconn <= 1 /\ (ran'[id].nwconn > 0 => id <= nw'.last)
      BY DEF RanOnce
    <3>1. CASE id = r.id
      BY <3>1, <2>3, <2>7, <2>8, <2>9, <1>5
    <3>2. CASE id # r.id
      <4>1. ran'[id] = ran[id] /\ id \in Nat
        BY <3>2, <2>3, <2>4 DEF Ids
      <4> QED BY <4>1, <2>5, <2>6, <2>7, <1>4, <1>5 DEF RanOnce
    <3> QED BY <3>1, <3>2
  <2>11. ~Handling'
    BY <2>7 DEF Handling
  <2>12. InOrder'
    BY <1>1, <1>2, <1>5, <2>5, <2>7, <2>11, SMTT(30) DEF InOrder
  <2> QED BY <2>10, <2>12
<1>8. CASE NwconnBindReply
  <2>1. NoneServed
    <3>1. ran' = ran \/ Ran(r.id, "after")
      BY <1>1, <1>8 DEF NwconnBindReply
    <3>2. CASE ran' = ran
      BY <3>2 DEF NoneServed
    <3>3. CASE Ran(r.id, "after")
      <4>1. /\ \A i \in 0..MaxReq : i # r.id => ran'[i] = ran[i]
            /\ \A x \in {"nwconn", "nwbind", "after"} :
                 x # "after" => ran'[r.id][x] = ran[r.id][x]
        BY <1>5, <3>3, RanIs DEF OrderInv, AnswersInv
      <4>2. \A id \in Ids : ran'[id].nwbind = ran[id].nwbind
        BY <1>5, <4>1 DEF Ids
      <4> QED BY <4>2 DEF NoneServed
    <3> QED BY <3>1, <3>2, <3>3
  <2>2. ~nw.msg.reply
    BY <2>1, <1>2, NoReplies DEF OrderInv
  <2> QED BY <2>2, <1>8 DEF NwconnBindReply
<1> QED BY <1>6, <1>7, <1>8 DEF NwconnHandle

(* nwbind carries out a request: from here on the property says nothing.   *)
LEMMA OrderBind ==
  ASSUME OrderInv, BindServe
  PROVE  ~NoneServed'
<1>1. PICK r : r = Head(toBind)
  OBVIOUS
<1>2. r \in Passed
  BY <1>1, FirstIs DEF BindServe, OrderInv, AnswersInv, Travels
<1>3. r.id \in 0..MaxReq /\ r.id \in Ids
  BY <1>2, SessionConstants DEF Passed, Sent, Req, Ids
<1>4. Ran(r.id, "nwbind")
  BY <1>1 DEF BindServe
<1>5. ran'[r.id]["nwbind"] > 0
  BY <1>3, <1>4, RanIs DEF OrderInv, AnswersInv
<1> QED BY <1>3, <1>5 DEF NoneServed

(* At first nothing is under way and nothing was carried out.              *)
LEMMA OrderInit == Init => OrderInv
<1> SUFFICES ASSUME Init PROVE OrderInv
  OBVIOUS
<1>1. AnswersInv
  BY AnswersInit
<1>2. nw.last = 0 /\ nw.at = "read" /\ cur.id = 0 /\ Len(pipe) = 0 /\ Len(net) = 0
  BY DEF Init, NoRequest
<1>3. InOrder
  BY <1>2 DEF InOrder, Handling
<1>4. RanOnce
  BY SessionConstants DEF Init, RanOnce, Ids
<1> QED BY <1>1, <1>3, <1>4 DEF OrderInv

(* Every step keeps the order of the requests.                             *)
LEMMA OrderNext ==
  ASSUME NoWrap
  PROVE  OrderInv /\ [Next]_vars => OrderInv'
<1> SUFFICES ASSUME OrderInv, [Next]_vars PROVE OrderInv'
  OBVIOUS
<1>0. AnswersInv'
  BY AnswersNext DEF OrderInv
<1>i. cur.id \in Nat
  BY Numbers DEF OrderInv
<1>1. CASE UNCHANGED vars
  BY <1>1, <1>0, OrderSame DEF vars, OrderInv
<1>2. ASSUME NEW k \in Kinds, ClientSend(k) PROVE OrderInv'
  <2>1. cur'.id = cur.id + 1
    BY <1>2 DEF ClientSend
  <2> QED BY <2>1, <1>2, <1>0, <1>i, OrderSend DEF ClientSend, OrderInv
<1>3. CASE ClientRetry
  <2>1. net' = Append(net, cur') /\ cur' = cur /\ nw' = nw /\ pipe' = pipe /\ ran' = ran
    BY <1>3 DEF ClientRetry
  <2> QED BY <2>1, <1>0, <1>i, OrderSend DEF OrderInv
<1>4. CASE ClientReceive \/ ClientQuiet \/ LoseAnswer \/ Tick
  BY <1>4, <1>0, OrderSame DEF ClientReceive, ClientQuiet, LoseAnswer, Tick, vars, OrderInv
<1>5. CASE LoseRequest
  BY <1>5, <1>0, OrderServe DEF LoseRequest, OrderInv
<1>6. CASE ServeRequest
  BY <1>6, <1>0, OrderServe DEF ServeRequest, OrderInv
<1>7. CASE ServeBindReply
  <2>1. ran' = ran /\ fromBind # <<>>
    BY <1>7 DEF ServeBindReply
  <2>2. ~NoneServed
    BY <2>1, NoReplies DEF OrderInv
  <2>3. ~NoneServed'
    BY <2>1, <2>2 DEF NoneServed
  <2> QED BY <2>3, <1>0 DEF OrderInv
<1>8. CASE NwconnRead \/ NwconnSetBusy \/ NwconnSetFree
  BY <1>8, <1>0, OrderRead DEF OrderInv
<1>9. CASE NwconnHandle
  BY <1>9, <1>0, OrderHandle DEF OrderInv
<1>10. CASE BindServe
  BY <1>10, <1>0, OrderBind DEF OrderInv
<1> QED BY <1>1, <1>2, <1>3, <1>4, <1>5, <1>6, <1>7, <1>8, <1>9, <1>10
        DEF Next, Client, Ncpserv, Nwconn

(* A request that nwconn carries out itself is carried out once, however   *)
(* often it is repeated, as long as nwbind has carried out none: requests  *)
(* arrive in order, so the sequence of the last answer recognises every    *)
(* repetition (handle_ncp_serv, "send the same again").                    *)
THEOREM LocalOnce ==
  ASSUME NoWrap
  PROVE  Spec => []LocalOnceAlone
<1>1. Init => OrderInv
  BY OrderInit
<1>2. OrderInv /\ [Next]_vars => OrderInv'
  BY OrderNext
<1>3. OrderInv => LocalOnceAlone
  BY DEF OrderInv, NoneServed, RanOnce, LocalOnceAlone
<1> QED BY <1>1, <1>2, <1>3, PTL DEF Spec

-----------------------------------------------------------------------------
(* Names: what the tables hold                                              *)

Inodes == Ino \cup {Root}
Entries == [ino : Inodes, path : Path, locked : BOOLEAN, mark : BOOLEAN]
Slots == Entries \cup {Hole}
Tables == Seq(Slots)
DirsOf == {q \in Path : IsDir(q)}
Disks == [Ino -> DirsOf \cup {NoPath}]
Trees == [Path -> Inodes \cup {NoIno}]

(* A hole is not an entry.                                                   *)
LEMMA HoleIs == Hole \notin Entries
<1>1. SUFFICES ASSUME Hole \in Entries PROVE FALSE
  OBVIOUS
<1>2. DOMAIN Hole = {"hole"}
  BY DEF Hole
<1>3. "ino" \in DOMAIN Hole
  BY <1>1 DEF Entries
<1> QED BY <1>2, <1>3

(* Every set of natural numbers has a least one.                            *)
LEMMA LeastNumber ==
  ASSUME NEW S \in SUBSET Nat, S # {}
  PROVE  \E t \in S : \A u \in S : t <= u
<1>1. PICK t \in S : \A u \in S : <<u, t>> \notin OpToRel(<, Nat)
  BY NatLessThanWellFounded, WFMin
<1>2. \A u \in S : ~(u < t)
  BY <1>1 DEF OpToRel
<1> QED BY <1>2

(* Min is the least element.                                                *)
LEMMA MinIs ==
  ASSUME NEW S \in SUBSET Nat, S # {}
  PROVE  Min(S) \in S /\ \A u \in S : Min(S) <= u
  BY LeastNumber DEF Min

(* Max is the greatest element of a set of bounded numbers.                 *)
LEMMA MaxIs ==
  ASSUME NEW N \in Nat, NEW S \in SUBSET (0..N), S # {}
  PROVE  Max(S) \in S /\ \A u \in S : Max(S) >= u
<1> DEFINE R == {N - u : u \in S}
<1>1. R \in SUBSET Nat /\ R # {}
  <2>1. \A u \in 0..N : N - u \in Nat
    OBVIOUS
  <2>2. \A u \in S : N - u \in Nat
    BY <2>1
  <2>3. R \subseteq Nat
    BY <2>2
  <2>4. PICK u \in S : TRUE
    OBVIOUS
  <2>5. N - u \in R
    BY <2>4
  <2> QED BY <2>3, <2>5
<1>2. PICK t \in R : \A u \in R : t <= u
  <2> HIDE DEF R
  <2> QED BY <1>1, LeastNumber
<1>3. PICK m \in S : t = N - m
  BY <1>2
<1>4. \A u \in S : m >= u
  <2>1. ASSUME NEW u \in S PROVE m >= u
    <3>1. N - u \in R
      OBVIOUS
    <3>2. N - m <= N - u
      BY <1>2, <1>3, <3>1
    <3>3. u \in 0..N /\ m \in 0..N
      BY <1>3
    <3> QED BY <3>2, <3>3
  <2> QED BY <2>1
<1> QED BY <1>3, <1>4 DEF Max

(* Trim gives up the holes at the end.                                       *)
LEMMA TrimIs ==
  ASSUME NEW T \in Tables
  PROVE  /\ Trim(T) \in Tables /\ Len(Trim(T)) <= Len(T)
         /\ \A k \in DOMAIN Trim(T) : k \in DOMAIN T /\ Trim(T)[k] = T[k]
         /\ \A k \in DOMAIN T : T[k] # Hole => k \in DOMAIN Trim(T)
<1> DEFINE used == {i \in DOMAIN T : T[i] # Hole}
<1>1. CASE used = {}
  <2>1. Trim(T) = << >>
    BY <1>1 DEF Trim
  <2> QED BY <1>1, <2>1 DEF Tables
<1>2. CASE used # {}
  <2>1. Len(T) \in Nat /\ DOMAIN T = 1..Len(T) /\ used \in SUBSET (0..Len(T))
    BY DEF Tables
  <2> HIDE DEF used
  <2>2. PICK m : m = Max(used)
    OBVIOUS
  <2>3. m \in used /\ \A u \in used : m >= u
    BY <1>2, <2>1, <2>2, MaxIs
  <2>4. Trim(T) = SubSeq(T, 1, m)
    BY <1>2, <2>2 DEF Trim, used
  <2>5. m \in 1..Len(T) /\ m \in Nat
    BY <2>1, <2>3 DEF used
  <2>6. /\ SubSeq(T, 1, m) \in Seq(Slots) /\ Len(SubSeq(T, 1, m)) = m
        /\ \A k \in 1..m : SubSeq(T, 1, m)[k] = T[k]
    BY <2>5 DEF Tables
  <2>7. \A k \in DOMAIN T : T[k] # Hole => k \in 1..m
    BY <2>1, <2>3, <2>5 DEF used
  <2> QED BY <2>1, <2>4, <2>5, <2>6, <2>7 DEF Tables
<1> QED BY <1>1, <1>2

(* A table with one slot changed.                                            *)
LEMMA SlotSet ==
  ASSUME NEW T \in Tables, NEW i \in DOMAIN T, NEW e \in Slots
  PROVE  /\ [T EXCEPT ![i] = e] \in Tables /\ DOMAIN [T EXCEPT ![i] = e] = DOMAIN T
         /\ Len([T EXCEPT ![i] = e]) = Len(T)
         /\ [T EXCEPT ![i] = e][i] = e
         /\ \A k \in DOMAIN T : k # i => [T EXCEPT ![i] = e][k] = T[k]
  BY DEF Tables

(* A slot that is freed: nothing else is lost.                               *)
LEMMA FreeIs ==
  ASSUME NEW T \in Tables, NEW i \in DOMAIN T
  PROVE  LET R == FreeSlot(T, i) IN
         /\ R \in Tables /\ Len(R) <= Len(T)
         /\ \A k \in DOMAIN R : k \in DOMAIN T /\ (R[k] # Hole => k # i /\ R[k] = T[k])
         /\ \A k \in DOMAIN T : k # i /\ T[k] # Hole => k \in DOMAIN R /\ R[k] = T[k]
<1>1. PICK U : U = [T EXCEPT ![i] = Hole]
  OBVIOUS
<1>2. /\ U \in Tables /\ DOMAIN U = DOMAIN T /\ Len(U) = Len(T) /\ U[i] = Hole
      /\ \A k \in DOMAIN T : k # i => U[k] = T[k]
  BY <1>1, SlotSet DEF Slots
<1>3. FreeSlot(T, i) = Trim(U)
  BY <1>1 DEF FreeSlot
<1>4. /\ Trim(U) \in Tables /\ Len(Trim(U)) <= Len(U)
      /\ \A k \in DOMAIN Trim(U) : k \in DOMAIN U /\ Trim(U)[k] = U[k]
      /\ \A k \in DOMAIN U : U[k] # Hole => k \in DOMAIN Trim(U)
  BY <1>2, TrimIs
<1> QED BY <1>2, <1>3, <1>4

(* What downsort_dbe_entries makes of a table: the new entry, if it is one,  *)
(* is in its slot, and everything else was in another one.                   *)
Sorted(r, T, D, i, new) ==
  /\ r.tab \in Tables /\ Len(r.tab) <= Len(T) /\ r.disk = D
  /\ r.slot \in 1..i /\ (new # Hole => r.slot \in DOMAIN r.tab /\ r.tab[r.slot] = new)
  /\ \A k \in DOMAIN r.tab :
       r.tab[k] # Hole => r.tab[k] = new \/ \E j \in DOMAIN T : j # i /\ r.tab[k] = T[j]

(* The sort of downsort_dbe_entries.                                         *)
LEMMA DownsortIs ==
  ASSUME NEW T \in Tables, NEW D, NEW i \in DOMAIN T, NEW new \in Slots
  PROVE  Sorted(Downsort(T, D, i, new), T, D, i, new)
<1>1. PICK move : move = Movable(T, i)
  OBVIOUS
<1>2. /\ Len(T) \in Nat /\ DOMAIN T = 1..Len(T) /\ i \in 1..Len(T)
      /\ \A k \in DOMAIN T : T[k] \in Slots
  BY DEF Tables
<1>3. move \subseteq 1..(i - 1)
  BY <1>1 DEF Movable
<1>23. \A j \in move : j \in Nat /\ 1 <= j /\ j < i /\ j \in DOMAIN T /\ j # i
  <2>1. \A j \in 1..(i - 1) : j \in Nat /\ 1 <= j /\ j < i /\ j \in DOMAIN T /\ j # i
    BY <1>2
  <2> QED BY <1>3, <2>1
<1> DEFINE V(k) == IF k # i /\ k \notin move THEN T[k]
                   ELSE IF \A j \in move : j >= k THEN new
                   ELSE T[Max({j \in move : j < k})]
<1>5. ASSUME NEW k \in DOMAIN T
      PROVE  V(k) = new \/ \E j \in DOMAIN T : j # i /\ V(k) = T[j]
  <2>1. CASE k # i /\ k \notin move
    BY <2>1
  <2>2. CASE ~(k # i /\ k \notin move) /\ \A j \in move : j >= k
    BY <2>2
  <2>3. CASE ~(k # i /\ k \notin move) /\ ~(\A j \in move : j >= k)
    <3>1. PICK B : B = {j \in move : j < k}
      OBVIOUS
    <3>2. PICK j \in move : ~(j >= k)
      BY <2>3
    <3>3. j \in B
      <4>1. j < k
        BY <1>2, <1>23, <3>2
      <4> QED BY <3>1, <3>2, <4>1
    <3>4. B \in SUBSET (0..Len(T))
      <4>1. \A u \in DOMAIN T : u \in 0..Len(T)
        BY <1>2
      <4> QED BY <1>23, <3>1, <4>1
    <3>5. Max(B) \in B
      BY <1>2, <3>3, <3>4, MaxIs
    <3>6. Max(B) \in DOMAIN T /\ Max(B) # i
      BY <1>23, <3>1, <3>5
    <3>7. V(k) = T[Max(B)]
      BY <2>3, <3>1
    <3> QED BY <3>6, <3>7
  <2> QED BY <2>1, <2>2, <2>3
<1> DEFINE U == [k \in DOMAIN T |-> V(k)]
<1>6. U = [k \in DOMAIN T |-> IF k # i /\ k \notin move THEN T[k]
                              ELSE IF \A j \in move : j >= k THEN new
                              ELSE T[Max({j \in move : j < k})]]
  OBVIOUS
<1>7. Shifted(T, i, new, move) = Trim(U)
  BY <1>6 DEF Shifted
<1>8. \A k \in DOMAIN T : U[k] = V(k)
  OBVIOUS
<1>9. PICK m : m = Min({i} \cup move)
  OBVIOUS
<1>10. m \in {i} \cup move /\ \A j \in {i} \cup move : m <= j
  <2>1. {i} \cup move \in SUBSET Nat
    BY <1>2, <1>23
  <2>2. {i} \cup move # {}
    OBVIOUS
  <2> QED BY <1>9, <2>1, <2>2, MinIs
<1>11. m \in 1..i /\ m \in DOMAIN T
  <2>1. CASE m = i
    BY <1>2, <2>1
  <2>2. CASE m \in move
    BY <1>2, <1>23, <2>2
  <2> QED BY <1>10, <2>1, <2>2
<1>12. V(m) = new
  <2>1. \A j \in move : j >= m
    <3>1. ASSUME NEW j \in move PROVE j >= m
      <4>1. m <= j
        BY <1>10
      <4> QED BY <1>11, <1>23, <4>1
    <3> QED BY <3>1
  <2> QED BY <1>10, <2>1
<1>13. DOMAIN U = DOMAIN T
  OBVIOUS
<1>14. U \in Tables /\ Len(U) = Len(T)
  <2>1. \A k \in DOMAIN T : V(k) \in Slots
    BY <1>2, <1>5
  <2>2. U \in [1..Len(T) -> Slots]
    <3> HIDE DEF V
    <3> QED BY <1>2, <2>1
  <2> HIDE DEF U
  <2> QED BY <1>2, <2>2 DEF Tables
<1>15. U[m] = new
  BY <1>8, <1>11, <1>12
<1>16. \A k \in DOMAIN T : U[k] = new \/ \E j \in DOMAIN T : j # i /\ U[k] = T[j]
  BY <1>5, <1>8
<1> HIDE DEF U, V
<1>17. /\ Trim(U) \in Tables /\ Len(Trim(U)) <= Len(U)
       /\ \A k \in DOMAIN Trim(U) : k \in DOMAIN U /\ Trim(U)[k] = U[k]
       /\ \A k \in DOMAIN U : U[k] # Hole => k \in DOMAIN Trim(U)
  BY <1>14, TrimIs
<1>18. PICK r : r = Downsort(T, D, i, new)
  OBVIOUS
<1>19. r.tab = Trim(U) /\ r.disk = D /\ r.slot = m
  BY <1>1, <1>7, <1>9, <1>18 DEF Downsort
<1>20. new # Hole => m \in DOMAIN Trim(U) /\ Trim(U)[m] = new
  BY <1>11, <1>13, <1>15, <1>17
<1>21. \A k \in DOMAIN r.tab : r.tab[k] = new \/ \E j \in DOMAIN T : j # i /\ r.tab[k] = T[j]
  BY <1>13, <1>16, <1>17, <1>19
<1>22. Sorted(r, T, D, i, new)
  BY <1>11, <1>14, <1>17, <1>19, <1>20, <1>21 DEF Sorted
<1> QED BY <1>18, <1>22

(* A table, or the links on disk, after an entry has been put in place: new  *)
(* is in its slot, the other entries were there, and the only links written  *)
(* are those of directories of the table.                                    *)
Obtained(r, T, D, new) ==
  /\ r.tab \in Tables /\ r.slot \in DOMAIN r.tab /\ r.tab[r.slot] = new
  /\ Len(T) <= MaxBase => Len(r.tab) <= MaxBase
  /\ \A k \in DOMAIN r.tab :
       r.tab[k] # Hole => r.tab[k] = new \/ \E j \in DOMAIN T : r.tab[k] = T[j]
  /\ r.disk \in Disks
  /\ \A x \in Ino : \/ r.disk[x] = D[x]
                    \/ \E j \in DOMAIN T : /\ T[j] # Hole /\ IsDir(T[j].path)
                                           /\ T[j].ino = x /\ r.disk[x] = T[j].path

(* The same, when what is put in place may be nothing at all.                *)
Taken(r, T, D, new) ==
  /\ r.tab \in Tables /\ (new # Hole => r.slot \in DOMAIN r.tab /\ r.tab[r.slot] = new)
  /\ Len(T) <= MaxBase => Len(r.tab) <= MaxBase
  /\ \A k \in DOMAIN r.tab :
       r.tab[k] # Hole => r.tab[k] = new \/ \E j \in DOMAIN T : r.tab[k] = T[j]
  /\ r.disk \in Disks
  /\ \A x \in Ino : \/ r.disk[x] = D[x]
                    \/ \E j \in DOMAIN T : /\ T[j] # Hole /\ IsDir(T[j].path)
                                           /\ T[j].ino = x /\ r.disk[x] = T[j].path

(* An entry that is used.                                                    *)
LEMMA TouchIs ==
  ASSUME NEW T \in Tables, NEW D \in Disks, NEW i \in DOMAIN T, T[i] \in Entries
  PROVE  Obtained(Touch(T, D, i), T, D, T[i])
<1>1. PICK r : r = Touch(T, D, i)
  OBVIOUS
<1>2. Len(T) \in Nat /\ MaxBase \in Nat /\ DOMAIN T = 1..Len(T)
  BY NamesConstants DEF Tables
<1>3. CASE i - 1 > TouchFrom
  <2>1. r = Downsort(T, D, i, T[i])
    BY <1>1, <1>3 DEF Touch
  <2>2. Sorted(r, T, D, i, T[i])
    BY <2>1, DownsortIs DEF Slots
  <2>3. Len(r.tab) \in Nat
    BY <2>2 DEF Sorted, Tables
  <2> QED BY <1>1, <1>2, <2>2, <2>3, HoleIs DEF Sorted, Obtained
<1>4. CASE ~(i - 1 > TouchFrom)
  <2>1. r.tab = T /\ r.disk = D /\ r.slot = i
    BY <1>1, <1>4 DEF Touch
  <2> QED BY <1>1, <1>2, <2>1 DEF Obtained
<1> QED BY <1>3, <1>4

(* allocate_dbe_p finds a slot of the table, or the one behind its end.      *)
LEMMA NewSlotIs ==
  ASSUME NEW T \in Tables
  PROVE  /\ NewSlot(T) \in 1..(Len(T) + 1)
         /\ NewSlot(T) = Len(T) + 1 => Len(T) < MaxBase
         /\ Holes(T) # {} => NewSlot(T) \in Holes(T)
         /\ Holes(T) = {} /\ Len(T) >= MaxBase => NewSlot(T) = Victim(T)
<1>1. /\ Len(T) \in Nat /\ MaxBase \in Nat /\ MaxBase > 0 /\ DOMAIN T = 1..Len(T)
      /\ FileFrom \in Nat
  BY NamesConstants DEF Tables
<1>2. CASE Holes(T) # {}
  <2>1. Holes(T) \in SUBSET Nat /\ Holes(T) \subseteq DOMAIN T
    BY <1>1 DEF Holes
  <2>2. Min(Holes(T)) \in Holes(T)
    BY <1>2, <2>1, MinIs
  <2>3. NewSlot(T) \in Holes(T) /\ NewSlot(T) \in 1..Len(T)
    BY <1>1, <1>2, <2>1, <2>2 DEF NewSlot
  <2> QED BY <1>1, <1>2, <2>3
<1>3. CASE Holes(T) = {} /\ Len(T) < MaxBase
  BY <1>1, <1>3 DEF NewSlot
<1>4. CASE Holes(T) = {} /\ ~(Len(T) < MaxBase)
  <2>1. NewSlot(T) = Victim(T)
    BY <1>4 DEF NewSlot
  <2>2. Len(T) > 0 /\ Len(T) >= MaxBase
    BY <1>1, <1>4
  <2>3. Files(T) \subseteq Unlocked(T) /\ Unlocked(T) \subseteq DOMAIN T
    BY DEF Files, Unlocked
  <2>4. DOMAIN T \subseteq 0..Len(T)
    BY <1>1
  <2>5. Files(T) # {} => Max(Files(T)) \in DOMAIN T
    BY <1>1, <2>3, <2>4, MaxIs
  <2>6. Unlocked(T) # {} => Max(Unlocked(T)) \in DOMAIN T
    BY <1>1, <2>3, <2>4, MaxIs
  <2>7. 1 \in DOMAIN T
    BY <1>1, <2>2
  <2>8. Victim(T) \in DOMAIN T
    BY <2>5, <2>6, <2>7 DEF Victim
  <2>9. Victim(T) \in 1..(Len(T) + 1) /\ Victim(T) # Len(T) + 1
    BY <1>1, <2>8
  <2> QED BY <1>1, <1>4, <2>1, <2>2, <2>9
<1> QED BY <1>2, <1>3, <1>4

(* What put_dbe_to_disk writes.                                              *)
LEMMA PutIs ==
  ASSUME NEW D \in Disks, NEW e \in Entries
  PROVE  /\ PutToDisk(D, e) \in Disks
         /\ \A x \in Ino : \/ PutToDisk(D, e)[x] = D[x]
                           \/ IsDir(e.path) /\ e.ino = x /\ PutToDisk(D, e)[x] = e.path
<1>1. e.path \in Path
  BY DEF Entries
<1>2. CASE IsDir(e.path) /\ e.ino \in Ino
  <2>1. PutToDisk(D, e) = [D EXCEPT ![e.ino] = e.path]
    BY <1>2 DEF PutToDisk
  <2> QED BY <1>1, <1>2, <2>1 DEF Disks, DirsOf
<1>3. CASE ~(IsDir(e.path) /\ e.ino \in Ino)
  BY <1>3 DEF PutToDisk
<1> QED BY <1>2, <1>3

(* An entry that is made: in a hole, at the end, or in place of another one. *)
LEMMA AllocateTakes ==
  ASSUME NEW T \in Tables, NEW D \in Disks, NEW new \in Slots
  PROVE  Taken(Allocate(T, D, new), T, D, new)
<1>1. PICK j : j = NewSlot(T)
  OBVIOUS
<1>2. /\ Len(T) \in Nat /\ MaxBase \in Nat /\ DOMAIN T = 1..Len(T)
      /\ \A k \in DOMAIN T : T[k] \in Slots
  BY NamesConstants DEF Tables
<1>3. j \in 1..(Len(T) + 1) /\ (j = Len(T) + 1 => Len(T) < MaxBase)
  BY <1>1, NewSlotIs
<1>4. PICK r : r = Allocate(T, D, new)
  OBVIOUS
<1>5. r = AllocateAt(T, D, new, j)
  BY <1>1, <1>4 DEF Allocate
<1>6. CASE j > Len(T)
  <2>1. PICK U : U = Append(T, Hole)
    OBVIOUS
  <2>2. /\ U \in Seq(Slots) /\ Len(U) = Len(T) + 1 /\ U[Len(T) + 1] = Hole
        /\ \A k \in 1..Len(T) : U[k] = T[k]
    BY <2>1 DEF Tables, Slots
  <2>3. j = Len(T) + 1 /\ j \in DOMAIN U /\ DOMAIN U = 1..(Len(T) + 1)
    BY <1>2, <1>3, <1>6, <2>2
  <2>4. r = Downsort(U, D, j, new)
    BY <1>5, <1>6, <2>1 DEF AllocateAt
  <2>5. Sorted(r, U, D, j, new)
    BY <2>2, <2>3, <2>4, DownsortIs DEF Tables
  <2>6. \A k \in DOMAIN U : k # j => k \in DOMAIN T /\ U[k] = T[k]
    BY <1>2, <2>2, <2>3
  <2>7. Len(r.tab) <= MaxBase
    <3>1. Len(r.tab) \in Nat /\ Len(r.tab) <= Len(T) + 1
      BY <2>2, <2>5 DEF Sorted, Tables
    <3> QED BY <1>2, <1>3, <2>3, <3>1
  <2> QED BY <1>4, <2>5, <2>6, <2>7 DEF Sorted, Taken
<1>7. CASE ~(j > Len(T))
  <2>1. j \in DOMAIN T
    BY <1>2, <1>3, <1>7
  <2>2. PICK E : E = IF T[j] = Hole THEN D ELSE PutToDisk(D, T[j])
    OBVIOUS
  <2>3. r = Downsort(T, E, j, new)
    BY <1>5, <1>7, <2>2 DEF AllocateAt
  <2>4. Sorted(r, T, E, j, new)
    BY <2>1, <2>3, DownsortIs
  <2>5. /\ E \in Disks
        /\ \A x \in Ino : \/ E[x] = D[x]
                          \/ /\ T[j] # Hole /\ IsDir(T[j].path)
                             /\ T[j].ino = x /\ E[x] = T[j].path
    <3>1. CASE T[j] = Hole
      BY <2>2, <3>1
    <3>2. CASE T[j] # Hole
      <4>1. T[j] \in Entries
        BY <1>2, <2>1, <3>2 DEF Slots
      <4>2. E = PutToDisk(D, T[j])
        BY <2>2, <3>2
      <4> QED BY <3>2, <4>1, <4>2, PutIs
    <3> QED BY <3>1, <3>2
  <2>6. Len(r.tab) \in Nat
    BY <2>4 DEF Sorted, Tables
  <2> QED BY <1>2, <1>4, <2>1, <2>4, <2>5, <2>6 DEF Sorted, Taken
<1> QED BY <1>6, <1>7

(* A new entry is in the slot that was taken for it.                         *)
LEMMA AllocateIs ==
  ASSUME NEW T \in Tables, NEW D \in Disks, NEW new \in Entries
  PROVE  Obtained(Allocate(T, D, new), T, D, new)
<1>1. new \in Slots /\ new # Hole
  BY HoleIs DEF Slots
<1>2. Taken(Allocate(T, D, new), T, D, new)
  BY <1>1, AllocateTakes
<1> QED BY <1>1, <1>2 DEF Taken, Obtained

-----------------------------------------------------------------------------
(* Names: which entries and links there may be                              *)

(* All entries of a table, and all links, are pairs of inode and path of a  *)
(* given set.                                                                *)
Within(T, G) == \A k \in DOMAIN T : T[k] # Hole => <<T[k].ino, T[k].path>> \in G
Links(D, H) == \A x \in Ino : D[x] # NoPath => <<x, D[x]>> \in H

(* What may be in a table may be linked, if it is a directory.               *)
Linkable(G, H) == \A x \in Inodes, q \in Path : <<x, q>> \in G /\ IsDir(q) => <<x, q>> \in H

(* What is on the volume may be in the table.                                *)
Present(G) == \A q \in Path : at[q] # NoIno => <<at[q], q>> \in G

Fits(r, G, H) ==
  /\ r.tab \in Tables /\ r.disk \in Disks /\ Within(r.tab, G) /\ Links(r.disk, H)
  /\ r.slot # 0 => r.slot \in DOMAIN r.tab /\ r.tab[r.slot] \in Entries

(* What was taken fits, if the pair of the new entry does.                   *)
LEMMA TakenFits ==
  ASSUME NEW G, NEW H, Linkable(G, H),
         NEW T \in Tables, Within(T, G), NEW D \in Disks, Links(D, H),
         NEW new, new # Hole => <<new.ino, new.path>> \in G,
         NEW r, Taken(r, T, D, new)
  PROVE  Within(r.tab, G) /\ Links(r.disk, H)
<1>1. ASSUME NEW k \in DOMAIN r.tab, r.tab[k] # Hole
      PROVE  <<r.tab[k].ino, r.tab[k].path>> \in G
  <2>1. r.tab[k] = new \/ \E j \in DOMAIN T : r.tab[k] = T[j]
    BY <1>1 DEF Taken
  <2>2. CASE r.tab[k] = new
    BY <1>1, <2>2
  <2>3. CASE \E j \in DOMAIN T : r.tab[k] = T[j]
    <3>1. PICK j \in DOMAIN T : r.tab[k] = T[j]
      BY <2>3
    <3>2. PICK e : e = T[j]
      OBVIOUS
    <3>3. <<e.ino, e.path>> \in G
      BY <1>1, <3>1, <3>2 DEF Within
    <3> QED BY <3>1, <3>2, <3>3
  <2> QED BY <2>1, <2>2, <2>3
<1>2. ASSUME NEW x \in Ino, r.disk[x] # NoPath
      PROVE  <<x, r.disk[x]>> \in H
  <2>1. \/ r.disk[x] = D[x]
        \/ \E j \in DOMAIN T : /\ T[j] # Hole /\ IsDir(T[j].path)
                               /\ T[j].ino = x /\ r.disk[x] = T[j].path
    BY DEF Taken
  <2>2. CASE r.disk[x] = D[x]
    BY <1>2, <2>2 DEF Links
  <2>3. CASE \E j \in DOMAIN T : /\ T[j] # Hole /\ IsDir(T[j].path)
                                 /\ T[j].ino = x /\ r.disk[x] = T[j].path
    <3>1. PICK j \in DOMAIN T : /\ T[j] # Hole /\ IsDir(T[j].path)
                                /\ T[j].ino = x /\ r.disk[x] = T[j].path
      BY <2>3
    <3>2. T[j] \in Entries
      BY <3>1 DEF Tables, Slots
    <3>3. T[j].path \in Path /\ x \in Inodes
      BY <3>2 DEF Entries, Inodes
    <3>4. <<x, T[j].path>> \in G
      BY <3>1 DEF Within
    <3>5. <<x, T[j].path>> \in H
      BY <3>1, <3>3, <3>4 DEF Linkable
    <3> QED BY <3>1, <3>5
  <2> QED BY <2>1, <2>2, <2>3
<1> QED BY <1>1, <1>2 DEF Within, Links

(* What was put in place fits, if its pair does.                             *)
LEMMA ObtainedFits ==
  ASSUME NEW G, NEW H, Linkable(G, H),
         NEW T \in Tables, Within(T, G), NEW D \in Disks, Links(D, H),
         NEW new \in Entries, <<new.ino, new.path>> \in G,
         NEW r, Obtained(r, T, D, new)
  PROVE  Fits(r, G, H) /\ r.slot # 0
<1>1. r.tab \in Tables /\ r.slot \in DOMAIN r.tab /\ r.tab[r.slot] = new /\ r.disk \in Disks
  BY DEF Obtained
<1>2. r.slot # 0
  BY <1>1 DEF Tables
<1>3. Taken(r, T, D, new)
  BY DEF Obtained, Taken
<1>4. Within(r.tab, G) /\ Links(r.disk, H)
  BY <1>3, TakenFits
<1> QED BY <1>1, <1>2, <1>4 DEF Fits

(* A table without one entry.                                                *)
LEMMA FreeFits ==
  ASSUME NEW G, NEW T \in Tables, Within(T, G), NEW i \in DOMAIN T
  PROVE  FreeSlot(T, i) \in Tables /\ Within(FreeSlot(T, i), G)
<1>1. PICK R : R = FreeSlot(T, i)
  OBVIOUS
<1>2. R \in Tables /\ \A k \in DOMAIN R : k \in DOMAIN T /\ (R[k] # Hole => k # i /\ R[k] = T[k])
  BY <1>1, FreeIs
<1> QED BY <1>1, <1>2 DEF Within

(* The entries of an inode.                                                  *)
LEMMA OfIs ==
  ASSUME NEW T \in Tables, NEW x, Of(T, x) # {}
  PROVE  /\ Min(Of(T, x)) \in DOMAIN T /\ T[Min(Of(T, x))] \in Entries
         /\ T[Min(Of(T, x))] # Hole /\ T[Min(Of(T, x))].ino = x
<1>1. Of(T, x) \in SUBSET Nat /\ Of(T, x) \subseteq DOMAIN T
  BY DEF Of, Tables
<1>2. Min(Of(T, x)) \in Of(T, x)
  BY <1>1, MinIs
<1>3. Min(Of(T, x)) \in DOMAIN T /\ T[Min(Of(T, x))] # Hole /\ T[Min(Of(T, x))].ino = x
  BY <1>2 DEF Of
<1> QED BY <1>3 DEF Tables, Slots

(* A path the calls of namspace.c work with: something is there.             *)
There(q) == q \in Path /\ at[q] # NoIno

(* find_base_entry with an entry of the table.                               *)
LEMMA FoundIs ==
  ASSUME at \in Trees, NEW G, NEW H, Linkable(G, H), Present(G),
         NEW T \in Tables, Within(T, G), NEW D \in Disks, Links(D, H),
         NEW i \in DOMAIN T, T[i] \in Entries
  PROVE  LET r == Found(T, D, i, at[T[i].path]) IN
         /\ Fits(r, G, H)
         /\ r.slot # 0 => There(T[i].path) /\ PathOf(r) = T[i].path
<1>1. PICK e \in Entries : e = T[i]
  OBVIOUS
<1>2. PICK now : now = at[e.path]
  OBVIOUS
<1>3. PICK r : r = Found(T, D, i, now)
  OBVIOUS
<1>4. e.path \in Path /\ now \in Inodes \cup {NoIno}
  BY <1>2 DEF Entries, Trees
<1>5. CASE now = NoIno
  <2>1. r.tab = FreeSlot(T, i) /\ r.disk = D /\ r.slot = 0
    BY <1>3, <1>5 DEF Found, Failed
  <2>2. FreeSlot(T, i) \in Tables /\ Within(FreeSlot(T, i), G)
    BY FreeFits
  <2>3. Fits(r, G, H) /\ r.slot = 0
    BY <2>1, <2>2 DEF Fits
  <2> QED BY <1>1, <1>2, <1>3, <2>3
<1>6. CASE now # NoIno
  <2>1. PICK c : c = [e EXCEPT !.ino = now]
    OBVIOUS
  <2>2. c \in Entries /\ c.ino = now /\ c.path = e.path /\ c \in Slots
    BY <1>4, <1>6, <2>1 DEF Entries, Slots
  <2>3. PICK U : U = [T EXCEPT ![i] = c]
    OBVIOUS
  <2>4. [T EXCEPT ![i].ino = now] = U
    BY <1>1, <2>1, <2>3
  <2>5. /\ U \in Tables /\ DOMAIN U = DOMAIN T /\ U[i] = c
        /\ \A k \in DOMAIN T : k # i => U[k] = T[k]
    BY <2>2, <2>3, SlotSet
  <2>6. <<c.ino, c.path>> \in G
    BY <1>2, <1>4, <1>6, <2>2 DEF Present
  <2>7. Within(U, G)
    <3>1. ASSUME NEW k \in DOMAIN U, U[k] # Hole
          PROVE  <<U[k].ino, U[k].path>> \in G
      <4>1. CASE k = i
        BY <2>5, <2>6, <4>1
      <4>2. CASE k # i
        BY <2>5, <3>1, <4>2 DEF Within
      <4> QED BY <4>1, <4>2
    <3> QED BY <3>1 DEF Within
  <2>8. r = Touch(U, D, i)
    BY <1>3, <1>6, <2>4 DEF Found
  <2>9. Obtained(r, U, D, c)
    BY <2>2, <2>5, <2>8, TouchIs
  <2>10. Fits(r, G, H)
    BY <2>2, <2>5, <2>6, <2>7, <2>9, ObtainedFits
  <2>11. PathOf(r) = e.path
    <3>1. r.slot # 0 /\ r.tab[r.slot] = c
      BY <2>9 DEF Obtained, Tables
    <3> QED BY <2>2, <3>1 DEF PathOf
  <2> QED BY <1>1, <1>2, <1>3, <1>4, <1>6, <2>10, <2>11 DEF There
<1> QED BY <1>5, <1>6

(* find_base_entry with a path that is not in the table.                     *)
LEMMA FromPathIs ==
  ASSUME at \in Trees, NEW G, NEW H, Linkable(G, H), Present(G),
         NEW T \in Tables, Within(T, G), NEW D \in Disks, Links(D, H),
         NEW q \in Path \cup {NoPath}
  PROVE  LET r == FromPath(T, D, q) IN
         /\ Fits(r, G, H)
         /\ r.slot # 0 => There(q) /\ q # NoPath /\ PathOf(r) = q
<1>1. PICK r : r = FromPath(T, D, q)
  OBVIOUS
<1>2. CASE q = NoPath
  <2>1. r.tab = T /\ r.disk = D /\ r.slot = 0
    BY <1>1, <1>2 DEF FromPath, Failed
  <2> QED BY <1>1, <2>1 DEF Fits
<1>4. CASE q # NoPath /\ at[q] = NoIno
  <2>1. PICK t : t = Allocate(T, D, Hole)
    OBVIOUS
  <2>2. r.tab = t.tab /\ r.disk = t.disk /\ r.slot = 0
    BY <1>1, <1>4, <2>1 DEF FromPath, Emptied, Failed
  <2>3. Taken(t, T, D, Hole)
    BY <2>1, AllocateTakes DEF Slots
  <2>4. Within(t.tab, G) /\ Links(t.disk, H)
    BY <2>3, TakenFits
  <2>5. t.tab \in Tables /\ t.disk \in Disks
    BY <2>3 DEF Taken
  <2> QED BY <1>1, <2>2, <2>4, <2>5 DEF Fits
<1>3. CASE ~(q = NoPath \/ at[q] = NoIno)
  <2>1. q \in Path /\ at[q] \in Inodes
    BY <1>3 DEF Trees
  <2>2. PICK c : c = Entry(at[q], q)
    OBVIOUS
  <2>3. c \in Entries /\ c.ino = at[q] /\ c.path = q
    BY <2>1, <2>2 DEF Entry, Entries
  <2>4. r = Allocate(T, D, c)
    BY <1>1, <1>3, <2>2 DEF FromPath
  <2>5. Obtained(r, T, D, c)
    BY <2>3, <2>4, AllocateIs
  <2>6. <<c.ino, c.path>> \in G
    BY <1>3, <2>1, <2>3 DEF Present
  <2>7. Fits(r, G, H)
    BY <2>3, <2>5, <2>6, ObtainedFits
  <2>8. r.slot # 0 /\ r.tab[r.slot] = c
    BY <2>5 DEF Obtained, Tables
  <2>9. PathOf(r) = q
    BY <2>3, <2>8 DEF PathOf
  <2> QED BY <1>1, <1>3, <2>1, <2>7, <2>9 DEF There
<1> QED BY <1>2, <1>3, <1>4

(* find_base_entry finds a path that the table or a link has for the handle, *)
(* or the root.                                                              *)
LEMMA FindBaseIs ==
  ASSUME at \in Trees, NEW G, NEW H, Linkable(G, H), Present(G),
         NEW T \in Tables, Within(T, G), NEW D \in Disks, Links(D, H),
         NEW h \in Inodes
  PROVE  LET r == FindBase(T, D, h) IN
         /\ Fits(r, G, H)
         /\ r.slot # 0 =>
              /\ There(PathOf(r))
              /\ \/ <<h, PathOf(r)>> \in G \cup H
                 \/ h = Root /\ PathOf(r) = << >>
<1>1. PICK r : r = FindBase(T, D, h)
  OBVIOUS
<1>2. r = FindAt(T, D, h, Of(T, h))
  BY <1>1 DEF FindBase
<1>3. CASE Of(T, h) # {}
  <2>1. PICK i : i = Min(Of(T, h))
    OBVIOUS
  <2>2. i \in DOMAIN T /\ T[i] \in Entries /\ T[i] # Hole /\ T[i].ino = h
    BY <1>3, <2>1, OfIs
  <2>3. r = Found(T, D, i, at[T[i].path])
    BY <1>2, <1>3, <2>1 DEF FindAt
  <2>4. Fits(r, G, H) /\ (r.slot # 0 => There(T[i].path) /\ PathOf(r) = T[i].path)
    BY <2>2, <2>3, FoundIs
  <2>5. <<h, T[i].path>> \in G
    BY <2>2 DEF Within
  <2> QED BY <1>1, <2>4, <2>5
<1>4. CASE Of(T, h) = {}
  <2>1. PICK q : q = IF h = Root THEN << >> ELSE D[h]
    OBVIOUS
  <2>2. q \in Path \cup {NoPath}
    <3>1. CASE h = Root
      BY <2>1, <3>1 DEF Path
    <3>2. CASE h # Root
      <4>1. h \in Ino
        BY <3>2 DEF Inodes
      <4> QED BY <2>1, <3>2, <4>1 DEF Disks, DirsOf
    <3> QED BY <3>1, <3>2
  <2>3. r = FromPath(T, D, q)
    BY <1>2, <1>4, <2>1 DEF FindAt
  <2>4. Fits(r, G, H) /\ (r.slot # 0 => There(q) /\ q # NoPath /\ PathOf(r) = q)
    BY <2>2, <2>3, FromPathIs
  <2>5. ASSUME q # NoPath, h # Root PROVE <<h, q>> \in H
    <3>1. h \in Ino /\ q = D[h]
      BY <2>1, <2>5 DEF Inodes
    <3> QED BY <2>5, <3>1 DEF Links
  <2>6. h = Root => q = << >>
    BY <2>1
  <2> QED BY <1>1, <2>4, <2>5, <2>6
<1> QED BY <1>3, <1>4

(* insert_get_base_entry: afterwards an entry says where the inode is.       *)
LEMMA InsertIs ==
  ASSUME NEW G, NEW H, Linkable(G, H),
         NEW T \in Tables, Within(T, G), NEW D \in Disks, Links(D, H),
         NEW q \in Path, NEW x \in Inodes \cup {NoIno}, x # NoIno => <<x, q>> \in G
  PROVE  LET r == InsertGet(T, D, q, x) IN
         /\ Fits(r, G, H)
         /\ r.slot # 0 <=> x # NoIno
         /\ r.slot # 0 => r.tab[r.slot].ino = x /\ r.tab[r.slot].path = q
<1>1. PICK r : r = InsertGet(T, D, q, x)
  OBVIOUS
<1>2. PICK own : own = Of(T, x)
  OBVIOUS
<1>3. r = InsertOn(T, D, q, x, own)
  BY <1>1, <1>2 DEF InsertGet
<1>4. CASE x = NoIno
  <2>1. r.tab = T /\ r.disk = D /\ r.slot = 0
    BY <1>3, <1>4 DEF InsertOn, Failed
  <2> QED BY <1>1, <1>4, <2>1 DEF Fits
<1>5. CASE x # NoIno /\ own # {} /\ T[Min(own)].path = q
  <2>1. PICK i : i = Min(own)
    OBVIOUS
  <2>2. i \in DOMAIN T /\ T[i] \in Entries /\ T[i].ino = x /\ T[i].path = q
    BY <1>2, <1>5, <2>1, OfIs
  <2>3. r = Touch(T, D, i)
    BY <1>3, <1>5, <2>1 DEF InsertOn
  <2>4. Obtained(r, T, D, T[i])
    BY <2>2, <2>3, TouchIs
  <2>5. PICK c : c = T[i]
    OBVIOUS
  <2>6. Fits(r, G, H) /\ r.slot # 0
    BY <1>5, <2>2, <2>4, <2>5, ObtainedFits
  <2>7. r.tab[r.slot] = c
    BY <2>4, <2>5 DEF Obtained
  <2> QED BY <1>1, <1>5, <2>2, <2>5, <2>6, <2>7
<1>6. CASE x # NoIno /\ ~(own # {} /\ T[Min(own)].path = q)
  <2>1. PICK c : c = Entry(x, q)
    OBVIOUS
  <2>2. c \in Entries /\ c.ino = x /\ c.path = q
    BY <1>6, <2>1 DEF Entry, Entries
  <2>3. PICK U : U = IF own = {} THEN T ELSE FreeSlot(T, Min(own))
    OBVIOUS
  <2>4. U \in Tables /\ Within(U, G)
    <3>1. CASE own = {}
      BY <2>3, <3>1
    <3>2. CASE own # {}
      <4>1. Min(own) \in DOMAIN T
        BY <1>2, <3>2, OfIs
      <4>2. U = FreeSlot(T, Min(own))
        BY <2>3, <3>2
      <4> QED BY <4>1, <4>2, FreeFits
    <3> QED BY <3>1, <3>2
  <2>5. r = Allocate(U, D, c)
    BY <1>3, <1>6, <2>1, <2>3 DEF InsertOn
  <2>6. Obtained(r, U, D, c)
    BY <2>2, <2>4, <2>5, AllocateIs
  <2>7. Fits(r, G, H) /\ r.slot # 0
    BY <1>6, <2>2, <2>4, <2>6, ObtainedFits
  <2>8. r.tab[r.slot] = c
    BY <2>6 DEF Obtained
  <2> QED BY <1>1, <1>6, <2>2, <2>7, <2>8
<1> QED BY <1>4, <1>5, <1>6

(* What is behind a base handle: a path the table, a link or the volume has  *)
(* for it.                                                                   *)
Behind(h, q, G, H) == <<h, q>> \in G \cup H \/ (h = Root /\ q = << >>)

(* What build_base leaves: a base that is there, the rest behind it, and the *)
(* entry of what is there.                                                   *)
Built(r, h, rest, G, H) ==
  /\ Fits(r, G, H)
  /\ r.slot # 0 =>
       /\ There(PathOf(r)) /\ r.tab[r.slot].ino = at[PathOf(r)]
       /\ \E q \in Path : There(q) /\ Behind(h, q, G, H) /\ PathOf(r) = q \o rest

(* build_base: the base handle's path, the rest behind it, and an entry.     *)
LEMMA BuildIs ==
  ASSUME at \in Trees, NEW G, NEW H, Linkable(G, H), Present(G),
         NEW T \in Tables, Within(T, G), NEW D \in Disks, Links(D, H),
         NEW h \in Inodes, NEW rest
  PROVE  Built(BuildBase(T, D, h, rest), h, rest, G, H)
<1>1. PICK f : f = FindBase(T, D, h)
  OBVIOUS
<1>2. /\ Fits(f, G, H)
      /\ f.slot # 0 => There(PathOf(f)) /\ Behind(h, PathOf(f), G, H)
  BY <1>1, FindBaseIs DEF Behind
<1>3. PICK q : q = PathOf(f)
  OBVIOUS
<1>4. PICK path : path = q \o rest
  OBVIOUS
<1>5. PICK r : r = BuildBase(T, D, h, rest)
  OBVIOUS
<1>6. r = UnderBase(f, path)
  BY <1>1, <1>3, <1>4, <1>5 DEF BuildBase, BuildOn
<1>7. CASE f.slot = 0 \/ path \notin Path
  <2>1. r.tab = f.tab /\ r.disk = f.disk /\ r.slot = 0
    BY <1>6, <1>7 DEF UnderBase, Failed
  <2> QED BY <1>2, <1>5, <2>1 DEF Fits, Built
<1>8. CASE ~(f.slot = 0 \/ path \notin Path)
  <2>1. PICK x : x = at[path]
    OBVIOUS
  <2>2. x \in Inodes \cup {NoIno} /\ (x # NoIno => <<x, path>> \in G)
    BY <1>8, <2>1 DEF Trees, Present
  <2>3. r = InsertGet(f.tab, f.disk, path, x)
    BY <1>6, <1>8, <2>1 DEF UnderBase
  <2>4. PICK U, E : U = f.tab /\ E = f.disk
    OBVIOUS
  <2>5. U \in Tables /\ Within(U, G) /\ E \in Disks /\ Links(E, H) /\ r = InsertGet(U, E, path, x)
    BY <1>2, <2>3, <2>4 DEF Fits
  <2>6. /\ Fits(r, G, H)
        /\ r.slot # 0 <=> x # NoIno
        /\ r.slot # 0 => r.tab[r.slot].ino = x /\ r.tab[r.slot].path = path
    BY <1>8, <2>2, <2>5, InsertIs
  <2>7. r.slot # 0 => PathOf(r) = path
    BY <2>6 DEF PathOf
  <2>8. q \in Path /\ There(q) /\ Behind(h, q, G, H)
    BY <1>2, <1>3, <1>8 DEF There
  <2> QED BY <1>4, <1>5, <1>8, <2>1, <2>6, <2>7, <2>8 DEF There, Built
<1> QED BY <1>7, <1>8

-----------------------------------------------------------------------------
(* Names: the tree of the volume                                             *)

Words == Dir \cup Kid

(* A directory's path, and a file's.                                         *)
LEMMA DirIs ==
  ASSUME NEW d \in Dir
  PROVE  /\ <<d>> \in Seq(Words) /\ Len(<<d>>) = 1 /\ <<d>>[1] = d /\ Parent(<<d>>) = << >>
<1>1. <<d>> \in Seq(Words) /\ Len(<<d>>) = 1 /\ <<d>>[1] = d
  BY DEF Words
<1>2. SubSeq(<<d>>, 1, 0) = << >>
  BY SubSeqEmpty
<1> QED BY <1>1, <1>2 DEF Parent, Front

(* The path of a file.                                                       *)
LEMMA KidIs ==
  ASSUME NEW d \in Dir, NEW k \in Kid
  PROVE  /\ <<d, k>> \in Seq(Words) /\ Len(<<d, k>>) = 2
         /\ <<d, k>>[1] = d /\ <<d, k>>[2] = k
         /\ Parent(<<d, k>>) = <<d>> /\ SubSeq(<<d, k>>, 1, 1) = <<d>>
         /\ SubSeq(<<d, k>>, 2, 2) = <<k>>
<1>1. PICK s : s = <<d, k>>
  OBVIOUS
<1>2. s \in Seq(Words) /\ Len(s) = 2 /\ s[1] = d /\ s[2] = k
  BY <1>1 DEF Words
<1>3. \A i \in 1..2 : s[i] \in Words
  BY <1>2 DEF Words
<1>4. /\ SubSeq(s, 1, 1) \in Seq(Words) /\ Len(SubSeq(s, 1, 1)) = 1
      /\ SubSeq(s, 1, 1)[1] = d
  <2>1. \A i \in 1..1 : s[i] \in Words
    BY <1>3
  <2>2. /\ SubSeq(s, 1, 1) \in Seq(Words) /\ Len(SubSeq(s, 1, 1)) = IF 1 <= 1 THEN 1 - 1 + 1 ELSE 0
        /\ \A i \in 1..(1 - 1 + 1) : SubSeq(s, 1, 1)[i] = s[1 + i - 1]
    BY <2>1, SubSeqProperties
  <2> QED BY <1>2, <2>2
<1>5. /\ SubSeq(s, 2, 2) \in Seq(Words) /\ Len(SubSeq(s, 2, 2)) = 1
      /\ SubSeq(s, 2, 2)[1] = k
  <2>1. \A i \in 2..2 : s[i] \in Words
    BY <1>3
  <2>2. /\ SubSeq(s, 2, 2) \in Seq(Words) /\ Len(SubSeq(s, 2, 2)) = IF 2 <= 2 THEN 2 - 2 + 1 ELSE 0
        /\ \A i \in 1..(2 - 2 + 1) : SubSeq(s, 2, 2)[i] = s[2 + i - 1]
    BY <2>1, SubSeqProperties
  <2> QED BY <1>2, <2>2
<1>6. <<d>> \in Seq(Words) /\ Len(<<d>>) = 1 /\ <<d>>[1] = d
  BY DEF Words
<1>7. <<k>> \in Seq(Words) /\ Len(<<k>>) = 1 /\ <<k>>[1] = k
  BY DEF Words
<1>8. SubSeq(s, 1, 1) = <<d>>
  <2>1. PICK a, b : a = SubSeq(s, 1, 1) /\ b = <<d>>
    OBVIOUS
  <2>2. \A i \in 1..Len(a) : a[i] = b[i]
    BY <1>4, <1>6, <2>1
  <2>3. a \in Seq(Words) /\ b \in Seq(Words) /\ Len(a) = Len(b)
    BY <1>4, <1>6, <2>1
  <2>4. a = b
    BY <2>2, <2>3, SeqEqual
  <2> QED BY <2>1, <2>4
<1>9. SubSeq(s, 2, 2) = <<k>>
  <2>1. PICK a, b : a = SubSeq(s, 2, 2) /\ b = <<k>>
    OBVIOUS
  <2>2. \A i \in 1..Len(a) : a[i] = b[i]
    BY <1>5, <1>7, <2>1
  <2>3. a \in Seq(Words) /\ b \in Seq(Words) /\ Len(a) = Len(b)
    BY <1>5, <1>7, <2>1
  <2>4. a = b
    BY <2>2, <2>3, SeqEqual
  <2> QED BY <2>1, <2>4
<1>10. Parent(s) = SubSeq(s, 1, 1)
  BY <1>2 DEF Parent, Front
<1> QED BY <1>1, <1>2, <1>8, <1>9, <1>10

(* Every path is empty, a directory's or a file's.                           *)
LEMMA PathIs ==
  ASSUME NEW q \in Path
  PROVE  \/ q = << >>
         \/ \E d \in Dir : q = <<d>>
         \/ \E d \in Dir, k \in Kid : q = <<d, k>>
  BY DEF Path, DirPath, KidPath

(* All of them are paths.                                                    *)
LEMMA PathsAre ==
  /\ << >> \in Path /\ Len(<< >>) = 0 /\ << >> \in Seq(Words)
  /\ \A d \in Dir : <<d>> \in Path
  /\ \A d \in Dir, k \in Kid : <<d, k>> \in Path
<1>1. << >> \in Path /\ Len(<< >>) = 0 /\ << >> \in Seq(Words)
  BY DEF Path
<1>2. \A d \in Dir : <<d>> \in Path
  BY DEF Path, DirPath
<1>3. \A d \in Dir, k \in Kid : <<d, k>> \in Path
  BY DEF Path, KidPath
<1> QED BY <1>1, <1>2, <1>3

(* A path is a sequence of names.                                            *)
LEMMA PathSeq ==
  ASSUME NEW q \in Path
  PROVE  q \in Seq(Words) /\ Len(q) \in 0..2 /\ SubSeq(q, 1, Len(q)) = q /\ q \o << >> = q
<1>1. q \in Seq(Words) /\ Len(q) \in 0..2
  <2>1. CASE q = << >>
    BY <2>1, PathsAre
  <2>2. ASSUME NEW d \in Dir, q = <<d>> PROVE q \in Seq(Words) /\ Len(q) \in 0..2
    <3>1. <<d>> \in Seq(Words) /\ Len(<<d>>) = 1
      BY DirIs
    <3> QED BY <2>2, <3>1
  <2>3. ASSUME NEW d \in Dir, NEW k \in Kid, q = <<d, k>>
        PROVE  q \in Seq(Words) /\ Len(q) \in 0..2
    <3>1. <<d, k>> \in Seq(Words) /\ Len(<<d, k>>) = 2
      BY KidIs
    <3> QED BY <2>3, <3>1
  <2> QED BY <2>1, <2>2, <2>3, PathIs
<1> QED BY <1>1, SubSeqFull, ConcatEmptySeq

(* What is below a directory: itself and its files; below a file: itself.    *)
LEMMA BelowDir ==
  ASSUME NEW d \in Dir, NEW q \in Path
  PROVE  IsPrefix(<<d>>, q) <=> q = <<d>> \/ \E k \in Kid : q = <<d, k>>
<1>1. <<d>> \in Path /\ Len(<<d>>) = 1 /\ <<d>>[1] = d
  BY PathsAre, DirIs
<1>2. SubSeq(<<d>>, 1, 1) = <<d>>
  BY <1>1, PathSeq
<1>3. CASE q = << >>
  <2>1. Len(q) = 0
    BY <1>3, PathsAre
  <2>2. ~IsPrefix(<<d>>, q)
    BY <1>1, <2>1 DEF IsPrefix
  <2>3. q # <<d>> /\ \A k \in Kid : q # <<d, k>>
    <3>1. \A k \in Kid : Len(<<d, k>>) = 2
      BY KidIs
    <3> QED BY <1>1, <2>1, <3>1
  <2> QED BY <2>2, <2>3
<1>4. ASSUME NEW c \in Dir, q = <<c>>
      PROVE  IsPrefix(<<d>>, q) <=> q = <<d>> \/ \E k \in Kid : q = <<d, k>>
  <2>1. Len(q) = 1 /\ q[1] = c /\ SubSeq(q, 1, 1) = q
    BY <1>4, DirIs, PathSeq
  <2>2. IsPrefix(<<d>>, q) <=> q = <<d>>
    BY <1>1, <1>2, <2>1 DEF IsPrefix
  <2>3. \A k \in Kid : q # <<d, k>>
    <3>1. \A k \in Kid : Len(<<d, k>>) = 2
      BY KidIs
    <3> QED BY <2>1, <3>1
  <2> QED BY <2>2, <2>3
<1>5. ASSUME NEW c \in Dir, NEW k \in Kid, q = <<c, k>>
      PROVE  IsPrefix(<<d>>, q) <=> q = <<d>> \/ \E l \in Kid : q = <<d, l>>
  <2>1. Len(q) = 2 /\ q[1] = c /\ SubSeq(q, 1, 1) = <<c>>
    BY <1>5, KidIs
  <2>2. <<c>> = <<d>> <=> c = d
    BY <1>1, DirIs
  <2>3. IsPrefix(<<d>>, q) <=> c = d
    BY <1>1, <1>2, <2>1, <2>2 DEF IsPrefix
  <2>4. q # <<d>>
    BY <1>1, <2>1
  <2>5. (\E l \in Kid : q = <<d, l>>) <=> c = d
    <3>1. \A l \in Kid : <<d, l>>[1] = d
      BY KidIs
    <3>2. ASSUME NEW l \in Kid, q = <<d, l>> PROVE c = d
      BY <2>1, <3>1, <3>2
    <3>3. c = d => q = <<d, k>>
      BY <1>5
    <3> QED BY <3>2, <3>3
  <2> QED BY <2>3, <2>4, <2>5
<1> QED BY <1>3, <1>4, <1>5, PathIs

(* Nothing is below a file.                                                  *)
LEMMA BelowKid ==
  ASSUME NEW d \in Dir, NEW k \in Kid, NEW q \in Path
  PROVE  IsPrefix(<<d, k>>, q) <=> q = <<d, k>>
<1>1. PICK p : p = <<d, k>>
  OBVIOUS
<1>2. p \in Path /\ Len(p) = 2
  BY <1>1, PathsAre, KidIs
<1>3. SubSeq(p, 1, 2) = p
  BY <1>2, PathSeq
<1>4. Len(q) \in 0..2 /\ SubSeq(q, 1, Len(q)) = q
  BY PathSeq
<1>5. CASE Len(q) = 2
  BY <1>1, <1>2, <1>3, <1>4, <1>5 DEF IsPrefix
<1>6. CASE Len(q) < 2
  <2>1. ~(Len(p) <= Len(q)) /\ q # p
    BY <1>2, <1>4, <1>6
  <2>2. ~IsPrefix(p, q)
    BY <2>1 DEF IsPrefix
  <2> QED BY <1>1, <2>1, <2>2
<1> QED BY <1>4, <1>5, <1>6

(* Where a path was before a rename.                                         *)
Origin(src, dst, q) ==
  IF q = dst THEN src ELSE IF IsPrefix(dst, q) THEN <<src[1], q[2]>> ELSE q

Renaming(src, dst) == src \in Path /\ dst \in Path /\ src # dst /\ Len(src) = Len(dst) /\ Len(src) > 0

(* Two directories, or two files.                                            *)
LEMMA RenamingIs ==
  ASSUME NEW src, NEW dst, Renaming(src, dst)
  PROVE  \/ \E a, b \in Dir : a # b /\ src = <<a>> /\ dst = <<b>>
         \/ \E a, b \in Dir, k, l \in Kid : src = <<a, k>> /\ dst = <<b, l>>
<1>1. src # << >> /\ dst # << >>
  BY PathsAre DEF Renaming
<1>2. CASE \E a \in Dir : src = <<a>>
  <2>1. PICK a \in Dir : src = <<a>>
    BY <1>2
  <2>2. Len(dst) = 1
    BY <2>1, DirIs DEF Renaming
  <2>3. \A b \in Dir, l \in Kid : dst # <<b, l>>
    <3>1. \A b \in Dir, l \in Kid : Len(<<b, l>>) = 2
      BY KidIs
    <3> QED BY <2>2, <3>1
  <2>4. PICK b \in Dir : dst = <<b>>
    BY <1>1, <2>3, PathIs DEF Renaming
  <2> QED BY <2>1, <2>4 DEF Renaming
<1>3. CASE \E a \in Dir, k \in Kid : src = <<a, k>>
  <2>1. PICK a \in Dir, k \in Kid : src = <<a, k>>
    BY <1>3
  <2>2. Len(dst) = 2
    BY <2>1, KidIs DEF Renaming
  <2>3. \A b \in Dir : dst # <<b>>
    <3>1. \A b \in Dir : Len(<<b>>) = 1
      BY DirIs
    <3> QED BY <2>2, <3>1
  <2>4. PICK b \in Dir, l \in Kid : dst = <<b, l>>
    BY <1>1, <2>3, PathIs DEF Renaming
  <2> QED BY <2>1, <2>4
<1> QED BY <1>1, <1>2, <1>3, PathIs DEF Renaming

(* A renamed path and what is below it, and everything else.                 *)
LEMMA OriginIs ==
  ASSUME NEW src, NEW dst, Renaming(src, dst), NEW q \in Path, ~IsPrefix(src, q)
  PROVE  LET o == Origin(src, dst, q) IN
         /\ o \in Path /\ MovedTo(src, dst)[q] = at[o]
         /\ q # << >> => o # << >>
         /\ IsPrefix(dst, q) => IsPrefix(src, o)
         /\ ~IsPrefix(dst, q) => o = q
         /\ IsPrefix(dst, q) => q = dst \/ Parent(q) = dst
<1>1. src \in Path /\ dst \in Path /\ src # << >>
  BY PathsAre DEF Renaming
<1>2. PICK tail : tail = SubSeq(q, Len(dst) + 1, Len(q))
  OBVIOUS
<1>3. PICK o : o = Origin(src, dst, q)
  OBVIOUS
<1>4. MovedTo(src, dst)[q] =
        IF IsPrefix(dst, q)
        THEN IF src \o tail \in Path THEN at[src \o tail] ELSE NoIno
        ELSE at[q]
  BY <1>2 DEF MovedTo
<1>5. CASE ~IsPrefix(dst, q)
  <2>1. IsPrefix(dst, dst)
    BY <1>1, PathSeq DEF IsPrefix
  <2>2. o = q
    BY <1>3, <1>5, <2>1 DEF Origin
  <2> QED BY <1>3, <1>4, <1>5, <2>2
<1>6. CASE q = dst
  <2>1. IsPrefix(dst, q) /\ IsPrefix(src, src)
    BY <1>1, <1>6, PathSeq DEF IsPrefix
  <2>2. tail = << >>
    <3>1. Len(q) \in Nat
      BY PathSeq
    <3>2. SubSeq(q, Len(q) + 1, Len(q)) = << >>
      BY <3>1, SubSeqEmpty
    <3> QED BY <1>2, <1>6, <3>2
  <2>3. src \o tail = src
    BY <1>1, <2>2, PathSeq
  <2>4. o = src
    BY <1>3, <1>6 DEF Origin
  <2> QED BY <1>1, <1>3, <1>4, <1>6, <2>1, <2>3, <2>4
<1>7. CASE IsPrefix(dst, q) /\ q # dst
  <2>1. CASE \E a, b \in Dir, k, l \in Kid : src = <<a, k>> /\ dst = <<b, l>>
    BY <1>7, <2>1, BelowKid
  <2>2. ASSUME NEW a \in Dir, NEW b \in Dir, src = <<a>>, dst = <<b>>
        PROVE  LET p == Origin(src, dst, q) IN
               /\ p \in Path /\ MovedTo(src, dst)[q] = at[p] /\ p # << >>
               /\ IsPrefix(src, p) /\ Parent(q) = dst
    <3>1. PICK k \in Kid : q = <<b, k>>
      BY <1>7, <2>2, BelowDir
    <3>2. Len(dst) = 1 /\ src[1] = a
      BY <2>2, DirIs
    <3>3. Len(q) = 2 /\ q[2] = k /\ Parent(q) = dst /\ SubSeq(q, 2, 2) = <<k>>
      BY <2>2, <3>1, KidIs
    <3>4. tail = <<k>>
      BY <1>2, <3>2, <3>3
    <3>5. src \o tail = <<a, k>>
      <4>1. <<a>> \o <<k>> = <<a, k>>
        <5>1. PICK s, t, u : s = <<a>> /\ t = <<k>> /\ u = <<a, k>>
          OBVIOUS
        <5>2. /\ s \in Seq(Words) /\ Len(s) = 1 /\ s[1] = a
              /\ t \in Seq(Words) /\ Len(t) = 1 /\ t[1] = k
              /\ u \in Seq(Words) /\ Len(u) = 2 /\ u[1] = a /\ u[2] = k
          BY <5>1 DEF Words
        <5>3. /\ s \o t \in Seq(Words) /\ Len(s \o t) = Len(s) + Len(t)
              /\ \A i \in 1..(Len(s) + Len(t)) :
                   (s \o t)[i] = IF i <= Len(s) THEN s[i] ELSE t[i - Len(s)]
          BY <5>2, ConcatProperties
        <5>4. PICK w : w = s \o t
          OBVIOUS
        <5>5. w \in Seq(Words) /\ Len(w) = 2 /\ w[1] = a /\ w[2] = k
          BY <5>2, <5>3, <5>4
        <5>6. \A i \in 1..Len(w) : w[i] = u[i]
          BY <5>2, <5>5
        <5>7. w = u
          BY <5>2, <5>5, <5>6, SeqEqual
        <5> QED BY <5>1, <5>4, <5>7
      <4> QED BY <2>2, <3>4, <4>1
    <3>6. o = <<a, k>>
      BY <1>3, <1>7, <3>2, <3>3 DEF Origin
    <3>7. o \in Path /\ IsPrefix(src, o)
      BY <2>2, <3>6, PathsAre, BelowDir
    <3>8. o # << >>
      BY <3>6, KidIs, PathsAre
    <3> QED BY <1>3, <1>4, <1>7, <3>3, <3>5, <3>6, <3>7, <3>8
  <2> QED BY <1>7, <2>1, <2>2, RenamingIs
<1> QED BY <1>5, <1>6, <1>7

(* No two paths were at the same path before a rename.                       *)
LEMMA OriginOne ==
  ASSUME NEW src, NEW dst, Renaming(src, dst),
         NEW q \in Path, ~IsPrefix(src, q), NEW r \in Path, ~IsPrefix(src, r),
         Origin(src, dst, q) = Origin(src, dst, r)
  PROVE  q = r
<1>1. CASE ~IsPrefix(dst, q) /\ ~IsPrefix(dst, r)
  BY <1>1, OriginIs
<1>2. CASE IsPrefix(dst, q) /\ ~IsPrefix(dst, r)
  BY <1>2, OriginIs
<1>3. CASE ~IsPrefix(dst, q) /\ IsPrefix(dst, r)
  BY <1>3, OriginIs
<1>4. CASE IsPrefix(dst, q) /\ IsPrefix(dst, r)
  <2>1. ASSUME NEW a \in Dir, NEW b \in Dir, NEW k \in Kid, NEW l \in Kid,
               src = <<a, k>>, dst = <<b, l>>
        PROVE  q = r
    BY <1>4, <2>1, BelowKid
  <2>2. ASSUME NEW a \in Dir, NEW b \in Dir, src = <<a>>, dst = <<b>> PROVE q = r
    <3>1. Len(src) = 1 /\ src[1] = a
      BY <2>2, DirIs
    <3>2. ASSUME NEW p \in Path, IsPrefix(dst, p)
          PROVE  \/ p = dst /\ Origin(src, dst, p) = src
                 \/ \E k \in Kid : p = <<b, k>> /\ Origin(src, dst, p) = <<a, k>>
      <4>1. CASE p = dst
        BY <4>1 DEF Origin
      <4>2. CASE p # dst
        <5>1. PICK k \in Kid : p = <<b, k>>
          BY <2>2, <3>2, <4>2, BelowDir
        <5>2. p[2] = k
          BY <5>1, KidIs
        <5>3. Origin(src, dst, p) = <<a, k>>
          BY <3>1, <3>2, <4>2, <5>2 DEF Origin
        <5> QED BY <5>1, <5>3
      <4> QED BY <4>1, <4>2
    <3>3. \A k \in Kid : Len(<<a, k>>) = 2 /\ <<a, k>>[2] = k
      BY KidIs
    <3>4. \A k \in Kid : <<a, k>> # src
      BY <3>1, <3>3
    <3>5. \A k, l \in Kid : <<a, k>> = <<a, l>> => k = l
      BY <3>3
    <3> QED BY <1>4, <3>2, <3>4, <3>5
  <2> QED BY <2>1, <2>2, RenamingIs
<1> QED BY <1>1, <1>2, <1>3, <1>4

(* A path that is not empty has a parent; below it are the paths whose       *)
(* parent it is.                                                             *)
LEMMA ParentIs ==
  ASSUME NEW q \in Path, q # << >>
  PROVE  /\ Parent(q) \in Path /\ Len(q) = Len(Parent(q)) + 1 /\ IsPrefix(Parent(q), q)
         /\ Len(Parent(q)) \in Nat
<1>1. ASSUME NEW d \in Dir, q = <<d>>
      PROVE  /\ Parent(q) \in Path /\ Len(q) = Len(Parent(q)) + 1 /\ IsPrefix(Parent(q), q)
             /\ Len(Parent(q)) \in Nat
  <2>1. Parent(q) = << >> /\ Len(q) = 1 /\ Len(<< >>) = 0 /\ << >> \in Path
    BY <1>1, DirIs, PathsAre
  <2>2. SubSeq(q, 1, 0) = << >> /\ SubSeq(<< >>, 1, 0) = << >>
    BY SubSeqEmpty
  <2> QED BY <2>1, <2>2 DEF IsPrefix
<1>2. ASSUME NEW d \in Dir, NEW k \in Kid, q = <<d, k>>
      PROVE  /\ Parent(q) \in Path /\ Len(q) = Len(Parent(q)) + 1 /\ IsPrefix(Parent(q), q)
             /\ Len(Parent(q)) \in Nat
  <2>1. Parent(q) = <<d>> /\ Len(q) = 2
    BY <1>2, KidIs
  <2>2. Len(<<d>>) = 1 /\ <<d>> \in Path
    BY DirIs, PathsAre
  <2>3. IsPrefix(<<d>>, q)
    BY <1>2, BelowDir
  <2> QED BY <2>1, <2>2, <2>3
<1> QED BY <1>1, <1>2, PathIs

(* Below a path is itself, and what has it as parent.                        *)
LEMMA BelowIs ==
  ASSUME NEW p \in Path, p # << >>, NEW q \in Path
  PROVE  IsPrefix(p, q) <=> q = p \/ (q # << >> /\ Parent(q) = p)
<1>1. ASSUME NEW d \in Dir, p = <<d>>
      PROVE  IsPrefix(p, q) <=> q = p \/ (q # << >> /\ Parent(q) = p)
  <2>1. IsPrefix(p, q) <=> q = p \/ \E k \in Kid : q = <<d, k>>
    BY <1>1, BelowDir
  <2>2. ASSUME NEW k \in Kid, q = <<d, k>> PROVE q # << >> /\ Parent(q) = p
    BY <1>1, <2>2, KidIs, PathsAre
  <2>3. ASSUME q # << >>, Parent(q) = p PROVE \E k \in Kid : q = <<d, k>>
    <3>1. ASSUME NEW c \in Dir, q = <<c>> PROVE FALSE
      BY <1>1, <2>3, <3>1, DirIs, PathsAre
    <3>2. ASSUME NEW c \in Dir, NEW k \in Kid, q = <<c, k>> PROVE c = d
      <4>1. <<c>> = <<d>> /\ <<c>>[1] = c /\ <<d>>[1] = d
        BY <1>1, <2>3, <3>2, KidIs, DirIs
      <4> QED BY <4>1
    <3> QED BY <2>3, <3>1, <3>2, PathIs
  <2> QED BY <2>1, <2>2, <2>3
<1>2. ASSUME NEW d \in Dir, NEW k \in Kid, p = <<d, k>>
      PROVE  IsPrefix(p, q) <=> q = p \/ (q # << >> /\ Parent(q) = p)
  <2>1. IsPrefix(p, q) <=> q = p
    BY <1>2, BelowKid
  <2>2. ASSUME q # << >>, Parent(q) = p PROVE FALSE
    <3>1. Len(p) = 2
      BY <1>2, KidIs
    <3>2. Len(q) = Len(p) + 1
      BY <2>2, ParentIs
    <3>3. Len(q) \in 0..2
      BY PathSeq
    <3> QED BY <3>1, <3>2, <3>3
  <2> QED BY <2>1, <2>2
<1> QED BY <1>1, <1>2, PathIs

(* The volume's tree.                                                        *)
TreeInv == at \in Trees /\ Tree(at)

(* Parents are there, and an inode has one path.                             *)
LEMMA TreeIs ==
  ASSUME TreeInv
  PROVE  /\ at[<< >>] = Root /\ Root # NoIno
         /\ \A q \in Path : at[q] # NoIno /\ q # << >> => at[Parent(q)] # NoIno /\ at[q] \in Ino
         /\ \A q \in Path, r \in Path : at[q] # NoIno /\ at[r] = at[q] => r = q
<1>1. Root # NoIno /\ << >> \in Path
  BY NamesConstants, PathsAre
<1>2. at[<< >>] = Root
  BY DEF TreeInv, Tree
<1>3. ASSUME NEW q \in Path, at[q] # NoIno, q # << >>
      PROVE  /\ at[Parent(q)] # NoIno /\ at[q] \in Ino
             /\ \A r \in Path : at[r] = at[q] => r = q
  BY <1>3 DEF TreeInv, Tree, Trees, Inodes
<1>4. ASSUME NEW q \in Path, NEW r \in Path, at[q] # NoIno, at[r] = at[q]
      PROVE  r = q
  BY <1>1, <1>2, <1>3, <1>4
<1> QED BY <1>1, <1>2, <1>3, <1>4

(* Where nothing is, nothing is below.                                       *)
LEMMA UnderNothing ==
  ASSUME TreeInv, NEW p \in Path, at[p] = NoIno, NEW q \in Path, IsPrefix(p, q)
  PROVE  at[q] = NoIno
<1>1. p # << >>
  BY TreeIs
<1>2. q = p \/ (q # << >> /\ Parent(q) = p)
  BY <1>1, BelowIs
<1> QED BY <1>2, TreeIs

(* Something made where nothing was.                                         *)
LEMMA TreeMake ==
  ASSUME TreeInv, NEW path \in Path, at[path] = NoIno, at[Parent(path)] # NoIno,
         NEW i \in Unused, MakeAt(path, i)
  PROVE  TreeInv'
<1>1. path # << >> /\ i \in Ino /\ i # Root /\ i # NoIno /\ \A q \in Path : at[q] # i
  BY TreeIs, NamesConstants DEF Unused
<1>2. at' = [at EXCEPT ![path] = i]
  BY DEF MakeAt
<1>3. at' \in Trees /\ at'[path] = i /\ \A q \in Path : q # path => at'[q] = at[q]
  BY <1>1, <1>2 DEF TreeInv, Trees, Inodes
<1>4. at'[<< >>] = Root
  BY <1>1, <1>3, TreeIs, PathsAre
<1>5. ASSUME NEW q \in Path \ {<< >>}, at'[q] # NoIno
      PROVE  at'[Parent(q)] # NoIno /\ at'[q] # Root /\ \A r \in Path : at'[r] = at'[q] => r = q
  <2>1. Parent(q) \in Path /\ Len(q) = Len(Parent(q)) + 1 /\ Len(Parent(q)) \in Nat
    BY ParentIs
  <2>2. CASE q = path
    <3>1. Parent(q) # path
      BY <2>1, <2>2
    <3> QED BY <1>1, <1>3, <2>1, <2>2, <3>1
  <2>3. CASE q # path
    <3>1. at[q] # NoIno /\ at[Parent(q)] # NoIno /\ at[q] \in Ino
      BY <1>3, <1>5, <2>3, TreeIs
    <3>2. Parent(q) # path
      BY <3>1
    <3>3. at[q] # Root
      BY <3>1, NamesConstants
    <3>4. \A r \in Path : at'[r] = at'[q] => r = q
      BY <1>1, <1>3, <2>3, <3>1, TreeIs
    <3> QED BY <1>3, <2>1, <2>3, <3>1, <3>2, <3>3, <3>4
  <2> QED BY <2>2, <2>3
<1>6. Tree(at')
  BY <1>4, <1>5 DEF Tree
<1> QED BY <1>3, <1>6 DEF TreeInv

(* Something removed that nothing is below of.                               *)
LEMMA TreeRemove ==
  ASSUME TreeInv, NEW path \in Path, CanRemove(path), MakeAt(path, NoIno)
  PROVE  TreeInv' /\ path # << >> /\ at[path] \in Ino
<1>1. path # << >> /\ at[path] # NoIno /\ \A q \in Children(path) : at[q] = NoIno
  BY PathsAre DEF CanRemove
<1>2. at' = [at EXCEPT ![path] = NoIno]
  BY DEF MakeAt
<1>3. at' \in Trees /\ at'[path] = NoIno /\ \A q \in Path : q # path => at'[q] = at[q]
  BY <1>2 DEF TreeInv, Trees
<1>4. at'[<< >>] = Root
  BY <1>1, <1>3, TreeIs, PathsAre
<1>5. ASSUME NEW q \in Path \ {<< >>}, at'[q] # NoIno
      PROVE  at'[Parent(q)] # NoIno /\ at'[q] # Root /\ \A r \in Path : at'[r] = at'[q] => r = q
  <2>1. q # path /\ at[q] # NoIno /\ at[Parent(q)] # NoIno /\ at[q] \in Ino
    BY <1>3, <1>5, TreeIs
  <2>2. Parent(q) \in Path /\ Len(q) = Len(Parent(q)) + 1 /\ IsPrefix(Parent(q), q)
    BY ParentIs
  <2>3. Parent(q) # path
    BY <1>1, <2>1, <2>2 DEF Children
  <2>4. at[q] # Root
    BY <2>1, NamesConstants
  <2>5. ASSUME NEW r \in Path, at'[r] = at'[q] PROVE r = q
    BY <1>3, <1>5, <2>1, <2>5, TreeIs
  <2> QED BY <1>3, <2>1, <2>2, <2>3, <2>4, <2>5
<1>6. Tree(at')
  BY <1>4, <1>5 DEF Tree
<1> QED BY <1>1, <1>3, <1>6, TreeIs DEF TreeInv

(* A rename moves what is there, and what was not below the source stays.    *)
LEMMA TreeRename ==
  ASSUME TreeInv, NEW src \in Path, NEW dst \in Path, CanRename(src, dst),
         at' = MovedTo(src, dst)
  PROVE  /\ TreeInv' /\ Below(src) \subseteq Inodes
         /\ \A q \in Path : at[q] # NoIno /\ at[q] \notin Below(src) => at'[q] = at[q]
<1>1. Renaming(src, dst) /\ at[src] # NoIno /\ at[dst] = NoIno /\ at[Parent(dst)] # NoIno
  BY DEF Renaming, CanRename
<1>2. src # << >> /\ dst # << >>
  BY <1>1, PathsAre DEF Renaming
<1>3. \A q \in Path : IsPrefix(src, q) => at'[q] = NoIno
  <2>1. ASSUME NEW q \in Path, IsPrefix(src, q) PROVE at'[q] = NoIno
    <3>1. ~IsPrefix(dst, q)
      <4>1. ASSUME IsPrefix(dst, q) PROVE FALSE
        <5>1. q = src \/ Parent(q) = src
          BY <1>2, <2>1, BelowIs
        <5>2. q = dst \/ Parent(q) = dst
          BY <1>2, <4>1, BelowIs
        <5>3. q # << >> /\ Len(q) = Len(Parent(q)) + 1 /\ Len(Parent(q)) \in Nat
          BY <1>2, <2>1, BelowIs, ParentIs
        <5> QED BY <1>1, <5>1, <5>2, <5>3 DEF Renaming
      <4> QED BY <4>1
    <3> QED BY <2>1, <3>1 DEF MovedTo
  <2> QED BY <2>1
<1>4. ASSUME NEW q \in Path, ~IsPrefix(src, q)
      PROVE  /\ Origin(src, dst, q) \in Path /\ at'[q] = at[Origin(src, dst, q)]
             /\ q # << >> => Origin(src, dst, q) # << >>
             /\ ~IsPrefix(dst, q) => Origin(src, dst, q) = q
  BY <1>1, <1>4, OriginIs
<1>5. at' \in Trees
  <2>1. \A q \in Path : at'[q] \in Inodes \cup {NoIno}
    BY <1>3, <1>4 DEF TreeInv, Trees
  <2>2. DOMAIN at' = Path /\ at' = [q \in Path |-> at'[q]]
    BY DEF MovedTo
  <2> QED BY <2>1, <2>2 DEF Trees
<1>6. \A q \in Path : Len(q) < Len(src) => ~IsPrefix(src, q) /\ ~IsPrefix(dst, q)
  BY <1>1, PathSeq DEF IsPrefix, Renaming
<1>7. at'[<< >>] = Root
  <2>1. << >> \in Path /\ Len(<< >>) < Len(src)
    BY <1>1, PathsAre DEF Renaming
  <2> QED BY <1>4, <1>6, <2>1, TreeIs
<1>8. ASSUME NEW q \in Path \ {<< >>}, at'[q] # NoIno
      PROVE  at'[Parent(q)] # NoIno /\ at'[q] # Root /\ \A r \in Path : at'[r] = at'[q] => r = q
  <2>1. PICK o : o = Origin(src, dst, q)
    OBVIOUS
  <2>2. ~IsPrefix(src, q) /\ o \in Path /\ o # << >> /\ at'[q] = at[o]
    BY <1>3, <1>4, <1>8, <2>1
  <2>3. at[o] \in Ino /\ at[o] # Root
    BY <1>8, <2>2, TreeIs, NamesConstants
  <2>4. /\ Parent(q) \in Path /\ Len(q) = Len(Parent(q)) + 1 /\ IsPrefix(Parent(q), q)
        /\ Len(Parent(q)) \in Nat
    BY ParentIs
  <2>5. ASSUME NEW r \in Path, at'[r] = at'[q] PROVE r = q
    <3>1. ~IsPrefix(src, r)
      BY <1>3, <1>8, <2>5
    <3>2. Origin(src, dst, r) \in Path /\ at[Origin(src, dst, r)] = at[o]
      BY <1>4, <2>2, <2>5, <3>1
    <3>3. Origin(src, dst, r) = o
      BY <1>8, <2>2, <3>2, TreeIs
    <3> QED BY <1>1, <2>1, <2>2, <3>1, <3>3, OriginOne
  <2>6. at'[Parent(q)] # NoIno
    <3>1. CASE q = dst
      <4>1. Len(Parent(q)) < Len(src)
        BY <1>1, <2>4, <3>1 DEF Renaming
      <4> QED BY <1>1, <1>4, <1>6, <2>4, <3>1, <4>1
    <3>2. CASE Parent(q) = dst
      <4>1. ~IsPrefix(src, dst)
        <5>1. IsPrefix(src, dst) => dst = src \/ (dst # << >> /\ Parent(dst) = src)
          BY <1>2, BelowIs
        <5>2. Len(dst) = Len(Parent(dst)) + 1 /\ Len(Parent(dst)) \in Nat
          BY <1>2, ParentIs
        <5> QED BY <1>1, <5>1, <5>2 DEF Renaming
      <4>2. Origin(src, dst, dst) = src
        BY DEF Origin
      <4> QED BY <1>1, <1>4, <3>2, <4>1, <4>2
    <3>3. CASE q # dst /\ Parent(q) # dst
      <4>1. ~IsPrefix(dst, q)
        BY <1>2, <3>3, BelowIs
      <4>2. o = q /\ at[q] # NoIno
        BY <1>4, <1>8, <2>1, <2>2, <4>1
      <4>3. at[Parent(q)] # NoIno
        BY <4>2, TreeIs
      <4>4. CASE Len(Parent(q)) < Len(src)
        BY <1>4, <1>6, <2>4, <4>3, <4>4
      <4>5. CASE ~(Len(Parent(q)) < Len(src))
        <5>1. ASSUME NEW p \in Path, p # << >>, Len(p) = Len(src), IsPrefix(p, Parent(q))
              PROVE  p = Parent(q)
          <6>1. Parent(q) = p \/ (Parent(q) # << >> /\ Parent(Parent(q)) = p)
            BY <2>4, <5>1, BelowIs
          <6>2. CASE Parent(q) # << >> /\ Parent(Parent(q)) = p
            <7>1. Len(Parent(q)) = Len(p) + 1
              BY <2>4, <6>2, ParentIs
            <7>2. Len(p) > 0 /\ Len(q) \in 0..2
              BY <1>1, <5>1, PathSeq DEF Renaming
            <7> QED BY <2>4, <7>1, <7>2, PathSeq
          <6> QED BY <6>1, <6>2
        <5>2. ~IsPrefix(dst, Parent(q))
          BY <1>1, <1>2, <3>3, <5>1 DEF Renaming
        <5>3. ~IsPrefix(src, Parent(q))
          <6>1. Parent(q) = src => IsPrefix(src, q)
            BY <2>4
          <6> QED BY <1>2, <2>2, <5>1, <6>1
        <5> QED BY <1>4, <2>4, <4>3, <5>2, <5>3
      <4> QED BY <4>4, <4>5
    <3> QED BY <3>1, <3>2, <3>3
  <2> QED BY <2>2, <2>3, <2>5, <2>6
<1>9. Tree(at')
  BY <1>7, <1>8 DEF Tree
<1>10. Below(src) \subseteq Inodes
  BY DEF Below, TreeInv, Trees
<1>11. ASSUME NEW q \in Path, at[q] # NoIno, at[q] \notin Below(src) PROVE at'[q] = at[q]
  <2>1. ~IsPrefix(src, q)
    BY <1>11 DEF Below
  <2>2. ~IsPrefix(dst, q)
    BY <1>1, <1>11, UnderNothing
  <2> QED BY <1>4, <2>1, <2>2
<1> QED BY <1>5, <1>9, <1>10, <1>11 DEF TreeInv

-----------------------------------------------------------------------------
(* Names: the tables between the steps of a call                             *)

(* Locking or marking an entry changes neither inodes nor paths.             *)
LEMMA FlagsFit ==
  ASSUME NEW G, NEW T \in Tables, Within(T, G), NEW i \in DOMAIN T, T[i] \in Entries
  PROVE  /\ LockedAt(T, i) \in Tables /\ Within(LockedAt(T, i), G)
         /\ Marked(T, i) \in Tables /\ Within(Marked(T, i), G)
<1>1. PICK e \in Entries : e = T[i]
  OBVIOUS
<1>2. PICK a, b : a = [e EXCEPT !.locked = TRUE] /\ b = [e EXCEPT !.mark = TRUE]
  OBVIOUS
<1>3. /\ a \in Entries /\ a.ino = e.ino /\ a.path = e.path /\ a \in Slots
      /\ b \in Entries /\ b.ino = e.ino /\ b.path = e.path /\ b \in Slots
  BY <1>2 DEF Entries, Slots
<1>4. LockedAt(T, i) = [T EXCEPT ![i] = a] /\ Marked(T, i) = [T EXCEPT ![i] = b]
  BY <1>1, <1>2 DEF LockedAt, Marked
<1>5. e # Hole /\ <<e.ino, e.path>> \in G
  BY <1>1, HoleIs DEF Within
<1>6. ASSUME NEW c \in Entries, c.ino = e.ino, c.path = e.path
      PROVE  [T EXCEPT ![i] = c] \in Tables /\ Within([T EXCEPT ![i] = c], G)
  <2>1. PICK U : U = [T EXCEPT ![i] = c]
    OBVIOUS
  <2>2. /\ U \in Tables /\ DOMAIN U = DOMAIN T /\ U[i] = c
        /\ \A k \in DOMAIN T : k # i => U[k] = T[k]
    BY <2>1, SlotSet DEF Slots
  <2>3. ASSUME NEW k \in DOMAIN U, U[k] # Hole PROVE <<U[k].ino, U[k].path>> \in G
    <3>1. CASE k = i
      BY <1>5, <1>6, <2>2, <3>1
    <3>2. CASE k # i
      BY <2>2, <2>3, <3>2 DEF Within
    <3> QED BY <3>1, <3>2
  <2> QED BY <2>1, <2>2, <2>3 DEF Within
<1> QED BY <1>3, <1>4, <1>6

(* Unlocking keeps the entries.                                              *)
LEMMA UnlockedIs ==
  ASSUME NEW T \in Tables
  PROVE  LET R == AllUnlocked(T) IN
         /\ R \in Tables /\ Len(R) <= Len(T)
         /\ \A k \in DOMAIN R : /\ k \in DOMAIN T /\ (T[k] = Hole <=> R[k] = Hole)
                                /\ R[k] # Hole => R[k].ino = T[k].ino /\ R[k].path = T[k].path
                                                  /\ ~R[k].locked
         /\ \A k \in DOMAIN T : T[k] # Hole => k \in DOMAIN R
<1> DEFINE V(k) == IF T[k] = Hole THEN Hole ELSE [T[k] EXCEPT !.locked = FALSE]
           U == [k \in DOMAIN T |-> V(k)]
<1>1. AllUnlocked(T) = Trim(U)
  BY DEF AllUnlocked
<1>2. ASSUME NEW k \in DOMAIN T
      PROVE  /\ V(k) \in Slots /\ (T[k] = Hole <=> V(k) = Hole)
             /\ V(k) # Hole => V(k).ino = T[k].ino /\ V(k).path = T[k].path /\ ~V(k).locked
  <2>1. CASE T[k] = Hole
    BY <2>1 DEF Slots
  <2>2. CASE T[k] # Hole
    <3>1. PICK e : e = T[k]
      OBVIOUS
    <3>2. e \in Entries
      BY <2>2, <3>1 DEF Tables, Slots
    <3>3. PICK c : c = [e EXCEPT !.locked = FALSE]
      OBVIOUS
    <3>4. c \in Entries /\ c.ino = e.ino /\ c.path = e.path /\ c.locked = FALSE
      BY <3>2, <3>3 DEF Entries
    <3>5. V(k) = c
      BY <2>2, <3>1, <3>3
    <3> HIDE DEF V
    <3> QED BY <2>2, <3>1, <3>4, <3>5, HoleIs DEF Slots
  <2> QED BY <2>1, <2>2
<1>3. U \in Tables /\ DOMAIN U = DOMAIN T /\ Len(U) = Len(T) /\ \A k \in DOMAIN T : U[k] = V(k)
  <2>1. Len(T) \in Nat /\ DOMAIN T = 1..Len(T)
    BY DEF Tables
  <2>2. \A k \in DOMAIN T : V(k) \in Slots
    BY <1>2
  <2> HIDE DEF V
  <2>3. U \in [1..Len(T) -> Slots] /\ DOMAIN U = DOMAIN T /\ \A k \in DOMAIN T : U[k] = V(k)
    BY <2>1, <2>2
  <2> HIDE DEF U
  <2> QED BY <2>1, <2>3 DEF Tables
<1> HIDE DEF U, V
<1>4. /\ Trim(U) \in Tables /\ Len(Trim(U)) <= Len(U)
      /\ \A k \in DOMAIN Trim(U) : k \in DOMAIN U /\ Trim(U)[k] = U[k]
      /\ \A k \in DOMAIN U : U[k] # Hole => k \in DOMAIN Trim(U)
  BY <1>3, TrimIs
<1> QED BY <1>1, <1>2, <1>3, <1>4

(* A name behind a path.                                                     *)
LEMMA AppendIs ==
  ASSUME NEW q \in Path, NEW w, Append(q, w) \in Path
  PROVE  Parent(Append(q, w)) = q
<1>1. q \in Seq(Words) /\ Len(q) \in 0..2
  BY PathSeq
<1>2. PICK s : s = Append(q, w)
  OBVIOUS
<1>3. Len(s) = Len(q) + 1 /\ \A i \in 1..Len(q) : s[i] = q[i]
  BY <1>1, <1>2
<1>4. PICK n \in Nat : n = Len(q)
  BY <1>1
<1>5. Parent(s) = SubSeq(s, 1, n)
  BY <1>3, <1>4 DEF Parent, Front
<1>6. \A i \in 1..n : s[i] \in Words /\ s[i] = q[i]
  BY <1>1, <1>3, <1>4
<1>7. /\ SubSeq(s, 1, n) \in Seq(Words)
      /\ Len(SubSeq(s, 1, n)) = IF 1 <= n THEN n - 1 + 1 ELSE 0
      /\ \A i \in 1..(n - 1 + 1) : SubSeq(s, 1, n)[i] = s[1 + i - 1]
  BY <1>6, SubSeqProperties
<1>8. PICK t : t = SubSeq(s, 1, n)
  OBVIOUS
<1>9. t \in Seq(Words) /\ Len(t) = n
  BY <1>7, <1>8
<1>10. \A i \in 1..n : t[i] = q[i]
  BY <1>6, <1>7, <1>8
<1>11. t = q
  BY <1>1, <1>4, <1>9, <1>10, SeqEqual
<1> QED BY <1>2, <1>5, <1>8, <1>11

-----------------------------------------------------------------------------
(* Names: the inductive invariant                                            *)

(* Inodes a handle of p still stands for, and those of some process.         *)
Clean(p) == Inodes \ (renamed \cup gone[p] \cup goneOld[p])
CleanSome == UNION {Clean(p) : p \in Proc}

(* What p may have in its table: a clean inode is where the entry says; and  *)
(* a directory that is clean for any process too, since the entry may become *)
(* a link, which all processes follow.                                       *)
TablePairs(p) ==
  {e \in Inodes \X Path :
     /\ e[1] \in Clean(p) => at[e[2]] = e[1]
     /\ e[1] \in CleanSome /\ IsDir(e[2]) => at[e[2]] = e[1]}
LinkPairs == {e \in Inodes \X Path : e[1] \in CleanSome => at[e[2]] = e[1]}

Gots == [want : Inodes \cup {NoIno}, ino : Inodes \cup {NoIno}]
DirHandles == [path : Path, ino : Inodes \cup {NoIno}, temp : BOOLEAN]

NamesTypes ==
  /\ base \in [Proc -> Tables] /\ disk \in Disks /\ got \in [Proc -> Gots]
  /\ dirs \in [Proc -> Seq(DirHandles)]
  /\ gone \in [Proc -> SUBSET Inodes] /\ goneOld \in [Proc -> SUBSET Inodes]

HandleInv ==
  /\ TreeInv /\ NamesTypes
  /\ \A p \in Proc : Within(base[p], TablePairs(p))
  /\ Links(disk, LinkPairs)
  /\ BaseHandleTrue /\ ShortHandleTrue

(* The pairs of one inode and path.                                          *)
LEMMA PairsAre ==
  ASSUME NEW p \in Proc, NEW x \in Inodes, NEW q \in Path
  PROVE  /\ <<x, q>> \in TablePairs(p) <=>
              /\ x \in Clean(p) => at[q] = x
              /\ x \in CleanSome /\ IsDir(q) => at[q] = x
         /\ <<x, q>> \in LinkPairs <=> (x \in CleanSome => at[q] = x)
         /\ x \in Clean(p) => x \in CleanSome
<1>1. PICK e : e = <<x, q>>
  OBVIOUS
<1>2. e \in Inodes \X Path /\ e[1] = x /\ e[2] = q
  BY <1>1
<1>3. x \in Clean(p) => x \in CleanSome
  BY DEF CleanSome
<1>4. e \in TablePairs(p) <=>
        /\ x \in Clean(p) => at[q] = x
        /\ x \in CleanSome /\ IsDir(q) => at[q] = x
  BY <1>2 DEF TablePairs
<1>5. e \in LinkPairs <=> (x \in CleanSome => at[q] = x)
  BY <1>2 DEF LinkPairs
<1> QED BY <1>1, <1>3, <1>4, <1>5

(* The pairs fit together, as the calls need them.                           *)
LEMMA PairsFit ==
  ASSUME TreeInv, NEW p \in Proc
  PROVE  Linkable(TablePairs(p), LinkPairs) /\ Present(TablePairs(p))
<1>1. ASSUME NEW x \in Inodes, NEW q \in Path, <<x, q>> \in TablePairs(p), IsDir(q)
      PROVE  <<x, q>> \in LinkPairs
  BY <1>1, PairsAre
<1>2. ASSUME NEW q \in Path, at[q] # NoIno PROVE <<at[q], q>> \in TablePairs(p)
  <2>1. at[q] \in Inodes
    BY <1>2 DEF TreeInv, Trees
  <2> QED BY <2>1, PairsAre
<1> QED BY <1>1, <1>2 DEF Linkable, Present

(* build_base in a state of the invariant.                                   *)
LEMMA BuildFits ==
  ASSUME TreeInv, NEW p \in Proc,
         NEW T \in Tables, Within(T, TablePairs(p)), NEW D \in Disks, Links(D, LinkPairs),
         NEW h \in Inodes, NEW rest
  PROVE  Built(BuildBase(T, D, h, rest), h, rest, TablePairs(p), LinkPairs)
<1>1. PICK G, H : G = TablePairs(p) /\ H = LinkPairs
  OBVIOUS
<1>2. Linkable(G, H) /\ Present(G) /\ Within(T, G) /\ Links(D, H) /\ at \in Trees
  BY <1>1, PairsFit DEF TreeInv
<1>3. Built(BuildBase(T, D, h, rest), h, rest, G, H)
  BY <1>2, BuildIs
<1> QED BY <1>1, <1>3

(* insert_get_base_entry in a state of the invariant.                        *)
LEMMA InsertFits ==
  ASSUME TreeInv, NEW p \in Proc,
         NEW T \in Tables, Within(T, TablePairs(p)), NEW D \in Disks, Links(D, LinkPairs),
         NEW q \in Path, NEW x \in Inodes, at[q] = x
  PROVE  LET r == InsertGet(T, D, q, x) IN
         /\ Fits(r, TablePairs(p), LinkPairs) /\ r.slot # 0
         /\ r.tab[r.slot].ino = x /\ r.tab[r.slot].path = q
<1>1. PICK G, H : G = TablePairs(p) /\ H = LinkPairs
  OBVIOUS
<1>2. x # NoIno
  BY NamesConstants DEF Inodes
<1>3. Linkable(G, H) /\ Within(T, G) /\ Links(D, H) /\ <<x, q>> \in G
  BY <1>1, <1>2, PairsFit DEF Present
<1>4. PICK r : r = InsertGet(T, D, q, x)
  OBVIOUS
<1>5. /\ Fits(r, G, H) /\ (r.slot # 0 <=> x # NoIno)
      /\ r.slot # 0 => r.tab[r.slot].ino = x /\ r.tab[r.slot].path = q
  BY <1>3, <1>4, InsertIs
<1> QED BY <1>1, <1>2, <1>4, <1>5

(* A step takes inodes out of the clean ones, never puts one back.           *)
Grows ==
  /\ gone' \in [Proc -> SUBSET Inodes] /\ goneOld' \in [Proc -> SUBSET Inodes]
  /\ renamed \subseteq renamed'
  /\ \A q \in Proc : gone[q] \subseteq gone'[q] /\ goneOld[q] \subseteq goneOld'[q]

(* No inode becomes clean.                                                   *)
LEMMA CleanShrinks ==
  ASSUME Grows
  PROVE  (\A q \in Proc : Clean(q)' \subseteq Clean(q)) /\ CleanSome' \subseteq CleanSome
<1>1. \A q \in Proc : Clean(q)' \subseteq Clean(q)
  BY DEF Grows, Clean
<1> QED BY <1>1 DEF CleanSome

(* An inode that stays where it is keeps the pairs good.                     *)
LEMMA PairsKept ==
  ASSUME Grows, NEW p \in Proc, NEW x \in Inodes, NEW q \in Path,
         x \in CleanSome' /\ at[q] = x => at'[q] = x
  PROVE  /\ <<x, q>> \in TablePairs(p) => <<x, q>> \in TablePairs(p)'
         /\ <<x, q>> \in LinkPairs => <<x, q>> \in LinkPairs'
<1>1. Clean(p)' \subseteq Clean(p) /\ CleanSome' \subseteq CleanSome
  BY CleanShrinks
<1>2. x \in Clean(p)' => x \in CleanSome'
  BY DEF CleanSome
<1>3. PICK e : e = <<x, q>>
  OBVIOUS
<1>4. e \in Inodes \X Path /\ e[1] = x /\ e[2] = q
  BY <1>3
<1>5. ASSUME e \in TablePairs(p) PROVE e \in TablePairs(p)'
  <2>1. x \in Clean(p)' => at'[q] = x
    BY <1>1, <1>2, <1>4, <1>5 DEF TablePairs
  <2>2. x \in CleanSome' /\ IsDir(q) => at'[q] = x
    BY <1>1, <1>4, <1>5 DEF TablePairs
  <2> QED BY <1>4, <2>1, <2>2 DEF TablePairs
<1>6. ASSUME e \in LinkPairs PROVE e \in LinkPairs'
  BY <1>1, <1>4, <1>6 DEF LinkPairs
<1> QED BY <1>3, <1>5, <1>6

(* Everything clean stays where it is.                                       *)
Stays == \A x \in Inodes, q \in Path : x \in CleanSome' /\ at[q] = x => at'[q] = x

(* A table keeps good pairs.                                                 *)
LEMMA WithinStays ==
  ASSUME Grows, Stays, NEW p \in Proc, NEW T \in Tables, Within(T, TablePairs(p))
  PROVE  Within(T, TablePairs(p)')
<1>1. ASSUME NEW k \in DOMAIN T, T[k] # Hole
      PROVE  <<T[k].ino, T[k].path>> \in TablePairs(p)'
  <2>1. PICK e \in Entries : e = T[k]
    BY <1>1 DEF Tables, Slots
  <2>2. e.ino \in Inodes /\ e.path \in Path /\ <<e.ino, e.path>> \in TablePairs(p)
    BY <1>1, <2>1 DEF Entries, Within
  <2>3. <<e.ino, e.path>> \in TablePairs(p)'
    BY <2>2, PairsKept DEF Stays
  <2> QED BY <2>1, <2>3
<1> QED BY <1>1 DEF Within

(* The links keep good pairs.                                                *)
LEMMA LinksStay ==
  ASSUME Grows, Stays, NEW D \in Disks, Links(D, LinkPairs)
  PROVE  Links(D, LinkPairs')
<1>1. ASSUME NEW x \in Ino, D[x] # NoPath PROVE <<x, D[x]>> \in LinkPairs'
  <2>1. x \in Inodes /\ D[x] \in Path /\ <<x, D[x]>> \in LinkPairs
    BY <1>1 DEF Inodes, Disks, DirsOf, Links
  <2>2. CASE Proc = {}
    <3>1. CleanSome' = {}
      BY <2>2 DEF CleanSome
    <3>2. PICK e : e = <<x, D[x]>>
      OBVIOUS
    <3>3. e \in Inodes \X Path /\ e[1] = x
      BY <2>1, <3>2
    <3>4. e \in LinkPairs'
      BY <3>1, <3>3 DEF LinkPairs
    <3> QED BY <3>2, <3>4
  <2>3. CASE Proc # {}
    <3>1. PICK p \in Proc : TRUE
      BY <2>3
    <3>2. PICK q : q = D[x]
      OBVIOUS
    <3>3. <<x, q>> \in LinkPairs'
      BY <2>1, <3>1, <3>2, PairsKept DEF Stays
    <3> QED BY <3>2, <3>3
  <2> QED BY <2>2, <2>3
<1> QED BY <1>1 DEF Links

(* What the handles that were given out stand for.                           *)
LEMMA GotStays ==
  ASSUME HandleInv, Grows, \A p \in Proc : got'[p] = got[p] \/ got'[p] = Nothing
  PROVE  BaseHandleTrue'
<1>1. ASSUME NEW p \in Proc, got'[p].want \notin renamed' \cup gone'[p] \cup goneOld'[p]
      PROVE  got'[p].ino = got'[p].want
  <2>1. CASE got'[p] = Nothing
    BY <2>1 DEF Nothing
  <2>2. CASE got'[p] = got[p]
    <3>1. got[p].want \notin renamed \cup gone[p] \cup goneOld[p]
      BY <1>1, <2>2 DEF Grows
    <3> QED BY <2>2, <3>1 DEF HandleInv, BaseHandleTrue
  <2> QED BY <2>1, <2>2
<1> QED BY <1>1 DEF BaseHandleTrue

(* Short handles stay true when whatever moves is counted, and p's handles   *)
(* of what it removes are freed.                                             *)
LEMMA ShortStays ==
  ASSUME HandleInv, Grows, NEW p \in Proc,
         \A q \in Proc : \A n \in DOMAIN dirs'[q] :
            n \in DOMAIN dirs[q] /\ (dirs'[q][n] = dirs[q][n] \/ dirs'[q][n].ino = NoIno),
         \A x \in Inodes, s \in Path :
            at[s] = x => \/ at'[s] = x \/ x \in renamed'
                         \/ /\ \A q \in Proc \ {p} : x \in gone'[q]
                            /\ \A n \in DOMAIN dirs'[p] : dirs'[p][n].ino # x
  PROVE  ShortHandleTrue'
<1>1. ASSUME NEW q \in Proc, NEW n \in DOMAIN dirs'[q], dirs'[q][n].ino # NoIno,
             dirs'[q][n].ino \notin renamed' \cup gone'[q]
      PROVE  at'[dirs'[q][n].path] = dirs'[q][n].ino
  <2>1. PICK d : d = dirs[q][n]
    OBVIOUS
  <2>2. n \in DOMAIN dirs[q] /\ dirs'[q][n] = d
    BY <1>1, <2>1
  <2>3. d \in DirHandles
    BY <2>1, <2>2 DEF HandleInv, NamesTypes
  <2>4. d.ino \in Inodes /\ d.path \in Path
    BY <1>1, <2>2, <2>3 DEF DirHandles
  <2>5. d.ino \notin renamed \cup gone[q]
    BY <1>1, <2>2 DEF Grows
  <2>6. at[d.path] = d.ino
    BY <1>1, <2>1, <2>2, <2>5 DEF HandleInv, ShortHandleTrue
  <2>7. CASE at'[d.path] = d.ino \/ d.ino \in renamed'
    BY <1>1, <2>2, <2>7
  <2>8. CASE /\ \A o \in Proc \ {p} : d.ino \in gone'[o]
             /\ \A m \in DOMAIN dirs'[p] : dirs'[p][m].ino # d.ino
    <3>1. q = p
      BY <1>1, <2>2, <2>8
    <3> QED BY <1>1, <2>2, <2>8, <3>1
  <2> QED BY <2>4, <2>6, <2>7, <2>8
<1> QED BY <1>1 DEF ShortHandleTrue

(* The volume does not change.                                               *)
LEMMA SameStays ==
  ASSUME HandleInv, UNCHANGED <<at, renamed, gone, goneOld>>
  PROVE  Grows /\ Stays /\ TreeInv'
<1>1. Grows
  BY DEF Grows, HandleInv, NamesTypes
<1>2. Stays
  BY DEF Stays
<1>3. TreeInv'
  BY DEF HandleInv, TreeInv, Tree
<1> QED BY <1>1, <1>2, <1>3

(* The table of one process and the links change, and fit.                   *)
LEMMA SetFits ==
  ASSUME HandleInv, Grows, TreeInv', NEW p \in Proc,
         \A q \in Proc \ {p} : Within(base[q], TablePairs(q)'),
         NEW T \in Tables, Within(T, TablePairs(p)'), NEW D \in Disks, Links(D, LinkPairs'),
         base' = [base EXCEPT ![p] = T], disk' = D,
         got' \in [Proc -> Gots], dirs' \in [Proc -> Seq(DirHandles)],
         BaseHandleTrue', ShortHandleTrue'
  PROVE  HandleInv'
<1>1. /\ base \in [Proc -> Tables] /\ base'[p] = T
      /\ base' \in [Proc -> Tables] /\ \A q \in Proc \ {p} : base'[q] = base[q]
  BY DEF HandleInv, NamesTypes
<1>2. NamesTypes'
  BY <1>1 DEF NamesTypes, Grows
<1>3. ASSUME NEW q \in Proc PROVE Within(base'[q], TablePairs(q)')
  <2>1. CASE q = p
    BY <1>1, <2>1
  <2>2. CASE q # p
    BY <1>1, <2>2
  <2> QED BY <2>1, <2>2
<1>4. \A q \in Proc : Within(base[q], TablePairs(q))'
  BY <1>3 DEF Within
<1>5. Links(disk, LinkPairs)'
  BY DEF Links
<1> QED BY <1>2, <1>4, <1>5 DEF HandleInv

(* The same, when nothing clean moves.                                       *)
LEMMA SetStays ==
  ASSUME HandleInv, Grows, Stays, TreeInv', NEW p \in Proc,
         NEW T \in Tables, Within(T, TablePairs(p)), NEW D \in Disks, Links(D, LinkPairs),
         base' = [base EXCEPT ![p] = T], disk' = D,
         got' \in [Proc -> Gots], dirs' \in [Proc -> Seq(DirHandles)],
         BaseHandleTrue', ShortHandleTrue'
  PROVE  HandleInv'
<1>1. Within(T, TablePairs(p)') /\ Links(D, LinkPairs')
  BY WithinStays, LinksStay
<1>2. \A q \in Proc : Within(base[q], TablePairs(q)')
  <2>1. ASSUME NEW q \in Proc PROVE Within(base[q], TablePairs(q)')
    <3>1. PICK U \in Tables : U = base[q]
      BY DEF HandleInv, NamesTypes
    <3>2. Within(U, TablePairs(q))
      BY <3>1 DEF HandleInv
    <3> QED BY <3>1, <3>2, WithinStays
  <2> QED BY <2>1
<1> QED BY <1>1, <1>2, SetFits

(* Neither tables nor links change.                                          *)
LEMMA TablesStay ==
  ASSUME HandleInv, Grows, Stays, TreeInv', UNCHANGED <<base, disk>>,
         got' \in [Proc -> Gots], dirs' \in [Proc -> Seq(DirHandles)],
         BaseHandleTrue', ShortHandleTrue'
  PROVE  HandleInv'
<1>1. NamesTypes'
  BY DEF NamesTypes, Grows, HandleInv
<1>2. ASSUME NEW q \in Proc PROVE Within(base'[q], TablePairs(q)')
  <2>1. PICK U \in Tables : U = base[q]
    BY DEF HandleInv, NamesTypes
  <2>2. Within(U, TablePairs(q))
    BY <2>1 DEF HandleInv
  <2> QED BY <2>1, <2>2, WithinStays
<1>3. \A q \in Proc : Within(base[q], TablePairs(q))'
  BY <1>2 DEF Within
<1>4. Links(disk, LinkPairs')
  BY LinksStay DEF HandleInv, NamesTypes
<1>5. Links(disk, LinkPairs)'
  BY <1>4 DEF Links
<1> QED BY <1>1, <1>3, <1>5 DEF HandleInv

(* The short handles do not change with the volume.                          *)
LEMMA ShortSame ==
  ASSUME HandleInv, UNCHANGED <<at, renamed, gone, goneOld, dirs>>
  PROVE  ShortHandleTrue' /\ dirs' \in [Proc -> Seq(DirHandles)]
  BY DEF ShortHandleTrue, HandleInv, NamesTypes

(* A call that only looks.                                                   *)
LEMMA LookUpHandles ==
  ASSUME HandleInv, NEW p \in Proc, NEW h \in Inodes, NEW rest, LookUp(p, h, rest)
  PROVE  HandleInv'
<1>1. PICK r \in {BuildBase(base[p], disk, h, rest)} :
        /\ Set(p, r)
        /\ got' = [got EXCEPT ![p] = IF rest = << >> /\ r.slot # 0
                                     THEN [want |-> h, ino |-> r.tab[r.slot].ino] ELSE Nothing]
        /\ UNCHANGED <<at, dirs, freed, changes, renamed, gone, goneOld>>
  BY DEF LookUp
<1>2. PICK T, D : T = base[p] /\ D = disk
  OBVIOUS
<1>3. T \in Tables /\ Within(T, TablePairs(p)) /\ D \in Disks /\ Links(D, LinkPairs) /\ TreeInv
  BY <1>2 DEF HandleInv, NamesTypes
<1>4. Built(BuildBase(T, D, h, rest), h, rest, TablePairs(p), LinkPairs)
  BY <1>3, BuildFits
<1>5. r = BuildBase(T, D, h, rest)
  BY <1>1, <1>2
<1>6. /\ Fits(r, TablePairs(p), LinkPairs)
      /\ r.slot # 0 =>
           /\ There(PathOf(r)) /\ r.tab[r.slot].ino = at[PathOf(r)]
           /\ \E q \in Path : There(q) /\ Behind(h, q, TablePairs(p), LinkPairs)
                              /\ PathOf(r) = q \o rest
  BY <1>4, <1>5 DEF Built
<1>7. Grows /\ Stays /\ TreeInv' /\ ShortHandleTrue' /\ dirs' \in [Proc -> Seq(DirHandles)]
  BY <1>1, SameStays, ShortSame
<1>8. PICK g : g = IF rest = << >> /\ r.slot # 0
                   THEN [want |-> h, ino |-> r.tab[r.slot].ino] ELSE Nothing
  OBVIOUS
<1>9. g \in Gots /\ (g.want \notin renamed \cup gone[p] \cup goneOld[p] => g.ino = g.want)
  <2>1. CASE rest = << >> /\ r.slot # 0
    <3>1. PICK q \in Path : Behind(h, q, TablePairs(p), LinkPairs) /\ PathOf(r) = q \o << >>
      BY <1>6, <2>1
    <3>2. PathOf(r) = q
      BY <3>1, PathSeq
    <3>3. There(q) /\ r.tab[r.slot].ino = at[q]
      BY <1>6, <2>1, <3>2
    <3>4. at[q] \in Inodes
      BY <1>3, <3>3 DEF There, TreeInv, Trees
    <3>5. g.want = h /\ g.ino = at[q] /\ g \in Gots
      BY <1>8, <2>1, <3>3, <3>4 DEF Gots
    <3>6. ASSUME h \notin renamed \cup gone[p] \cup goneOld[p] PROVE at[q] = h
      <4>1. h \in Clean(p)
        BY <3>6 DEF Clean
      <4>2. CASE <<h, q>> \in TablePairs(p) \cup LinkPairs
        BY <4>1, <4>2, PairsAre
      <4>3. CASE h = Root /\ q = << >>
        BY <1>3, <4>3, TreeIs
      <4> QED BY <3>1, <4>2, <4>3 DEF Behind
    <3> QED BY <3>5, <3>6
  <2>2. CASE ~(rest = << >> /\ r.slot # 0)
    <3>1. g = Nothing
      BY <1>8, <2>2
    <3> QED BY <3>1 DEF Gots, Nothing
  <2> QED BY <2>1, <2>2
<1>10. got' = [got EXCEPT ![p] = g]
  BY <1>1, <1>8
<1>11. got' \in [Proc -> Gots] /\ BaseHandleTrue'
  <2>1. got \in [Proc -> Gots] /\ BaseHandleTrue
    BY DEF HandleInv, NamesTypes
  <2>2. /\ got' \in [Proc -> Gots] /\ got'[p] = g
        /\ \A q \in Proc \ {p} : got'[q] = got[q]
    BY <1>9, <1>10, <2>1
  <2>3. ASSUME NEW q \in Proc, got'[q].want \notin renamed \cup gone[q] \cup goneOld[q]
        PROVE  got'[q].ino = got'[q].want
    BY <1>9, <2>1, <2>2, <2>3 DEF BaseHandleTrue
  <2> QED BY <1>1, <2>2, <2>3 DEF BaseHandleTrue
<1>12. PICK U, E : U = r.tab /\ E = r.disk
  OBVIOUS
<1>13. U \in Tables /\ Within(U, TablePairs(p)) /\ E \in Disks /\ Links(E, LinkPairs)
  BY <1>6, <1>12 DEF Fits
<1>14. base' = [base EXCEPT ![p] = U] /\ disk' = E
  BY <1>1, <1>12 DEF Set
<1> QED BY <1>7, <1>11, <1>13, <1>14, SetStays

(* A call that gives out no handle.                                          *)
LEMMA GotNothing ==
  ASSUME HandleInv, Grows, NEW p \in Proc, NothingFound(p)
  PROVE  got' \in [Proc -> Gots] /\ BaseHandleTrue'
<1>1. got \in [Proc -> Gots] /\ Nothing \in Gots
  BY DEF HandleInv, NamesTypes, Gots, Nothing
<1>2. got' \in [Proc -> Gots] /\ \A q \in Proc : got'[q] = got[q] \/ got'[q] = Nothing
  BY <1>1 DEF NothingFound
<1> QED BY <1>2, GotStays

(* A call that has nothing to do with base handles.                          *)
LEMMA GotSame ==
  ASSUME HandleInv, Grows, UNCHANGED got
  PROVE  got' \in [Proc -> Gots] /\ BaseHandleTrue'
<1>1. got' \in [Proc -> Gots] /\ \A q \in Proc : got'[q] = got[q] \/ got'[q] = Nothing
  BY DEF HandleInv, NamesTypes
<1> QED BY <1>1, GotStays

(* Something is made.                                                        *)
LEMMA MakeStays ==
  ASSUME HandleInv, NEW path \in Path, at[path] = NoIno, at[Parent(path)] # NoIno,
         NEW i \in Unused, MakeAt(path, i), UNCHANGED <<dirs, renamed, gone, goneOld>>
  PROVE  /\ Grows /\ Stays /\ TreeInv' /\ at'[path] = i
         /\ ShortHandleTrue' /\ dirs' \in [Proc -> Seq(DirHandles)]
<1>1. TreeInv /\ at \in Trees /\ at' = [at EXCEPT ![path] = i]
  BY DEF HandleInv, TreeInv, MakeAt
<1>2. TreeInv'
  BY <1>1, TreeMake
<1>3. at'[path] = i /\ \A q \in Path : q # path => at'[q] = at[q]
  BY <1>1 DEF Trees
<1>4. Grows
  BY DEF Grows, HandleInv, NamesTypes
<1>5. \A x \in Inodes, q \in Path : at[q] = x => at'[q] = x
  BY <1>3, NamesConstants DEF Inodes
<1>6. Stays
  BY <1>5 DEF Stays
<1>7. dirs' \in [Proc -> Seq(DirHandles)]
  BY DEF HandleInv, NamesTypes
<1>8. ShortHandleTrue'
  <2>1. ASSUME NEW q \in Proc, NEW n \in DOMAIN dirs[q], dirs[q][n].ino # NoIno,
               dirs[q][n].ino \notin renamed \cup gone[q]
        PROVE  at'[dirs[q][n].path] = dirs[q][n].ino
    <3>1. dirs[q][n] \in DirHandles
      BY <2>1 DEF HandleInv, NamesTypes
    <3>2. dirs[q][n].ino \in Inodes /\ dirs[q][n].path \in Path
      BY <2>1, <3>1 DEF DirHandles
    <3>3. at[dirs[q][n].path] = dirs[q][n].ino
      BY <2>1 DEF HandleInv, ShortHandleTrue
    <3> QED BY <1>5, <3>2, <3>3
  <2> QED BY <2>1 DEF ShortHandleTrue
<1> QED BY <1>2, <1>3, <1>4, <1>6, <1>7, <1>8

(* In the next state the pairs fit together too.                             *)
LEMMA LinkableNext ==
  ASSUME NEW p \in Proc
  PROVE  Linkable(TablePairs(p)', LinkPairs')
<1>1. ASSUME NEW x \in Inodes, NEW q \in Path, <<x, q>> \in TablePairs(p)', IsDir(q)
      PROVE  <<x, q>> \in LinkPairs'
  <2>1. PICK e : e = <<x, q>>
    OBVIOUS
  <2>2. e \in Inodes \X Path /\ e[1] = x /\ e[2] = q
    BY <2>1
  <2>3. x \in CleanSome' => at'[q] = x
    BY <1>1, <2>1, <2>2 DEF TablePairs
  <2>4. e \in LinkPairs'
    BY <2>2, <2>3 DEF LinkPairs
  <2> QED BY <2>1, <2>4
<1> QED BY <1>1 DEF Linkable

(* nw_open_creat_file_or_dir.                                                *)
LEMMA CreateHandles ==
  ASSUME HandleInv, NEW p \in Proc, NEW h \in Inodes, NEW rest, NEW i, Create(p, h, rest, i)
  PROVE  HandleInv'
<1>1. PICK r \in {BuildBase(base[p], disk, h, rest)} : r.slot = 0 /\
        \E s \in {BuildBase(r.tab, r.disk, h, Front(rest))} : s.slot # 0 /\
        \E path \in {Append(PathOf(s), Last(rest))} :
          /\ path \in Path /\ at[path] = NoIno
          /\ MakeAt(path, i)
          /\ Set(p, InsertGet(s.tab, s.disk, path, i))
  BY DEF Create
<1>2. PICK s \in {BuildBase(r.tab, r.disk, h, Front(rest))} : s.slot # 0 /\
        \E path \in {Append(PathOf(s), Last(rest))} :
          /\ path \in Path /\ at[path] = NoIno
          /\ MakeAt(path, i)
          /\ Set(p, InsertGet(s.tab, s.disk, path, i))
  BY <1>1
<1>3. PICK path \in {Append(PathOf(s), Last(rest))} :
          /\ path \in Path /\ at[path] = NoIno
          /\ MakeAt(path, i)
          /\ Set(p, InsertGet(s.tab, s.disk, path, i))
  BY <1>2
<1>4. NothingFound(p) /\ i \in Unused /\ UNCHANGED <<dirs, freed, renamed, gone, goneOld>>
  BY DEF Create
<1>5. Fits(r, TablePairs(p), LinkPairs) /\ TreeInv
  <2>1. PICK T, D : T = base[p] /\ D = disk
    OBVIOUS
  <2>2. T \in Tables /\ Within(T, TablePairs(p)) /\ D \in Disks /\ Links(D, LinkPairs) /\ TreeInv
    BY <2>1 DEF HandleInv, NamesTypes
  <2>3. Built(BuildBase(T, D, h, rest), h, rest, TablePairs(p), LinkPairs)
    BY <2>2, BuildFits
  <2> QED BY <1>1, <2>1, <2>2, <2>3 DEF Built
<1>6. Fits(s, TablePairs(p), LinkPairs) /\ There(PathOf(s))
  <2>1. PICK T, D, front : T = r.tab /\ D = r.disk /\ front = Front(rest)
    OBVIOUS
  <2>2. T \in Tables /\ Within(T, TablePairs(p)) /\ D \in Disks /\ Links(D, LinkPairs)
    BY <1>5, <2>1 DEF Fits
  <2>3. Built(BuildBase(T, D, h, front), h, front, TablePairs(p), LinkPairs)
    BY <1>5, <2>2, BuildFits
  <2>4. s = BuildBase(T, D, h, front) /\ s.slot # 0
    BY <1>2, <2>1
  <2> QED BY <2>3, <2>4 DEF Built
<1>7. at[Parent(path)] # NoIno
  <2>1. PICK q \in Path : q = PathOf(s) /\ at[q] # NoIno
    BY <1>6 DEF There
  <2>2. path = Append(q, Last(rest)) /\ path \in Path
    BY <1>3, <2>1
  <2>3. Parent(path) = q
    BY <2>2, AppendIs
  <2> QED BY <2>1, <2>3
<1>8. /\ Grows /\ Stays /\ TreeInv' /\ at'[path] = i
      /\ ShortHandleTrue' /\ dirs' \in [Proc -> Seq(DirHandles)]
  BY <1>3, <1>4, <1>7, MakeStays
<1>9. got' \in [Proc -> Gots] /\ BaseHandleTrue'
  BY <1>4, <1>8, GotNothing
<1>10. PICK T, D : T = s.tab /\ D = s.disk
  OBVIOUS
<1>11. T \in Tables /\ Within(T, TablePairs(p)) /\ D \in Disks /\ Links(D, LinkPairs)
  BY <1>6, <1>10 DEF Fits
<1>12. PICK G, H : G = TablePairs(p)' /\ H = LinkPairs'
  OBVIOUS
<1>13. Linkable(G, H) /\ Within(T, G) /\ Links(D, H)
  BY <1>8, <1>11, <1>12, LinkableNext, WithinStays, LinksStay
<1>14. i \in Inodes /\ <<i, path>> \in G
  <2>1. i \in Inodes
    BY <1>4 DEF Unused, Inodes
  <2>2. PICK e : e = <<i, path>>
    OBVIOUS
  <2>3. e \in Inodes \X Path /\ e[1] = i /\ e[2] = path
    BY <1>3, <2>1, <2>2
  <2>4. e \in TablePairs(p)'
    BY <1>8, <2>3 DEF TablePairs
  <2> QED BY <1>12, <2>1, <2>2, <2>4
<1>15. PICK u : u = InsertGet(T, D, path, i)
  OBVIOUS
<1>16. Fits(u, G, H)
  BY <1>3, <1>11, <1>13, <1>14, <1>15, InsertIs
<1>17. PICK U, E : U = u.tab /\ E = u.disk
  OBVIOUS
<1>18. U \in Tables /\ Within(U, TablePairs(p)') /\ E \in Disks /\ Links(E, LinkPairs')
  BY <1>12, <1>16, <1>17 DEF Fits
<1>19. base' = [base EXCEPT ![p] = U] /\ disk' = E
  BY <1>3, <1>10, <1>15, <1>17 DEF Set
<1>20. \A q \in Proc \ {p} : Within(base[q], TablePairs(q)')
  <2>1. ASSUME NEW q \in Proc PROVE Within(base[q], TablePairs(q)')
    <3>1. PICK W \in Tables : W = base[q]
      BY DEF HandleInv, NamesTypes
    <3>2. Within(W, TablePairs(q))
      BY <3>1 DEF HandleInv
    <3> QED BY <1>8, <3>1, <3>2, WithinStays
  <2> QED BY <2>1
<1> QED BY <1>8, <1>9, <1>18, <1>19, <1>20, SetFits

(* nw_mk_rd_dir, making.                                                     *)
LEMMA MkDirHandles ==
  ASSUME HandleInv, NEW p \in Proc, NEW d \in Dir, NEW i, MkDir(p, d, i)
  PROVE  HandleInv'
<1>1. /\ at[<<d>>] = NoIno /\ i \in Unused /\ MakeAt(<<d>>, i)
      /\ UNCHANGED <<base, disk, dirs, got, freed, renamed, gone, goneOld>>
  BY DEF MkDir
<1>2. PICK path \in Path : path = <<d>> /\ Parent(path) = << >>
  BY PathsAre, DirIs
<1>3. at[Parent(path)] # NoIno
  BY <1>2, TreeIs DEF HandleInv
<1>4. at[path] = NoIno /\ MakeAt(path, i)
  BY <1>1, <1>2
<1>5. /\ Grows /\ Stays /\ TreeInv'
      /\ ShortHandleTrue' /\ dirs' \in [Proc -> Seq(DirHandles)]
  BY <1>1, <1>3, <1>4, MakeStays
<1>6. got' \in [Proc -> Gots] /\ BaseHandleTrue'
  BY <1>1, <1>5, GotSame
<1> QED BY <1>1, <1>5, <1>6, TablesStay

(* A pair of an inode that is not clean for anybody is always good.          *)
LEMMA PairsGone ==
  ASSUME NEW p \in Proc, NEW x \in Inodes, NEW q \in Path, x \notin CleanSome'
  PROVE  <<x, q>> \in TablePairs(p)' /\ <<x, q>> \in LinkPairs'
<1>1. PICK e : e = <<x, q>>
  OBVIOUS
<1>2. e \in Inodes \X Path /\ e[1] = x /\ e[2] = q
  BY <1>1
<1>3. x \notin Clean(p)'
  BY DEF CleanSome
<1>4. e \in TablePairs(p)' /\ e \in LinkPairs'
  BY <1>2, <1>3 DEF TablePairs, LinkPairs
<1> QED BY <1>1, <1>4

(* Something gets another path.                                              *)
LEMMA RenameStays ==
  ASSUME HandleInv, NEW src \in Path, NEW dst \in Path, CanRename(src, dst),
         at' = MovedTo(src, dst), renamed' = renamed \cup Below(src),
         UNCHANGED <<dirs, gone, goneOld>>
  PROVE  /\ Grows /\ Stays /\ TreeInv'
         /\ at[src] \in Inodes /\ at[src] \notin CleanSome'
         /\ ShortHandleTrue' /\ dirs' \in [Proc -> Seq(DirHandles)]
<1>1. TreeInv /\ NoIno \notin Inodes
  BY NamesConstants DEF HandleInv, Inodes
<1>2. /\ TreeInv' /\ Below(src) \subseteq Inodes
      /\ \A q \in Path : at[q] # NoIno /\ at[q] \notin Below(src) => at'[q] = at[q]
  BY <1>1, TreeRename
<1>3. Grows
  BY DEF Grows, HandleInv, NamesTypes
<1>4. Stays
  <2>1. ASSUME NEW x \in Inodes, NEW q \in Path, x \in CleanSome', at[q] = x PROVE at'[q] = x
    <3>1. x \notin renamed'
      BY <2>1 DEF CleanSome, Clean
    <3> QED BY <1>1, <1>2, <2>1, <3>1
  <2> QED BY <2>1 DEF Stays
<1>5. at[src] \in Inodes /\ at[src] \notin CleanSome'
  <2>1. at[src] # NoIno
    BY DEF CanRename
  <2>2. IsPrefix(src, src)
    BY PathSeq DEF IsPrefix
  <2>3. at[src] \in Below(src)
    BY <2>1, <2>2 DEF Below
  <2> QED BY <1>2, <2>3 DEF CleanSome, Clean
<1>6. dirs' \in [Proc -> Seq(DirHandles)]
  BY DEF HandleInv, NamesTypes
<1>7. ShortHandleTrue'
  <2>1. ASSUME NEW q \in Proc, NEW n \in DOMAIN dirs[q], dirs[q][n].ino # NoIno,
               dirs[q][n].ino \notin renamed' \cup gone[q]
        PROVE  at'[dirs[q][n].path] = dirs[q][n].ino
    <3>1. dirs[q][n] \in DirHandles
      BY <2>1 DEF HandleInv, NamesTypes
    <3>2. dirs[q][n].ino \in Inodes /\ dirs[q][n].path \in Path
      BY <2>1, <3>1 DEF DirHandles
    <3>3. at[dirs[q][n].path] = dirs[q][n].ino
      BY <2>1 DEF HandleInv, ShortHandleTrue
    <3> QED BY <1>1, <1>2, <2>1, <3>2, <3>3
  <2> QED BY <2>1 DEF ShortHandleTrue
<1> QED BY <1>2, <1>3, <1>4, <1>5, <1>6, <1>7

(* mv_dir.                                                                   *)
LEMMA MvDirHandles ==
  ASSUME HandleInv, NEW p \in Proc, NEW d \in Dir, NEW e \in Dir, MvDir(p, d, e)
  PROVE  HandleInv'
<1>1. PICK src \in Path, dst \in Path : src = <<d>> /\ dst = <<e>>
  BY PathsAre
<1>2. /\ CanRename(src, dst) /\ at' = MovedTo(src, dst) /\ renamed' = renamed \cup Below(src)
      /\ UNCHANGED <<base, disk, dirs, got, freed, gone, goneOld>>
  BY <1>1 DEF MvDir
<1>3. /\ Grows /\ Stays /\ TreeInv'
      /\ ShortHandleTrue' /\ dirs' \in [Proc -> Seq(DirHandles)]
  BY <1>2, RenameStays
<1>4. got' \in [Proc -> Gots] /\ BaseHandleTrue'
  BY <1>2, <1>3, GotSame
<1> QED BY <1>2, <1>3, <1>4, TablesStay

(* A call that looks up two paths: the second one finds what the first one   *)
(* left.                                                                     *)
LEMMA BuildAgain ==
  ASSUME TreeInv, NEW p \in Proc, NEW T, NEW D, NEW h \in Inodes, NEW rest,
         T \in Tables, Within(T, TablePairs(p)), D \in Disks, Links(D, LinkPairs),
         NEW r, r = BuildBase(T, D, h, rest), r.slot # 0
  PROVE  /\ Fits(r, TablePairs(p), LinkPairs)
         /\ PathOf(r) \in Path /\ at[PathOf(r)] # NoIno /\ at[PathOf(r)] \in Inodes
         /\ r.tab \in Tables /\ Within(r.tab, TablePairs(p))
         /\ r.disk \in Disks /\ Links(r.disk, LinkPairs)
         /\ r.slot \in DOMAIN r.tab /\ r.tab[r.slot] \in Entries
         /\ r.tab[r.slot].ino = at[PathOf(r)] /\ r.tab[r.slot].path = PathOf(r)
<1>1. Built(BuildBase(T, D, h, rest), h, rest, TablePairs(p), LinkPairs)
  BY BuildFits
<1>2. Fits(r, TablePairs(p), LinkPairs) /\ There(PathOf(r)) /\ r.tab[r.slot].ino = at[PathOf(r)]
  BY <1>1 DEF Built
<1>3. at[PathOf(r)] \in Inodes
  BY <1>2 DEF There, TreeInv, Trees
<1>4. r.tab[r.slot].path = PathOf(r)
  BY DEF PathOf
<1> QED BY <1>2, <1>3, <1>4 DEF Fits, There

(* nw_rename_file_dir.                                                       *)
LEMMA RenameHandles ==
  ASSUME HandleInv, NEW p \in Proc, NEW h \in Inodes, NEW src, NEW g \in Inodes, NEW dst,
         Rename(p, h, src, g, dst)
  PROVE  HandleInv'
<1>1. PICK r \in {BuildBase(base[p], disk, h, src)} : r.slot # 0 /\ PathOf(r) # << >> /\
        \E s \in {BuildBase(Marked(r.tab, r.slot), r.disk, g, Front(dst))} : s.slot # 0 /\
        \E from \in {PathOf(r)}, to \in {Append(PathOf(s), Last(dst))} :
          /\ to \in Path /\ CanRename(from, to)
          /\ at' = MovedTo(from, to)
          /\ renamed' = renamed \cup Below(from)
          /\ \/ /\ Kept(s.tab) # {}
                /\ Set(p, InsertGet(FreeSlot(s.tab, Min(Kept(s.tab))), s.disk, to, at[from]))
                /\ UNCHANGED freed
             \/ /\ Kept(s.tab) = {}
                /\ Set(p, s) /\ freed' = [freed EXCEPT ![p] = TRUE]
  BY DEF Rename
<1>2. PICK s \in {BuildBase(Marked(r.tab, r.slot), r.disk, g, Front(dst))} : s.slot # 0 /\
        \E from \in {PathOf(r)}, to \in {Append(PathOf(s), Last(dst))} :
          /\ to \in Path /\ CanRename(from, to)
          /\ at' = MovedTo(from, to)
          /\ renamed' = renamed \cup Below(from)
          /\ \/ /\ Kept(s.tab) # {}
                /\ Set(p, InsertGet(FreeSlot(s.tab, Min(Kept(s.tab))), s.disk, to, at[from]))
                /\ UNCHANGED freed
             \/ /\ Kept(s.tab) = {}
                /\ Set(p, s) /\ freed' = [freed EXCEPT ![p] = TRUE]
  BY <1>1
<1>3. PICK from \in {PathOf(r)}, to \in {Append(PathOf(s), Last(dst))} :
          /\ to \in Path /\ CanRename(from, to)
          /\ at' = MovedTo(from, to)
          /\ renamed' = renamed \cup Below(from)
          /\ \/ /\ Kept(s.tab) # {}
                /\ Set(p, InsertGet(FreeSlot(s.tab, Min(Kept(s.tab))), s.disk, to, at[from]))
                /\ UNCHANGED freed
             \/ /\ Kept(s.tab) = {}
                /\ Set(p, s) /\ freed' = [freed EXCEPT ![p] = TRUE]
  BY <1>2
<1>4. NothingFound(p) /\ UNCHANGED <<dirs, gone, goneOld>>
  BY DEF Rename
<1>5. TreeInv
  BY DEF HandleInv
<1>6. /\ from \in Path /\ r.tab \in Tables /\ Within(r.tab, TablePairs(p))
      /\ r.disk \in Disks /\ Links(r.disk, LinkPairs)
      /\ r.slot \in DOMAIN r.tab /\ r.tab[r.slot] \in Entries
  <2>1. PICK T, D : T = base[p] /\ D = disk
    OBVIOUS
  <2>2. T \in Tables /\ Within(T, TablePairs(p)) /\ D \in Disks /\ Links(D, LinkPairs)
    BY <2>1 DEF HandleInv, NamesTypes
  <2>3. r = BuildBase(T, D, h, src) /\ r.slot # 0 /\ from = PathOf(r)
    BY <1>1, <1>3, <2>1
  <2> QED BY <1>5, <2>2, <2>3, BuildAgain
<1>7. /\ s.tab \in Tables /\ Within(s.tab, TablePairs(p))
      /\ s.disk \in Disks /\ Links(s.disk, LinkPairs)
  <2>1. PICK R, i : R = r.tab /\ i = r.slot
    OBVIOUS
  <2>2. PICK T, D, front : T = Marked(R, i) /\ D = r.disk /\ front = Front(dst)
    OBVIOUS
  <2>3. T \in Tables /\ Within(T, TablePairs(p))
    <3>1. PICK G : G = TablePairs(p)
      OBVIOUS
    <3>2. R \in Tables /\ Within(R, G) /\ i \in DOMAIN R /\ R[i] \in Entries
      BY <1>6, <2>1, <3>1
    <3> QED BY <2>2, <3>1, <3>2, FlagsFit
  <2>4. D \in Disks /\ Links(D, LinkPairs)
    BY <1>6, <2>2
  <2>5. s = BuildBase(T, D, g, front) /\ s.slot # 0
    BY <1>2, <2>1, <2>2
  <2> QED BY <1>5, <2>3, <2>4, <2>5, BuildAgain
<1>8. to \in Path /\ CanRename(from, to) /\ at' = MovedTo(from, to) /\ renamed' = renamed \cup Below(from)
  BY <1>3
<1>9. /\ Grows /\ Stays /\ TreeInv'
      /\ at[from] \in Inodes /\ at[from] \notin CleanSome'
      /\ ShortHandleTrue' /\ dirs' \in [Proc -> Seq(DirHandles)]
  BY <1>4, <1>6, <1>8, RenameStays
<1>10. got' \in [Proc -> Gots] /\ BaseHandleTrue'
  BY <1>4, <1>9, GotNothing
<1>11. PICK T, D : T = s.tab /\ D = s.disk
  OBVIOUS
<1>12. T \in Tables /\ Within(T, TablePairs(p)) /\ D \in Disks /\ Links(D, LinkPairs)
  BY <1>7, <1>11
<1>13. CASE Kept(s.tab) = {}
  <2>1. base' = [base EXCEPT ![p] = T] /\ disk' = D
    BY <1>3, <1>11, <1>13 DEF Set
  <2> QED BY <1>9, <1>10, <1>12, <2>1, SetStays
<1>14. CASE Kept(s.tab) # {}
  <2>1. PICK k : k = Min(Kept(T))
    OBVIOUS
  <2>2. k \in DOMAIN T
    <3>1. Kept(T) # {}
      BY <1>11, <1>14
    <3>2. Kept(T) \subseteq DOMAIN T
      BY DEF Kept
    <3>3. DOMAIN T \subseteq Nat
      BY <1>12 DEF Tables
    <3> QED BY <2>1, <3>1, <3>2, <3>3, MinIs
  <2>3. PICK U : U = FreeSlot(T, k)
    OBVIOUS
  <2>4. PICK G, H : G = TablePairs(p)' /\ H = LinkPairs'
    OBVIOUS
  <2>5. Linkable(G, H) /\ Within(T, G) /\ Links(D, H)
    BY <1>9, <1>12, <2>4, LinkableNext, WithinStays, LinksStay
  <2>6. U \in Tables /\ Within(U, G)
    BY <1>12, <2>2, <2>3, <2>5, FreeFits
  <2>7. PICK x \in Inodes : x = at[from] /\ <<x, to>> \in G
    BY <1>8, <1>9, <2>4, PairsGone
  <2>8. PICK u : u = InsertGet(U, D, to, x)
    OBVIOUS
  <2>9. Fits(u, G, H)
    BY <1>8, <1>12, <2>5, <2>6, <2>7, <2>8, InsertIs
  <2>10. PICK V, E : V = u.tab /\ E = u.disk
    OBVIOUS
  <2>11. V \in Tables /\ Within(V, TablePairs(p)') /\ E \in Disks /\ Links(E, LinkPairs')
    BY <2>4, <2>9, <2>10 DEF Fits
  <2>12. base' = [base EXCEPT ![p] = V] /\ disk' = E
    BY <1>3, <1>11, <1>14, <2>1, <2>3, <2>7, <2>8, <2>10 DEF Set
  <2>13. \A q \in Proc \ {p} : Within(base[q], TablePairs(q)')
    <3>1. ASSUME NEW q \in Proc PROVE Within(base[q], TablePairs(q)')
      <4>1. PICK W \in Tables : W = base[q]
        BY DEF HandleInv, NamesTypes
      <4>2. Within(W, TablePairs(q))
        BY <4>1 DEF HandleInv
      <4> QED BY <1>9, <4>1, <4>2, WithinStays
    <3> QED BY <3>1
  <2> QED BY <1>9, <1>10, <2>11, <2>12, <2>13, SetFits
<1> QED BY <1>13, <1>14

-----------------------------------------------------------------------------
(* Names: removing                                                           *)

(* Something is removed, by a process that frees its short handles of it.    *)
LEMMA RemoveStays ==
  ASSUME HandleInv, NEW p \in Proc, NEW path \in Path, CanRemove(path), MakeAt(path, NoIno),
         NEW i, i = at[path], dirs' = DirsWithout(p, i), RemovedBy(p, i),
         NEW X \in SUBSET Inodes, goneOld' = [goneOld EXCEPT ![p] = @ \cup X], UNCHANGED renamed
  PROVE  /\ Grows /\ TreeInv' /\ i \in Ino /\ i \in Inodes
         /\ \A q \in Proc \ {p} : i \in gone'[q]
         /\ X \subseteq goneOld'[p]
         /\ \A x \in Inodes, q \in Path : x # i /\ at[q] = x => at'[q] = x
         /\ ShortHandleTrue' /\ dirs' \in [Proc -> Seq(DirHandles)]
<1>1. TreeInv /\ at \in Trees /\ at' = [at EXCEPT ![path] = NoIno]
  BY DEF HandleInv, TreeInv, MakeAt
<1>2. TreeInv' /\ i \in Ino
  BY <1>1, TreeRemove
<1>3. i \in Inodes
  BY <1>2 DEF Inodes
<1>4. \A q \in Path : q # path => at'[q] = at[q]
  BY <1>1 DEF Trees
<1>5. gone' = [q \in Proc |-> IF q = p THEN gone[q] ELSE gone[q] \cup {i}]
  BY DEF RemovedBy
<1>6. gone \in [Proc -> SUBSET Inodes] /\ goneOld \in [Proc -> SUBSET Inodes]
  BY DEF HandleInv, NamesTypes
<1>7. /\ gone' \in [Proc -> SUBSET Inodes]
      /\ \A q \in Proc : gone[q] \subseteq gone'[q] /\ (q # p => i \in gone'[q])
  BY <1>3, <1>5, <1>6
<1>8. /\ goneOld' \in [Proc -> SUBSET Inodes] /\ X \subseteq goneOld'[p]
      /\ \A q \in Proc : goneOld[q] \subseteq goneOld'[q]
  BY <1>6
<1>9. Grows
  BY <1>7, <1>8 DEF Grows
<1>10. \A x \in Inodes, q \in Path : x # i /\ at[q] = x => at'[q] = x
  BY <1>4
<1>11. PICK hs \in Seq(DirHandles) : hs = dirs[p]
  BY DEF HandleInv, NamesTypes
<1>12. NoDir \in DirHandles /\ NoDir.ino = NoIno
  BY PathsAre DEF NoDir, DirHandles
<1>13. PICK new : new = [n \in DOMAIN hs |-> IF hs[n].ino = i THEN NoDir ELSE hs[n]]
  OBVIOUS
<1>14. /\ new \in Seq(DirHandles) /\ DOMAIN new = DOMAIN hs
       /\ \A n \in DOMAIN hs : new[n] = IF hs[n].ino = i THEN NoDir ELSE hs[n]
  <2>1. hs \in [1..Len(hs) -> DirHandles] /\ Len(hs) \in Nat
    OBVIOUS
  <2>2. new \in [1..Len(hs) -> DirHandles]
    BY <1>12, <1>13, <2>1
  <2>3. new \in Seq(DirHandles) /\ DOMAIN new = DOMAIN hs
    BY <2>1, <2>2
  <2> QED BY <1>13, <2>3
<1>15. dirs \in [Proc -> Seq(DirHandles)] /\ dirs' = [dirs EXCEPT ![p] = new]
  BY <1>11, <1>13 DEF HandleInv, NamesTypes, DirsWithout
<1>16. /\ dirs' \in [Proc -> Seq(DirHandles)] /\ dirs'[p] = new
       /\ \A q \in Proc \ {p} : dirs'[q] = dirs[q]
  BY <1>14, <1>15
<1>17. \A q \in Proc : \A n \in DOMAIN dirs'[q] :
         n \in DOMAIN dirs[q] /\ (dirs'[q][n] = dirs[q][n] \/ dirs'[q][n].ino = NoIno)
  <2>1. ASSUME NEW q \in Proc, NEW n \in DOMAIN dirs'[q]
        PROVE  n \in DOMAIN dirs[q] /\ (dirs'[q][n] = dirs[q][n] \/ dirs'[q][n].ino = NoIno)
    <3>1. CASE q = p
      BY <1>11, <1>12, <1>14, <1>16, <2>1, <3>1
    <3>2. CASE q # p
      BY <1>16, <2>1, <3>2
    <3> QED BY <3>1, <3>2
  <2> QED BY <2>1
<1>18. \A n \in DOMAIN dirs'[p] : dirs'[p][n].ino # i
  <2>1. i # NoIno
    BY <1>2, NamesConstants
  <2> QED BY <1>12, <1>14, <1>16, <2>1
<1>19. ASSUME NEW x \in Inodes, NEW s \in Path, at[s] = x
       PROVE  \/ at'[s] = x \/ x \in renamed'
              \/ /\ \A q \in Proc \ {p} : x \in gone'[q]
                 /\ \A n \in DOMAIN dirs'[p] : dirs'[p][n].ino # x
  <2>1. CASE x = i
    BY <1>7, <1>18, <2>1
  <2>2. CASE x # i
    BY <1>10, <1>19, <2>2
  <2> QED BY <2>1, <2>2
<1>20. ShortHandleTrue'
  BY <1>9, <1>17, <1>19, ShortStays
<1> QED BY <1>2, <1>3, <1>7, <1>8, <1>9, <1>10, <1>16, <1>20

(* nw_mk_rd_dir, removing.                                                   *)
LEMMA RmDirHandles ==
  ASSUME HandleInv, NEW p \in Proc, NEW d \in Dir, RmDir(p, d)
  PROVE  HandleInv'
<1>1. PICK path \in Path : path = <<d>>
  BY PathsAre
<1>2. PICK i : i = at[path]
  OBVIOUS
<1>3. /\ CanRemove(path) /\ MakeAt(path, NoIno) /\ dirs' = DirsWithout(p, i) /\ RemovedBy(p, i)
      /\ goneOld' = [goneOld EXCEPT ![p] = @ \cup {i}]
      /\ UNCHANGED <<base, disk, got, freed, renamed>>
  BY <1>1, <1>2 DEF RmDir
<1>4. {i} \in SUBSET Inodes
  <2>1. i \in Ino
    BY <1>2, <1>3, TreeRemove DEF HandleInv
  <2> QED BY <2>1 DEF Inodes
<1>5. /\ Grows /\ TreeInv' /\ i \in Inodes
      /\ \A q \in Proc \ {p} : i \in gone'[q]
      /\ {i} \subseteq goneOld'[p]
      /\ \A x \in Inodes, q \in Path : x # i /\ at[q] = x => at'[q] = x
      /\ ShortHandleTrue' /\ dirs' \in [Proc -> Seq(DirHandles)]
  BY <1>2, <1>3, <1>4, RemoveStays
<1>6. i \notin CleanSome'
  <2>1. ASSUME NEW q \in Proc PROVE i \notin Clean(q)'
    BY <1>5 DEF Clean
  <2> QED BY <2>1 DEF CleanSome
<1>7. Stays
  BY <1>5, <1>6 DEF Stays
<1>8. got' \in [Proc -> Gots] /\ BaseHandleTrue'
  BY <1>3, <1>5, GotSame
<1> QED BY <1>3, <1>5, <1>7, <1>8, TablesStay

(* What a process removes, with the entry of it in its table: if the inode   *)
(* stays clean, nothing names it any more.                                   *)
LEMMA DeleteHandles ==
  ASSUME HandleInv, NEW p \in Proc, NEW h \in Inodes, NEW rest, Delete(p, h, rest)
  PROVE  HandleInv'
<1>1. PICK r \in {BuildBase(base[p], disk, h, Front(rest))} : r.slot # 0 /\
     \E path \in {Append(PathOf(r), Last(rest))} : path \in Path /\ CanRemove(path) /\
     \E s \in {InsertGet(LockedAt(r.tab, r.slot), r.disk, path, at[path])} :
       /\ MakeAt(path, NoIno)
       /\ Set(p, [tab |-> WithoutEntry(AllUnlocked(s.tab), s.slot),
                  disk |-> IF IsDir(path) THEN [s.disk EXCEPT ![at[path]] = NoPath] ELSE s.disk])
       /\ dirs' = DirsWithout(p, at[path])
       /\ RemovedBy(p, at[path])
       /\ goneOld' = [goneOld EXCEPT ![p] = @ \cup KnownTo(Proc \ {p}, at[path])
                                                \cup KnownTwice(s.tab, at[path])]
  BY DEF Delete
<1>2. PICK path \in {Append(PathOf(r), Last(rest))} : path \in Path /\ CanRemove(path) /\
     \E s \in {InsertGet(LockedAt(r.tab, r.slot), r.disk, path, at[path])} :
       /\ MakeAt(path, NoIno)
       /\ Set(p, [tab |-> WithoutEntry(AllUnlocked(s.tab), s.slot),
                  disk |-> IF IsDir(path) THEN [s.disk EXCEPT ![at[path]] = NoPath] ELSE s.disk])
       /\ dirs' = DirsWithout(p, at[path])
       /\ RemovedBy(p, at[path])
       /\ goneOld' = [goneOld EXCEPT ![p] = @ \cup KnownTo(Proc \ {p}, at[path])
                                                \cup KnownTwice(s.tab, at[path])]
  BY <1>1
<1>3. PICK i : i = at[path]
  OBVIOUS
<1>4. PICK s \in {InsertGet(LockedAt(r.tab, r.slot), r.disk, path, i)} :
       /\ MakeAt(path, NoIno)
       /\ Set(p, [tab |-> WithoutEntry(AllUnlocked(s.tab), s.slot),
                  disk |-> IF IsDir(path) THEN [s.disk EXCEPT ![i] = NoPath] ELSE s.disk])
       /\ dirs' = DirsWithout(p, i)
       /\ RemovedBy(p, i)
       /\ goneOld' = [goneOld EXCEPT ![p] = @ \cup KnownTo(Proc \ {p}, i)
                                                \cup KnownTwice(s.tab, i)]
  BY <1>2, <1>3
<1>5. NothingFound(p) /\ UNCHANGED renamed /\ TreeInv
  BY DEF Delete, HandleInv
<1>6. i \in Ino /\ i \in Inodes
  <2>1. i \in Ino
    BY <1>2, <1>3, <1>4, <1>5, TreeRemove
  <2> QED BY <2>1 DEF Inodes
<1>7. /\ r.tab \in Tables /\ Within(r.tab, TablePairs(p))
      /\ r.disk \in Disks /\ Links(r.disk, LinkPairs)
      /\ r.slot \in DOMAIN r.tab /\ r.tab[r.slot] \in Entries
  <2>1. PICK T, D, front : T = base[p] /\ D = disk /\ front = Front(rest)
    OBVIOUS
  <2>2. T \in Tables /\ Within(T, TablePairs(p)) /\ D \in Disks /\ Links(D, LinkPairs)
    BY <2>1 DEF HandleInv, NamesTypes
  <2>3. r = BuildBase(T, D, h, front) /\ r.slot # 0
    BY <1>1, <2>1
  <2> QED BY <1>5, <2>2, <2>3, BuildAgain
<1>8. /\ Fits(s, TablePairs(p), LinkPairs) /\ s.slot # 0
      /\ s.tab[s.slot].ino = i /\ s.tab[s.slot].path = path
  <2>1. PICK R, k, T, D : R = r.tab /\ k = r.slot /\ T = LockedAt(R, k) /\ D = r.disk
    OBVIOUS
  <2>2. T \in Tables /\ Within(T, TablePairs(p))
    <3>1. PICK G : G = TablePairs(p)
      OBVIOUS
    <3>2. R \in Tables /\ Within(R, G) /\ k \in DOMAIN R /\ R[k] \in Entries
      BY <1>7, <2>1, <3>1
    <3> QED BY <2>1, <3>1, <3>2, FlagsFit
  <2>3. D \in Disks /\ Links(D, LinkPairs) /\ path \in Path
    BY <1>2, <1>7, <2>1
  <2>4. s = InsertGet(T, D, path, i)
    BY <1>4, <2>1
  <2>5. LET w == InsertGet(T, D, path, i) IN
        /\ Fits(w, TablePairs(p), LinkPairs) /\ w.slot # 0
        /\ w.tab[w.slot].ino = i /\ w.tab[w.slot].path = path
    BY <1>3, <1>5, <1>6, <2>2, <2>3, InsertFits
  <2> QED BY <2>4, <2>5
<1>9. PICK T, m, D : T = s.tab /\ m = s.slot /\ D = s.disk
  OBVIOUS
<1>10. /\ T \in Tables /\ Within(T, TablePairs(p)) /\ D \in Disks /\ Links(D, LinkPairs)
       /\ m \in DOMAIN T /\ T[m] # Hole /\ T[m].ino = i
  BY <1>8, <1>9, HoleIs DEF Fits
<1>11. PICK X : X = KnownTo(Proc \ {p}, i) \cup KnownTwice(T, i)
  OBVIOUS
<1>12. X \in SUBSET Inodes /\ goneOld' = [goneOld EXCEPT ![p] = @ \cup X]
  <2>1. X \subseteq {i}
    BY <1>11 DEF KnownTo, KnownTwice
  <2>2. goneOld' = [goneOld EXCEPT ![p] = (goneOld[p] \cup KnownTo(Proc \ {p}, i))
                                           \cup KnownTwice(T, i)]
    BY <1>4, <1>9
  <2>3. (goneOld[p] \cup KnownTo(Proc \ {p}, i)) \cup KnownTwice(T, i) = goneOld[p] \cup X
    BY <1>11
  <2> QED BY <1>6, <2>1, <2>2, <2>3
<1>13. /\ Grows /\ TreeInv'
       /\ \A q \in Proc \ {p} : i \in gone'[q]
       /\ X \subseteq goneOld'[p]
       /\ \A x \in Inodes, q \in Path : x # i /\ at[q] = x => at'[q] = x
       /\ ShortHandleTrue' /\ dirs' \in [Proc -> Seq(DirHandles)]
  BY <1>2, <1>3, <1>4, <1>5, <1>12, RemoveStays
<1>14. got' \in [Proc -> Gots] /\ BaseHandleTrue'
  BY <1>5, <1>13, GotNothing
<1>15. PICK U, V, E : /\ U = AllUnlocked(T) /\ V = FreeSlot(U, m)
                      /\ E = IF IsDir(path) THEN [D EXCEPT ![i] = NoPath] ELSE D
  OBVIOUS
<1>16. base' = [base EXCEPT ![p] = V] /\ disk' = E
  BY <1>4, <1>9, <1>15 DEF Set, WithoutEntry
<1>17. /\ U \in Tables
       /\ \A k \in DOMAIN U : /\ k \in DOMAIN T /\ (T[k] = Hole <=> U[k] = Hole)
                              /\ U[k] # Hole => U[k].ino = T[k].ino /\ U[k].path = T[k].path
       /\ m \in DOMAIN U
  BY <1>10, <1>15, UnlockedIs
<1>18. /\ V \in Tables
       /\ \A k \in DOMAIN V : k \in DOMAIN U /\ (V[k] # Hole => k # m /\ V[k] = U[k])
  BY <1>15, <1>17, FreeIs
<1>19. E \in Disks
  <2>1. CASE IsDir(path)
    <3>1. E = [D EXCEPT ![i] = NoPath]
      BY <1>15, <2>1
    <3> QED BY <1>6, <1>10, <3>1 DEF Disks
  <2>2. CASE ~IsDir(path)
    BY <1>10, <1>15, <2>2
  <2> QED BY <2>1, <2>2
<1>20. ASSUME i \in CleanSome'
       PROVE  /\ \A j, k \in Of(T, i) : j = k
              /\ \A q \in Proc \ {p} : \A k \in Of(base[q], i) : ~IsDir(base[q][k].path)
  <2>1. i \in Clean(p)'
    <3>1. PICK q \in Proc : i \in Clean(q)'
      BY <1>20 DEF CleanSome
    <3>2. q = p
      BY <1>13, <3>1 DEF Clean
    <3> QED BY <3>1, <3>2
  <2>2. i \notin X
    BY <1>13, <2>1 DEF Clean
  <2>3. i \notin KnownTwice(T, i) /\ i \notin KnownTo(Proc \ {p}, i)
    BY <1>11, <2>2
  <2> QED BY <2>3 DEF KnownTwice, KnownTo
<1>21. ASSUME NEW x \in Inodes, NEW q \in Path, NEW o \in Proc, x # i \/ i \notin CleanSome'
       PROVE  /\ <<x, q>> \in TablePairs(o) => <<x, q>> \in TablePairs(o)'
              /\ <<x, q>> \in LinkPairs => <<x, q>> \in LinkPairs'
  <2>1. x \in CleanSome' /\ at[q] = x => at'[q] = x
    BY <1>13, <1>21
  <2> QED BY <1>13, <2>1, PairsKept
<1>22. Within(V, TablePairs(p)')
  <2>1. ASSUME NEW k \in DOMAIN V, V[k] # Hole
        PROVE  <<V[k].ino, V[k].path>> \in TablePairs(p)'
    <3>1. k \in DOMAIN T /\ k # m /\ T[k] # Hole /\ V[k].ino = T[k].ino /\ V[k].path = T[k].path
      BY <1>17, <1>18, <2>1
    <3>2. PICK e \in Entries : e = T[k]
      BY <1>10, <3>1 DEF Tables, Slots
    <3>3. e.ino \in Inodes /\ e.path \in Path /\ <<e.ino, e.path>> \in TablePairs(p)
      BY <1>10, <3>1, <3>2 DEF Entries, Within
    <3>4. e.ino # i \/ i \notin CleanSome'
      <4>1. ASSUME e.ino = i, i \in CleanSome' PROVE FALSE
        <5>1. k \in Of(T, i) /\ m \in Of(T, i)
          BY <1>10, <3>1, <3>2, <4>1 DEF Of
        <5> QED BY <1>20, <3>1, <4>1, <5>1
      <4> QED BY <4>1
    <3>5. <<e.ino, e.path>> \in TablePairs(p)'
      BY <1>21, <3>3, <3>4
    <3> QED BY <3>1, <3>2, <3>5
  <2> QED BY <2>1 DEF Within
<1>23. \A q \in Proc \ {p} : Within(base[q], TablePairs(q)')
  <2>1. ASSUME NEW q \in Proc \ {p} PROVE Within(base[q], TablePairs(q)')
    <3>1. PICK W \in Tables : W = base[q]
      BY DEF HandleInv, NamesTypes
    <3>2. Within(W, TablePairs(q))
      BY <3>1 DEF HandleInv
    <3>3. ASSUME NEW k \in DOMAIN W, W[k] # Hole
          PROVE  <<W[k].ino, W[k].path>> \in TablePairs(q)'
      <4>1. PICK e \in Entries : e = W[k]
        BY <3>3 DEF Tables, Slots
      <4>2. e.ino \in Inodes /\ e.path \in Path /\ <<e.ino, e.path>> \in TablePairs(q)
        BY <3>2, <3>3, <4>1 DEF Entries, Within
      <4>3. CASE e.ino # i \/ i \notin CleanSome'
        BY <1>21, <4>1, <4>2, <4>3
      <4>4. CASE e.ino = i /\ i \in CleanSome'
        <5>1. k \in Of(base[q], i)
          BY <3>1, <3>3, <4>1, <4>4 DEF Of
        <5>2. ~IsDir(e.path)
          BY <1>20, <3>1, <4>1, <4>4, <5>1
        <5>3. i \notin Clean(q)'
          BY <1>13 DEF Clean
        <5>4. PICK y : y = <<e.ino, e.path>>
          OBVIOUS
        <5>5. y \in Inodes \X Path /\ y[1] = i /\ y[2] = e.path
          BY <4>2, <4>4, <5>4
        <5>6. y \in TablePairs(q)'
          BY <5>2, <5>3, <5>5 DEF TablePairs
        <5> QED BY <4>1, <5>4, <5>6
      <4> QED BY <4>3, <4>4
    <3> QED BY <3>1, <3>3 DEF Within
  <2> QED BY <2>1
<1>24. Links(E, LinkPairs')
  <2>1. ASSUME NEW x \in Ino, E[x] # NoPath PROVE <<x, E[x]>> \in LinkPairs'
    <3>1. IsDir(path) => x # i
      BY <1>6, <1>10, <1>15, <2>1 DEF Disks
    <3>2. E[x] = D[x]
      BY <1>6, <1>10, <1>15, <3>1 DEF Disks
    <3>3. PICK q : q = D[x]
      OBVIOUS
    <3>4. x \in Inodes /\ q \in Path /\ IsDir(q) /\ <<x, q>> \in LinkPairs
      BY <1>10, <2>1, <3>2, <3>3 DEF Inodes, Disks, DirsOf, Links
    <3>5. x # i \/ i \notin CleanSome'
      <4>1. ASSUME x = i, i \in CleanSome' PROVE FALSE
        <5>1. i \in CleanSome
          BY <1>13, <4>1, CleanShrinks
        <5>2. at[q] = i
          BY <3>4, <4>1, <5>1, PairsAre
        <5>3. at[path] # NoIno /\ path \in Path
          BY <1>2 DEF CanRemove
        <5>4. q = path
          BY <1>3, <1>5, <3>4, <5>2, <5>3, TreeIs
        <5> QED BY <3>1, <3>4, <4>1, <5>4
      <4> QED BY <4>1
    <3>6. <<x, q>> \in LinkPairs'
      BY <1>21, <3>4, <3>5
    <3> QED BY <3>2, <3>3, <3>6
  <2> QED BY <2>1 DEF Links
<1> QED BY <1>13, <1>14, <1>16, <1>18, <1>19, <1>22, <1>23, <1>24, SetFits

-----------------------------------------------------------------------------
(* Names: the short directory handles                                        *)

(* The handles of one process change: every one is as before, or right.      *)
LEMMA DirsSet ==
  ASSUME HandleInv, NEW p \in Proc, NEW new \in Seq(DirHandles),
         \A n \in DOMAIN new : new[n].ino # NoIno =>
            \/ at[new[n].path] = new[n].ino
            \/ \E m \in DOMAIN dirs[p] : new[n] = dirs[p][m],
         dirs' = [dirs EXCEPT ![p] = new],
         UNCHANGED <<at, base, disk, got, renamed, gone, goneOld>>
  PROVE  HandleInv'
<1>1. Grows /\ Stays /\ TreeInv'
  BY SameStays
<1>2. got' \in [Proc -> Gots] /\ BaseHandleTrue'
  BY <1>1, GotSame
<1>3. /\ dirs' \in [Proc -> Seq(DirHandles)] /\ dirs'[p] = new
      /\ \A q \in Proc \ {p} : dirs'[q] = dirs[q]
  BY DEF HandleInv, NamesTypes
<1>4. ASSUME NEW q \in Proc, NEW n \in DOMAIN dirs'[q], dirs'[q][n].ino # NoIno,
             dirs'[q][n].ino \notin renamed \cup gone[q]
      PROVE  at[dirs'[q][n].path] = dirs'[q][n].ino
  <2>1. PICK d : d = dirs'[q][n]
    OBVIOUS
  <2>2. at[d.path] = d.ino \/ \E m \in DOMAIN dirs[q] : d = dirs[q][m]
    <3>1. CASE q = p
      BY <1>3, <1>4, <2>1, <3>1
    <3>2. CASE q # p
      BY <1>3, <1>4, <2>1, <3>2
    <3> QED BY <3>1, <3>2
  <2>3. ASSUME NEW m \in DOMAIN dirs[q], d = dirs[q][m] PROVE at[d.path] = d.ino
    BY <1>4, <2>1, <2>3 DEF HandleInv, ShortHandleTrue
  <2> QED BY <2>1, <2>2, <2>3
<1>5. ShortHandleTrue'
  BY <1>4 DEF ShortHandleTrue
<1> QED BY <1>1, <1>2, <1>3, <1>5, TablesStay

(* An unused short handle.                                                   *)
LEMMA NoDirIs == NoDir \in DirHandles /\ NoDir.ino = NoIno
  BY PathsAre DEF NoDir, DirHandles

(* nw_alloc_dir_handle.                                                      *)
LEMMA AllocDirHandles ==
  ASSUME HandleInv, NEW p \in Proc, NEW path \in Path, NEW temp \in BOOLEAN,
         AllocDir(p, path, temp)
  PROVE  HandleInv'
<1>1. PICK hs \in Seq(DirHandles) : hs = dirs[p]
  BY DEF HandleInv, NamesTypes
<1>2. PICK d : d = [path |-> path, ino |-> at[path], temp |-> temp]
  OBVIOUS
<1>3. PICK n : n = FreeDirSlot(p)
  OBVIOUS
<1>4. PICK s : s = IF n > Len(hs) THEN Append(hs, d) ELSE [hs EXCEPT ![n] = d]
  OBVIOUS
<1>5. /\ at[path] # NoIno /\ dirs' = [dirs EXCEPT ![p] = TrimDirs(s, n)]
      /\ UNCHANGED <<at, base, disk, got, renamed, gone, goneOld>>
  BY <1>1, <1>2, <1>3, <1>4 DEF AllocDir
<1>6. d \in DirHandles /\ d.ino = at[path] /\ d.path = path
  <2>1. at[path] \in Inodes \cup {NoIno}
    BY DEF HandleInv, TreeInv, Trees
  <2> QED BY <1>2, <2>1 DEF DirHandles
<1>7. n \in 1..(Len(hs) + 1) /\ (n > Len(hs) => n = Len(hs) + 1)
  <2>1. PICK free : free = {m \in DOMAIN hs : m > 1 /\ hs[m].ino = NoIno}
    OBVIOUS
  <2>2. n = IF free # {} THEN Max(free) ELSE Len(hs) + 1
    BY <1>1, <1>3, <2>1 DEF FreeDirSlot
  <2>3. Len(hs) \in Nat /\ DOMAIN hs = 1..Len(hs)
    OBVIOUS
  <2>4. free # {} => Max(free) \in DOMAIN hs
    <3>1. free \subseteq DOMAIN hs
      BY <2>1
    <3>2. DOMAIN hs \subseteq 0..Len(hs)
      BY <2>3
    <3> QED BY <2>3, <3>1, <3>2, MaxIs
  <2>5. CASE free # {}
    BY <2>2, <2>3, <2>4, <2>5
  <2>6. CASE free = {}
    BY <2>2, <2>3, <2>6
  <2> QED BY <2>5, <2>6
<1>8. /\ s \in Seq(DirHandles) /\ n \in 1..Len(s)
      /\ \A k \in DOMAIN s : s[k] = d \/ \E m \in DOMAIN hs : s[k] = hs[m]
  <2>1. CASE n > Len(hs)
    BY <1>4, <1>6, <1>7, <2>1
  <2>2. CASE ~(n > Len(hs))
    BY <1>4, <1>6, <1>7, <2>2
  <2> QED BY <2>1, <2>2
<1>9. PICK used : used = {n} \cup {k \in DOMAIN s : s[k].ino # NoIno}
  OBVIOUS
<1>10. PICK m : m = Max(used)
  OBVIOUS
<1>11. m \in 1..Len(s)
  <2>1. Len(s) \in Nat /\ DOMAIN s = 1..Len(s)
    BY <1>8
  <2>2. used \subseteq 1..Len(s) /\ used # {}
    BY <1>8, <1>9, <2>1
  <2>3. 1..Len(s) \subseteq 0..Len(s)
    BY <2>1
  <2> QED BY <1>10, <2>1, <2>2, <2>3, MaxIs
<1>12. PICK new : new = SubSeq(s, 1, m)
  OBVIOUS
<1>13. dirs' = [dirs EXCEPT ![p] = new]
  BY <1>5, <1>9, <1>10, <1>12 DEF TrimDirs
<1>14. new \in Seq(DirHandles) /\ Len(new) = m /\ \A k \in 1..m : new[k] = s[k]
  BY <1>8, <1>11, <1>12
<1>15. \A k \in DOMAIN new : k \in DOMAIN s /\ new[k] = s[k]
  BY <1>8, <1>11, <1>14
<1>16. \A k \in DOMAIN new : new[k].ino # NoIno =>
         at[new[k].path] = new[k].ino \/ \E j \in DOMAIN dirs[p] : new[k] = dirs[p][j]
  <2>1. ASSUME NEW k \in DOMAIN new
        PROVE  new[k] = d \/ \E j \in DOMAIN hs : new[k] = hs[j]
    BY <1>8, <1>15, <2>1
  <2> QED BY <1>1, <1>6, <2>1
<1> QED BY <1>5, <1>13, <1>14, <1>16, DirsSet

(* alter_dir_handle.                                                         *)
LEMMA SetDirHandles ==
  ASSUME HandleInv, NEW p \in Proc, NEW n, NEW path \in Path, SetDir(p, n, path)
  PROVE  HandleInv'
<1>1. PICK hs \in Seq(DirHandles) : hs = dirs[p]
  BY DEF HandleInv, NamesTypes
<1>2. /\ n \in DOMAIN hs /\ at[path] # NoIno
      /\ UNCHANGED <<at, base, disk, got, renamed, gone, goneOld>>
  BY <1>1 DEF SetDir
<1>3. PICK e \in DirHandles : e = hs[n]
  BY <1>2
<1>4. PICK c, d : c = [e EXCEPT !.path = path] /\ d = [c EXCEPT !.ino = at[path]]
  OBVIOUS
<1>5. at[path] \in Inodes \cup {NoIno}
  BY DEF HandleInv, TreeInv, Trees
<1>6. c \in DirHandles /\ c.path = path
  BY <1>4 DEF DirHandles
<1>7. d \in DirHandles /\ d.path = path /\ d.ino = at[path]
  BY <1>4, <1>5, <1>6 DEF DirHandles
<1>8. PICK new : new = [hs EXCEPT ![n] = d]
  OBVIOUS
<1>9. dirs' = [dirs EXCEPT ![p] = new]
  <2>1. dirs' = [dirs EXCEPT ![p][n].path = path, ![p][n].ino = at[path]]
    BY DEF SetDir
  <2>2. dirs \in [Proc -> Seq(DirHandles)]
    BY DEF HandleInv, NamesTypes
  <2>3. PICK w : w = [hs EXCEPT ![n].path = path]
    OBVIOUS
  <2>4. PICK dd : dd = [dirs EXCEPT ![p] = w]
    OBVIOUS
  <2>5. dd = [dirs EXCEPT ![p][n].path = path]
    BY <1>1, <2>3, <2>4
  <2>6. w = [hs EXCEPT ![n] = c] /\ w[n] = c
    BY <1>2, <1>3, <1>4, <2>3
  <2>7. dirs' = [dd EXCEPT ![p][n].ino = at[path]]
    BY <2>1, <2>5
  <2>8. dd[p] = w
    BY <2>2, <2>4
  <2>9. dirs' = [dd EXCEPT ![p] = [w EXCEPT ![n] = d]]
    BY <1>4, <2>6, <2>7, <2>8
  <2>10. [w EXCEPT ![n] = d] = new
    BY <1>8, <2>6
  <2> QED BY <2>4, <2>9, <2>10
<1>10. /\ new \in Seq(DirHandles) /\ DOMAIN new = DOMAIN hs /\ new[n] = d
       /\ \A k \in DOMAIN hs : k # n => new[k] = hs[k]
  BY <1>2, <1>7, <1>8
<1>11. \A k \in DOMAIN new : new[k].ino # NoIno =>
         at[new[k].path] = new[k].ino \/ \E j \in DOMAIN dirs[p] : new[k] = dirs[p][j]
  BY <1>1, <1>7, <1>10
<1> QED BY <1>2, <1>9, <1>10, <1>11, DirsSet

(* nw_free_dir_handle.                                                       *)
LEMMA FreeDirHandles ==
  ASSUME HandleInv, NEW p \in Proc, NEW n, FreeDir(p, n)
  PROVE  HandleInv'
<1>1. PICK hs \in Seq(DirHandles) : hs = dirs[p]
  BY DEF HandleInv, NamesTypes
<1>2. n \in DOMAIN hs /\ UNCHANGED <<at, base, disk, got, renamed, gone, goneOld>>
  BY <1>1 DEF FreeDir
<1>3. PICK new : new = [hs EXCEPT ![n] = NoDir]
  OBVIOUS
<1>4. dirs' = [dirs EXCEPT ![p] = new]
  BY <1>1, <1>3 DEF FreeDir
<1>5. /\ new \in Seq(DirHandles) /\ DOMAIN new = DOMAIN hs /\ new[n] = NoDir
      /\ \A k \in DOMAIN hs : k # n => new[k] = hs[k]
  BY <1>2, <1>3, NoDirIs
<1>6. \A k \in DOMAIN new : new[k].ino # NoIno =>
         at[new[k].path] = new[k].ino \/ \E j \in DOMAIN dirs[p] : new[k] = dirs[p][j]
  BY <1>1, <1>5, NoDirIs
<1> QED BY <1>2, <1>4, <1>5, <1>6, DirsSet

(* nw_free_handles.                                                          *)
LEMMA EndOfTaskHandles ==
  ASSUME HandleInv, NEW p \in Proc, EndOfTask(p)
  PROVE  HandleInv'
<1>1. PICK hs \in Seq(DirHandles) : hs = dirs[p]
  BY DEF HandleInv, NamesTypes
<1>2. PICK new : new = [n \in DOMAIN hs |-> IF hs[n].temp THEN NoDir ELSE hs[n]]
  OBVIOUS
<1>3. /\ dirs' = [dirs EXCEPT ![p] = new]
      /\ UNCHANGED <<at, base, disk, got, renamed, gone, goneOld>>
  BY <1>1, <1>2 DEF EndOfTask
<1>4. new \in Seq(DirHandles) /\ \A k \in DOMAIN new : new[k] = NoDir \/ new[k] = hs[k]
  <2>1. hs \in [1..Len(hs) -> DirHandles] /\ Len(hs) \in Nat
    OBVIOUS
  <2>2. new \in [1..Len(hs) -> DirHandles]
    BY <1>2, <2>1, NoDirIs
  <2>3. new \in Seq(DirHandles)
    BY <2>1, <2>2
  <2> QED BY <1>2, <2>3
<1>5. DOMAIN new = DOMAIN hs
  BY <1>2
<1>6. \A k \in DOMAIN new : new[k].ino # NoIno =>
         at[new[k].path] = new[k].ino \/ \E j \in DOMAIN dirs[p] : new[k] = dirs[p][j]
  BY <1>1, <1>4, <1>5, NoDirIs
<1> QED BY <1>3, <1>4, <1>6, DirsSet

(* free_dir_bases: the links it writes are from the table.                   *)
LEMMA ExitNamesHandles ==
  ASSUME HandleInv, NEW p \in Proc, ExitNames(p)
  PROVE  HandleInv'
<1>1. PICK T : T = base[p]
  OBVIOUS
<1>2. T \in Tables /\ Within(T, TablePairs(p)) /\ disk \in Disks /\ Links(disk, LinkPairs) /\ TreeInv
  BY <1>1 DEF HandleInv, NamesTypes
<1>3. PICK D : D = disk'
  OBVIOUS
<1> DEFINE own(i) == {k \in DOMAIN T : T[k] # Hole /\ T[k].ino = i /\ IsDir(T[k].path)}
<1>4. D = [i \in Ino |-> IF own(i) = {} THEN disk[i] ELSE T[Min(own(i))].path]
  BY <1>1, <1>3 DEF ExitNames
<1>5. /\ base' = [base EXCEPT ![p] = << >>]
      /\ dirs' = [dirs EXCEPT ![p] = <<[NoDir EXCEPT !.ino = Root]>>]
      /\ NothingFound(p)
      /\ UNCHANGED <<at, renamed, gone, goneOld>>
  BY DEF ExitNames, NothingFound
<1>6. ASSUME NEW i \in Ino
      PROVE  D[i] \in DirsOf \cup {NoPath} /\ (D[i] # NoPath => <<i, D[i]>> \in LinkPairs)
  <2>1. CASE own(i) = {}
    <3>1. D[i] = disk[i]
      BY <1>4, <2>1
    <3> QED BY <1>2, <3>1 DEF Disks, Links
  <2>2. CASE own(i) # {}
    <3>1. PICK k : k = Min(own(i))
      OBVIOUS
    <3>2. own(i) \in SUBSET Nat
      BY <1>2 DEF Tables
    <3>3. k \in own(i)
      <4> HIDE DEF own
      <4> QED BY <2>2, <3>1, <3>2, MinIs
    <3>4. PICK e \in Entries : e = T[k] /\ e.ino = i /\ IsDir(e.path) /\ k \in DOMAIN T /\ T[k] # Hole
      BY <1>2, <3>3 DEF Tables, Slots
    <3>5. e.path \in Path /\ <<i, e.path>> \in TablePairs(p)
      BY <1>2, <3>4 DEF Entries, Within
    <3>6. D[i] = e.path
      BY <1>4, <2>2, <3>1, <3>4
    <3>7. <<i, e.path>> \in LinkPairs
      BY <1>2, <3>4, <3>5, PairsFit DEF Linkable, Inodes
    <3> QED BY <3>4, <3>5, <3>6, <3>7 DEF DirsOf
  <2> QED BY <2>1, <2>2
<1>7. D \in Disks /\ Links(D, LinkPairs)
  <2>1. D = [i \in Ino |-> D[i]]
    BY <1>4
  <2>2. D \in [Ino -> DirsOf \cup {NoPath}]
    BY <1>6, <2>1
  <2> QED BY <1>6, <2>2 DEF Disks, Links
<1>8. Grows /\ Stays /\ TreeInv'
  BY <1>5, SameStays
<1>9. got' \in [Proc -> Gots] /\ BaseHandleTrue'
  BY <1>5, <1>8, GotNothing
<1>10. << >> \in Tables /\ Within(<< >>, TablePairs(p))
  BY DEF Tables, Within
<1>11. PICK d : d = [NoDir EXCEPT !.ino = Root]
  OBVIOUS
<1>12. d \in DirHandles /\ d.ino = Root /\ d.path = << >>
  BY <1>11, PathsAre DEF NoDir, DirHandles, Inodes
<1>13. PICK new : new = <<d>>
  OBVIOUS
<1>14. new \in Seq(DirHandles) /\ DOMAIN new = {1} /\ new[1] = d
  BY <1>12, <1>13
<1>15. dirs' = [dirs EXCEPT ![p] = new]
  BY <1>5, <1>11, <1>13
<1>16. dirs \in [Proc -> Seq(DirHandles)]
  BY DEF HandleInv, NamesTypes
<1>17. /\ dirs' \in [Proc -> Seq(DirHandles)] /\ dirs'[p] = new
       /\ \A q \in Proc \ {p} : dirs'[q] = dirs[q]
  BY <1>14, <1>15, <1>16
<1>18. ASSUME NEW q \in Proc, NEW n \in DOMAIN dirs'[q], dirs'[q][n].ino # NoIno,
              dirs'[q][n].ino \notin renamed \cup gone[q]
       PROVE  at[dirs'[q][n].path] = dirs'[q][n].ino
  <2>1. CASE q = p
    <3>1. n = 1 /\ dirs'[q][n] = d
      BY <1>14, <1>17, <1>18, <2>1
    <3>2. at[<< >>] = Root
      BY <1>2, TreeIs
    <3> QED BY <1>12, <3>1, <3>2
  <2>2. CASE q # p
    <3>1. dirs'[q] = dirs[q]
      BY <1>17, <2>2
    <3> QED BY <1>18, <3>1 DEF HandleInv, ShortHandleTrue
  <2> QED BY <2>1, <2>2
<1>19. ShortHandleTrue'
  BY <1>5, <1>18 DEF ShortHandleTrue
<1> QED BY <1>3, <1>5, <1>7, <1>8, <1>9, <1>10, <1>17, <1>19, SetStays

(* The processes start with empty tables, without links, and with the handle *)
(* of LOGIN.                                                                 *)
LEMMA NamesStart == NamesInit => HandleInv
<1> SUFFICES ASSUME NamesInit PROVE HandleInv
  OBVIOUS
<1>1. at \in Trees /\ Tree(at)
  BY DEF NamesInit, Trees, Inodes
<1>2. TreeInv
  BY <1>1 DEF TreeInv
<1>3. PICK d : d = [NoDir EXCEPT !.ino = Root]
  OBVIOUS
<1>4. d \in DirHandles /\ d.ino = Root /\ d.path = << >>
  BY <1>3, PathsAre DEF NoDir, DirHandles, Inodes
<1>5. PICK new : new = <<d>>
  OBVIOUS
<1>6. new \in Seq(DirHandles) /\ DOMAIN new = {1} /\ new[1] = d
  BY <1>4, <1>5
<1>7. dirs = [p \in Proc |-> new]
  BY <1>3, <1>5 DEF NamesInit
<1>8. Nothing \in Gots /\ << >> \in Tables
  BY DEF Nothing, Gots, Tables
<1>9. base \in [Proc -> Tables] /\ \A p \in Proc : Within(base[p], TablePairs(p))
  <2>1. base = [p \in Proc |-> << >>]
    BY DEF NamesInit
  <2>2. \A p \in Proc : base[p] = << >>
    BY <2>1
  <2>3. \A p \in Proc : Within(<< >>, TablePairs(p))
    BY DEF Within
  <2> QED BY <1>8, <2>1, <2>2, <2>3
<1>10. disk \in Disks /\ Links(disk, LinkPairs)
  BY DEF NamesInit, Disks, Links
<1>11. NamesTypes
  <2>1. got \in [Proc -> Gots] /\ dirs \in [Proc -> Seq(DirHandles)]
    BY <1>6, <1>7, <1>8 DEF NamesInit
  <2>2. gone \in [Proc -> SUBSET Inodes] /\ goneOld \in [Proc -> SUBSET Inodes]
    BY DEF NamesInit
  <2> QED BY <1>9, <1>10, <2>1, <2>2 DEF NamesTypes
<1>12. BaseHandleTrue
  BY DEF BaseHandleTrue, NamesInit, Nothing
<1>13. at[<< >>] = Root
  BY <1>1 DEF Tree
<1>14. ASSUME NEW p \in Proc, NEW n \in DOMAIN dirs[p] PROVE at[dirs[p][n].path] = dirs[p][n].ino
  <2>1. dirs[p] = new
    BY <1>7
  <2> QED BY <1>4, <1>6, <1>13, <1>14, <2>1
<1>15. ShortHandleTrue
  BY <1>14 DEF ShortHandleTrue
<1> QED BY <1>2, <1>9, <1>10, <1>11, <1>12, <1>15 DEF HandleInv

(* Every call of every process keeps the invariant.                          *)
LEMMA NamesStep == HandleInv /\ [NamesNext]_nameVars => HandleInv'
<1> SUFFICES ASSUME HandleInv, [NamesNext]_nameVars PROVE HandleInv'
  OBVIOUS
<1>1. ASSUME NEW p \in Proc, BaseCall(p) PROVE HandleInv'
  <2>1. PICK h \in Ino \cup {Root}, rest \in Rest :
          \/ LookUp(p, h, rest)
          \/ \E i \in Ino : Create(p, h, rest, i)
          \/ Delete(p, h, rest)
          \/ \E dst \in Path : Rename(p, h, rest, Root, dst)
    BY <1>1 DEF BaseCall
  <2>2. h \in Inodes /\ Root \in Inodes
    BY DEF Inodes
  <2>3. CASE LookUp(p, h, rest)
    BY <2>2, <2>3, LookUpHandles
  <2>4. ASSUME NEW i \in Ino, Create(p, h, rest, i) PROVE HandleInv'
    BY <2>2, <2>4, CreateHandles
  <2>5. CASE Delete(p, h, rest)
    BY <2>2, <2>5, DeleteHandles
  <2>6. ASSUME NEW dst \in Path, Rename(p, h, rest, Root, dst) PROVE HandleInv'
    BY <2>2, <2>6, RenameHandles
  <2> QED BY <2>1, <2>3, <2>4, <2>5, <2>6
<1>2. ASSUME NEW p \in Proc, DirCall(p) PROVE HandleInv'
  <2>1. DirPath \subseteq Path
    BY DEF Path
  <2>2. ASSUME NEW path \in DirPath, NEW temp \in BOOLEAN, AllocDir(p, path, temp) PROVE HandleInv'
    BY <2>1, <2>2, AllocDirHandles
  <2>3. ASSUME NEW n \in 2..MaxDirs, FreeDir(p, n) PROVE HandleInv'
    BY <2>3, FreeDirHandles
  <2>4. ASSUME NEW n \in 2..MaxDirs, NEW path \in DirPath, SetDir(p, n, path) PROVE HandleInv'
    BY <2>1, <2>4, SetDirHandles
  <2>5. CASE EndOfTask(p)
    BY <2>5, EndOfTaskHandles
  <2> QED BY <1>2, <2>2, <2>3, <2>4, <2>5 DEF DirCall
<1>3. ASSUME NEW p \in Proc, OldCall(p) PROVE HandleInv'
  BY <1>3, RmDirHandles, MkDirHandles, MvDirHandles DEF OldCall
<1>4. ASSUME NEW p \in Proc, ExitNames(p) PROVE HandleInv'
  BY <1>4, ExitNamesHandles
<1>5. CASE UNCHANGED nameVars
  <2>1. UNCHANGED <<at, base, disk, dirs, got, renamed, gone, goneOld>>
    BY <1>5 DEF nameVars
  <2>2. Grows /\ Stays /\ TreeInv'
    BY <2>1, SameStays
  <2>3. ShortHandleTrue' /\ dirs' \in [Proc -> Seq(DirHandles)]
    BY <2>1, ShortSame
  <2>4. got' \in [Proc -> Gots] /\ BaseHandleTrue'
    BY <2>1, <2>2, GotSame
  <2> QED BY <2>1, <2>2, <2>3, <2>4, TablesStay
<1> QED BY <1>1, <1>2, <1>3, <1>4, <1>5 DEF NamesNext

(* Clean inodes are where the tables and the links say, in every state.      *)
LEMMA NamesHandleInv == NamesSpec => []HandleInv
BY NamesStart, NamesStep, PTL DEF NamesSpec

(* find_base_entry (namspace.c:746) gives a client's handle the object it    *)
(* was made for: for any processes, names, sizes of the tables and changes.  *)
THEOREM NamesBaseHandles == NamesSpec => []BaseHandleTrue
<1>1. HandleInv => BaseHandleTrue
  BY DEF HandleInv
<1> QED BY <1>1, NamesHandleInv, PTL

(* A short directory handle (connect.c:2157) leads to its directory.         *)
THEOREM NamesShortHandles == NamesSpec => []ShortHandleTrue
<1>1. HandleInv => ShortHandleTrue
  BY DEF HandleInv
<1> QED BY <1>1, NamesHandleInv, PTL

-----------------------------------------------------------------------------
(* Names: a marked entry outlives a look up                                  *)

(* A table between two requests: no entry is locked, and it is not too long. *)
Calm(T) ==
  /\ T \in Tables /\ Len(T) <= MaxBase
  /\ \A k \in DOMAIN T : T[k] # Hole => ~T[k].locked

(* e is among the first n entries.                                           *)
Has(T, e, n) == \E k \in DOMAIN T : T[k] = e /\ k <= n

(* In a calm table everything before the slot moves back by one.             *)
LEMMA CalmSort ==
  ASSUME NEW T, Calm(T), NEW D, NEW i \in DOMAIN T, NEW new \in Entries
  PROVE  LET r == Downsort(T, D, i, new) IN
         /\ r.slot = 1
         /\ \A k \in DOMAIN T : k # i /\ T[k] # Hole =>
              \/ k < i /\ k + 1 \in DOMAIN r.tab /\ r.tab[k + 1] = T[k]
              \/ k > i /\ k \in DOMAIN r.tab /\ r.tab[k] = T[k]
<1>1. PICK move : move = Movable(T, i)
  OBVIOUS
<1>2. /\ T \in Tables /\ Len(T) \in Nat /\ DOMAIN T = 1..Len(T) /\ i \in 1..Len(T)
      /\ \A k \in DOMAIN T : T[k] \in Slots
  BY DEF Calm, Tables
<1>3. move = 1..(i - 1)
  <2>1. \A j \in 1..(i - 1) : j \in DOMAIN T
    BY <1>2
  <2>2. \A j \in 1..(i - 1) : T[j] = Hole \/ ~T[j].locked
    BY <2>1 DEF Calm
  <2> QED BY <1>1, <2>2 DEF Movable
<1>4. new # Hole /\ new \in Slots
  BY HoleIs DEF Slots
<1> DEFINE V(k) == IF k # i /\ k \notin move THEN T[k]
                   ELSE IF \A j \in move : j >= k THEN new
                   ELSE T[Max({j \in move : j < k})]
<1>5. ASSUME NEW k \in 1..i, k # 1 PROVE V(k) = T[k - 1] /\ k - 1 \in DOMAIN T
  <2>1. k \in Nat /\ i \in Nat /\ k > 1 /\ k <= i
    BY <1>2, <1>5
  <2>2. PICK B : B = {j \in move : j < k}
    OBVIOUS
  <2>3. \A j \in B : j \in 0..i /\ j <= k - 1
    BY <1>3, <2>1, <2>2
  <2>4. k - 1 \in move /\ k - 1 < k
    BY <1>3, <2>1
  <2>5. k - 1 \in B
    BY <2>2, <2>4
  <2>6. B \in SUBSET (0..i) /\ B # {}
    BY <2>3, <2>5
  <2>7. Max(B) \in B /\ Max(B) >= k - 1
    BY <2>1, <2>5, <2>6, MaxIs
  <2>8. Max(B) = k - 1
    <3>1. PICK m : m = Max(B)
      OBVIOUS
    <3>2. m \in 0..i /\ m <= k - 1 /\ m >= k - 1
      BY <2>3, <2>7, <3>1
    <3> QED BY <2>1, <3>1, <3>2
  <2>9. ~(\A j \in move : j >= k)
    <3>1. ~(k - 1 >= k)
      BY <2>1
    <3> QED BY <2>4, <3>1
  <2>10. k = i \/ k \in move
    BY <1>3, <2>1
  <2>11. V(k) = T[Max(B)]
    BY <2>2, <2>9, <2>10
  <2>12. k - 1 \in DOMAIN T
    BY <1>2, <2>1
  <2> QED BY <2>8, <2>11, <2>12
<1>6. V(1) = new
  <2>1. \A j \in move : j >= 1
    BY <1>2, <1>3
  <2>2. 1 = i \/ 1 \in move
    BY <1>2, <1>3
  <2> QED BY <2>1, <2>2
<1>7. ASSUME NEW k \in DOMAIN T, k > i PROVE V(k) = T[k]
  <2>1. k # i /\ k \notin move
    BY <1>2, <1>3, <1>7
  <2> QED BY <2>1
<1> DEFINE U == [k \in DOMAIN T |-> V(k)]
<1>8. U = [k \in DOMAIN T |-> IF k # i /\ k \notin move THEN T[k]
                              ELSE IF \A j \in move : j >= k THEN new
                              ELSE T[Max({j \in move : j < k})]]
  OBVIOUS
<1>9. Shifted(T, i, new, move) = Trim(U)
  BY <1>8 DEF Shifted
<1>10. \A k \in DOMAIN T : U[k] = V(k)
  OBVIOUS
<1>11. DOMAIN U = DOMAIN T
  OBVIOUS
<1>12. U \in Tables
  <2>1. ASSUME NEW k \in DOMAIN T PROVE V(k) \in Slots
    <3> HIDE DEF V
    <3>1. CASE k > i
      BY <1>2, <1>7, <3>1
    <3>2. CASE k = 1
      BY <1>4, <1>6, <3>2
    <3>3. CASE k <= i /\ k # 1
      <4>1. k \in 1..i
        BY <1>2, <3>3
      <4> QED BY <1>2, <1>5, <3>3, <4>1
    <3> QED BY <1>2, <3>1, <3>2, <3>3
  <2>2. U \in [1..Len(T) -> Slots]
    <3> HIDE DEF V
    <3> QED BY <1>2, <2>1
  <2> HIDE DEF U
  <2> QED BY <1>2, <2>2 DEF Tables
<1> HIDE DEF U, V
<1>13. /\ \A k \in DOMAIN Trim(U) : k \in DOMAIN U /\ Trim(U)[k] = U[k]
       /\ \A k \in DOMAIN U : U[k] # Hole => k \in DOMAIN Trim(U)
  BY <1>12, TrimIs
<1>14. PICK r : r = Downsort(T, D, i, new)
  OBVIOUS
<1>15. r.tab = Trim(U) /\ r.slot = Min({i} \cup move)
  BY <1>1, <1>9, <1>14 DEF Downsort
<1>16. r.slot = 1
  <2>1. {i} \cup move \in SUBSET Nat
    BY <1>2, <1>3
  <2>2. 1 \in {i} \cup move /\ \A j \in {i} \cup move : j >= 1
    BY <1>2, <1>3
  <2>3. PICK m : m = Min({i} \cup move)
    OBVIOUS
  <2>4. m \in {i} \cup move /\ m <= 1
    BY <2>1, <2>2, <2>3, MinIs
  <2>5. m \in Nat /\ m >= 1
    BY <2>1, <2>2, <2>4
  <2> QED BY <1>15, <2>3, <2>4, <2>5
<1>17. ASSUME NEW k \in DOMAIN T, k # i, T[k] # Hole
       PROVE  \/ k < i /\ k + 1 \in DOMAIN r.tab /\ r.tab[k + 1] = T[k]
              \/ k > i /\ k \in DOMAIN r.tab /\ r.tab[k] = T[k]
  <2>1. CASE k < i
    <3>1. PICK n : n = k + 1
      OBVIOUS
    <3>2. n \in 1..i /\ n # 1 /\ n - 1 = k /\ n \in DOMAIN T
      BY <1>2, <2>1, <3>1
    <3>3. V(n) = T[k]
      BY <1>5, <3>2
    <3>4. U[n] = T[k] /\ n \in DOMAIN Trim(U)
      BY <1>10, <1>11, <1>13, <1>17, <3>2, <3>3
    <3> QED BY <1>13, <1>15, <2>1, <3>1, <3>4
  <2>2. CASE k > i
    <3>1. U[k] = T[k]
      BY <1>7, <1>10, <2>2
    <3>2. k \in DOMAIN Trim(U)
      BY <1>11, <1>13, <1>17, <3>1
    <3> QED BY <1>13, <1>15, <2>2, <3>1, <3>2
  <2> QED BY <1>2, <1>17, <2>1, <2>2
<1> QED BY <1>14, <1>16, <1>17

(* A table an unlocked entry was put into is calm.                           *)
LEMMA CalmObtained ==
  ASSUME NEW T, Calm(T), NEW D, NEW new \in Entries, ~new.locked, NEW r, Obtained(r, T, D, new)
  PROVE  Calm(r.tab)
<1>1. r.tab \in Tables /\ Len(r.tab) <= MaxBase
  BY DEF Calm, Obtained
<1>2. ASSUME NEW k \in DOMAIN r.tab, r.tab[k] # Hole PROVE ~r.tab[k].locked
  <2>1. CASE r.tab[k] = new
    BY <2>1
  <2>2. CASE \E j \in DOMAIN T : r.tab[k] = T[j]
    BY <1>2, <2>2 DEF Calm
  <2> QED BY <1>2, <2>1, <2>2 DEF Obtained
<1> QED BY <1>1, <1>2 DEF Calm

(* An entry that is given up.                                                *)
LEMMA CalmFree ==
  ASSUME NEW T, Calm(T), NEW i \in DOMAIN T
  PROVE  /\ Calm(FreeSlot(T, i))
         /\ \A k \in DOMAIN T : k # i /\ T[k] # Hole =>
              k \in DOMAIN FreeSlot(T, i) /\ FreeSlot(T, i)[k] = T[k]
<1>1. PICK R : R = FreeSlot(T, i)
  OBVIOUS
<1>2. T \in Tables /\ Len(T) \in Nat
  BY DEF Calm, Tables
<1>3. /\ R \in Tables /\ Len(R) <= Len(T)
      /\ \A k \in DOMAIN R : k \in DOMAIN T /\ (R[k] # Hole => k # i /\ R[k] = T[k])
      /\ \A k \in DOMAIN T : k # i /\ T[k] # Hole => k \in DOMAIN R /\ R[k] = T[k]
  BY <1>1, <1>2, FreeIs
<1>4. Len(R) \in Nat /\ MaxBase \in Nat
  BY <1>3, NamesConstants DEF Tables
<1>5. Len(R) <= MaxBase
  BY <1>2, <1>3, <1>4 DEF Calm
<1>6. \A k \in DOMAIN R : R[k] # Hole => ~R[k].locked
  BY <1>3 DEF Calm
<1> QED BY <1>1, <1>3, <1>5, <1>6 DEF Calm

(* An entry that is used moves another one back by one at most.              *)
LEMMA CalmTouch ==
  ASSUME NEW T, Calm(T), NEW D \in Disks, NEW i \in DOMAIN T, T[i] \in Entries
  PROVE  LET r == Touch(T, D, i) IN
         /\ Calm(r.tab) /\ r.slot \in 1..(TouchFrom + 1)
         /\ \A k \in DOMAIN T : T[k] # Hole =>
              \E n \in DOMAIN r.tab : n <= k + 1 /\ r.tab[n] = T[k]
<1>1. PICK r : r = Touch(T, D, i)
  OBVIOUS
<1>2. /\ T \in Tables /\ TouchFrom \in Nat /\ DOMAIN T \subseteq Nat /\ i \in Nat /\ i >= 1
      /\ T[i] # Hole
  BY NamesConstants, HoleIs DEF Calm, Tables
<1>3. Calm(r.tab)
  <2>1. Obtained(r, T, D, T[i])
    BY <1>1, <1>2, TouchIs
  <2>2. PICK e \in Entries : e = T[i]
    OBVIOUS
  <2>3. ~e.locked
    BY <1>2, <2>2 DEF Calm
  <2> QED BY <2>1, <2>2, <2>3, CalmObtained
<1>4. CASE i - 1 > TouchFrom
  <2>1. r = Downsort(T, D, i, T[i])
    BY <1>1, <1>4 DEF Touch
  <2>2. /\ r.slot = 1
        /\ \A k \in DOMAIN T : k # i /\ T[k] # Hole =>
             \/ k < i /\ k + 1 \in DOMAIN r.tab /\ r.tab[k + 1] = T[k]
             \/ k > i /\ k \in DOMAIN r.tab /\ r.tab[k] = T[k]
    BY <2>1, CalmSort
  <2>3. r.slot \in DOMAIN r.tab /\ r.tab[r.slot] = T[i]
    BY <1>1, <1>2, TouchIs DEF Obtained
  <2>4. ASSUME NEW k \in DOMAIN T, T[k] # Hole
        PROVE  \E n \in DOMAIN r.tab : n <= k + 1 /\ r.tab[n] = T[k]
    <3>1. k \in Nat /\ k <= k + 1 /\ k + 1 <= k + 1 /\ 1 <= k + 1
      BY <1>2
    <3>2. CASE k = i
      BY <2>2, <2>3, <3>1, <3>2
    <3>3. CASE k # i
      BY <2>2, <2>4, <3>1, <3>3
    <3> QED BY <3>2, <3>3
  <2>5. r.slot \in 1..(TouchFrom + 1)
    BY <1>2, <2>2
  <2> QED BY <1>1, <1>3, <2>4, <2>5
<1>5. CASE ~(i - 1 > TouchFrom)
  <2>1. r.tab = T /\ r.slot = i
    BY <1>1, <1>5 DEF Touch
  <2>2. \A k \in DOMAIN T : k <= k + 1
    BY <1>2
  <2>3. i \in 1..(TouchFrom + 1)
    BY <1>2, <1>5
  <2> QED BY <1>1, <1>3, <2>1, <2>2, <2>3
<1> QED BY <1>4, <1>5

(* The entry that has to give way for a new one is far behind: this needs    *)
(* MaxBase >= TouchFrom + 3 and FileFrom > TouchFrom.                        *)
LEMMA VictimIsFar ==
  ASSUME NEW T, Calm(T), Holes(T) = {}, Len(T) >= MaxBase
  PROVE  Victim(T) > TouchFrom + 2 /\ Victim(T) \in Nat
<1>1. /\ T \in Tables /\ Len(T) = MaxBase /\ DOMAIN T = 1..MaxBase /\ MaxBase \in Nat
      /\ MaxBase >= TouchFrom + 3 /\ TouchFrom \in Nat /\ FileFrom \in Nat /\ FileFrom > TouchFrom
  BY NamesConstants DEF Calm, Tables
<1>2. Unlocked(T) = DOMAIN T
  <2>1. \A k \in DOMAIN T : T[k] # Hole
    BY DEF Holes
  <2> QED BY <2>1 DEF Unlocked, Calm
<1>3. \A k \in DOMAIN T : k \in 0..MaxBase
  BY <1>1
<1>4. CASE Files(T) # {}
  <2>1. \A k \in Files(T) : k \in DOMAIN T /\ k - 1 > FileFrom
    BY <1>2 DEF Files
  <2>2. Files(T) \in SUBSET (0..MaxBase)
    BY <1>3, <2>1
  <2>3. Max(Files(T)) \in Files(T)
    BY <1>1, <1>4, <2>2, MaxIs
  <2>4. PICK m \in Files(T) : m = Victim(T)
    BY <1>4, <2>3 DEF Victim
  <2>5. m \in Nat /\ m - 1 > FileFrom
    BY <1>1, <2>1, <2>4
  <2>6. m > TouchFrom + 2
    BY <1>1, <2>5
  <2> QED BY <2>4, <2>5, <2>6
<1>5. CASE Files(T) = {}
  <2>1. MaxBase \in DOMAIN T /\ DOMAIN T # {}
    BY <1>1
  <2>2. DOMAIN T \in SUBSET (0..MaxBase)
    BY <1>3
  <2>3. Max(DOMAIN T) \in DOMAIN T /\ Max(DOMAIN T) >= MaxBase
    BY <1>1, <2>1, <2>2, MaxIs
  <2>4. PICK m \in DOMAIN T : m = Victim(T) /\ m >= MaxBase
    BY <1>2, <1>5, <2>1, <2>3 DEF Victim
  <2>5. m \in Nat
    BY <1>1
  <2>6. m > TouchFrom + 2
    BY <1>1, <2>4, <2>5
  <2> QED BY <2>4, <2>5, <2>6
<1> QED BY <1>4, <1>5

(* A new entry moves another one back by one at most, and does not take the  *)
(* place of one of the first.                                                *)
LEMMA CalmAllocate ==
  ASSUME NEW T, Calm(T), NEW D \in Disks, NEW new \in Entries, ~new.locked
  PROVE  LET r == Allocate(T, D, new) IN
         /\ Calm(r.tab) /\ r.slot = 1
         /\ \A k \in DOMAIN T : T[k] # Hole /\ k <= TouchFrom + 2 =>
              \E n \in DOMAIN r.tab : n <= k + 1 /\ r.tab[n] = T[k]
<1>1. PICK r : r = Allocate(T, D, new)
  OBVIOUS
<1>2. PICK j : j = NewSlot(T)
  OBVIOUS
<1>3. /\ T \in Tables /\ Len(T) \in Nat /\ DOMAIN T = 1..Len(T) /\ MaxBase \in Nat
      /\ TouchFrom \in Nat /\ Len(T) <= MaxBase
  BY NamesConstants DEF Calm, Tables
<1>4. j \in 1..(Len(T) + 1) /\ (j = Len(T) + 1 => Len(T) < MaxBase)
  BY <1>2, <1>3, NewSlotIs
<1>5. Calm(r.tab)
  BY <1>1, <1>3, AllocateIs, CalmObtained
<1>6. ASSUME NEW k \in DOMAIN T, T[k] # Hole, k <= TouchFrom + 2 PROVE k # j
  <2>1. CASE Holes(T) # {}
    BY <1>2, <1>3, <1>6, <2>1, NewSlotIs DEF Holes
  <2>2. CASE Holes(T) = {} /\ Len(T) >= MaxBase
    <3>1. j > TouchFrom + 2 /\ j \in Nat
      BY <1>2, <1>3, <2>2, NewSlotIs, VictimIsFar
    <3> QED BY <1>3, <1>6, <3>1
  <2>3. CASE Holes(T) = {} /\ ~(Len(T) >= MaxBase)
    <3>1. j = Len(T) + 1
      BY <1>2, <1>3, <2>3 DEF NewSlot
    <3> QED BY <1>3, <3>1
  <2> QED BY <2>1, <2>2, <2>3
<1>7. PICK U, E : /\ U = IF j > Len(T) THEN Append(T, Hole) ELSE T
                  /\ E = IF j > Len(T) \/ T[j] = Hole THEN D ELSE PutToDisk(D, T[j])
  OBVIOUS
<1>8. r = Downsort(U, E, j, new)
  BY <1>1, <1>2, <1>7 DEF Allocate, AllocateAt
<1>9. Calm(U) /\ j \in DOMAIN U /\ \A k \in DOMAIN T : k \in DOMAIN U /\ U[k] = T[k]
  <2>1. CASE j > Len(T)
    <3>1. U = Append(T, Hole)
      BY <1>7, <2>1
    <3>2. /\ U \in Seq(Slots) /\ Len(U) = Len(T) + 1 /\ U[Len(T) + 1] = Hole
          /\ \A k \in 1..Len(T) : U[k] = T[k]
      BY <1>3, <3>1 DEF Tables, Slots
    <3>3. DOMAIN U = 1..(Len(T) + 1) /\ j = Len(T) + 1
      BY <1>3, <1>4, <2>1, <3>2
    <3>4. \A k \in DOMAIN U : k \in DOMAIN T \/ k = Len(T) + 1
      BY <1>3, <3>3
    <3>5. \A k \in DOMAIN U : U[k] # Hole => ~U[k].locked
      BY <1>3, <3>2, <3>4 DEF Calm
    <3>6. Len(U) <= MaxBase
      BY <1>3, <1>4, <3>2, <3>3
    <3>7. j \in DOMAIN U /\ \A k \in DOMAIN T : k \in DOMAIN U /\ U[k] = T[k]
      BY <1>3, <3>2, <3>3
    <3> QED BY <3>2, <3>5, <3>6, <3>7 DEF Calm, Tables
  <2>2. CASE ~(j > Len(T))
    BY <1>3, <1>4, <1>7, <2>2
  <2> QED BY <2>1, <2>2
<1>10. /\ r.slot = 1
       /\ \A k \in DOMAIN U : k # j /\ U[k] # Hole =>
            \/ k < j /\ k + 1 \in DOMAIN r.tab /\ r.tab[k + 1] = U[k]
            \/ k > j /\ k \in DOMAIN r.tab /\ r.tab[k] = U[k]
  BY <1>8, <1>9, CalmSort
<1>11. ASSUME NEW k \in DOMAIN T, T[k] # Hole, k <= TouchFrom + 2
       PROVE  \E n \in DOMAIN r.tab : n <= k + 1 /\ r.tab[n] = T[k]
  <2>1. k \in Nat /\ k <= k + 1 /\ k + 1 <= k + 1
    BY <1>3
  <2>2. k # j /\ k \in DOMAIN U /\ U[k] = T[k]
    BY <1>6, <1>9, <1>11
  <2> QED BY <1>10, <1>11, <2>1, <2>2
<1> QED BY <1>1, <1>5, <1>10, <1>11

(* find_base_entry keeps the first entries, but for those of the handle.     *)
LEMMA CalmFind ==
  ASSUME at \in Trees, NEW T, Calm(T), NEW D \in Disks, NEW h \in Inodes
  PROVE  LET r == FindBase(T, D, h) IN
         /\ Calm(r.tab) /\ r.disk \in Disks
         /\ r.slot # 0 =>
              \A k \in DOMAIN T : T[k] # Hole /\ T[k].ino # h /\ k <= TouchFrom + 2 =>
                \E n \in DOMAIN r.tab : n <= k + 1 /\ r.tab[n] = T[k]
<1>1. PICK r : r = FindBase(T, D, h)
  OBVIOUS
<1>2. T \in Tables
  BY DEF Calm
<1>3. CASE Of(T, h) # {}
  <2>1. PICK i : i = Min(Of(T, h))
    OBVIOUS
  <2>2. i \in DOMAIN T /\ T[i] \in Entries /\ T[i] # Hole /\ T[i].ino = h
    BY <1>2, <1>3, <2>1, OfIs
  <2>3. PICK e \in Entries : e = T[i]
    BY <2>2
  <2>4. PICK now : now = at[e.path]
    OBVIOUS
  <2>5. r = Found(T, D, i, now)
    BY <1>1, <1>3, <2>1, <2>3, <2>4 DEF FindBase, FindAt
  <2>6. CASE now = NoIno
    <3>1. r.tab = FreeSlot(T, i) /\ r.disk = D /\ r.slot = 0
      BY <2>5, <2>6 DEF Found, Failed
    <3> QED BY <1>1, <2>2, <3>1, CalmFree
  <2>7. CASE now # NoIno
    <3>1. PICK c : c = [e EXCEPT !.ino = now]
      OBVIOUS
    <3>2. e.path \in Path /\ now \in Inodes
      BY <2>4, <2>7 DEF Entries, Trees
    <3>3. ~e.locked
      BY <2>2, <2>3 DEF Calm
    <3>4. c \in Entries /\ c \in Slots /\ ~c.locked
      BY <3>1, <3>2, <3>3 DEF Entries, Slots
    <3>5. PICK U : U = [T EXCEPT ![i] = c]
      OBVIOUS
    <3>6. [T EXCEPT ![i].ino = now] = U
      BY <2>3, <3>1, <3>5
    <3>7. /\ U \in Tables /\ DOMAIN U = DOMAIN T /\ Len(U) = Len(T) /\ U[i] = c
          /\ \A k \in DOMAIN T : k # i => U[k] = T[k]
      <4>1. T \in Tables /\ i \in DOMAIN T /\ c \in Slots
        BY <1>2, <2>2, <3>4
      <4>2. /\ U \in Tables /\ DOMAIN U = DOMAIN T /\ U[i] = c
            /\ \A k \in DOMAIN T : k # i => U[k] = T[k]
        BY <3>5, <4>1, SlotSet
      <4>3. Len(U) = Len(T)
        BY <4>1, <4>2 DEF Tables
      <4> QED BY <4>2, <4>3
    <3>8. Calm(U)
      <4>1. \A k \in DOMAIN U : U[k] # Hole => ~U[k].locked
        BY <3>4, <3>7 DEF Calm
      <4> QED BY <3>7, <4>1 DEF Calm
    <3>9. r = Touch(U, D, i)
      BY <2>5, <2>7, <3>6 DEF Found
    <3>10. i \in DOMAIN U /\ U[i] \in Entries
      BY <2>2, <3>4, <3>7
    <3>11. /\ Calm(r.tab)
           /\ \A k \in DOMAIN U : U[k] # Hole =>
                \E n \in DOMAIN r.tab : n <= k + 1 /\ r.tab[n] = U[k]
      BY <3>8, <3>9, <3>10, CalmTouch
    <3>12. r.disk \in Disks
      BY <3>7, <3>9, <3>10, TouchIs DEF Obtained
    <3>13. ASSUME NEW k \in DOMAIN T, T[k] # Hole, T[k].ino # h
           PROVE  \E n \in DOMAIN r.tab : n <= k + 1 /\ r.tab[n] = T[k]
      <4>1. k # i /\ U[k] = T[k] /\ k \in DOMAIN U
        BY <2>2, <3>7, <3>13
      <4> QED BY <3>11, <3>13, <4>1
    <3> QED BY <1>1, <3>11, <3>12, <3>13
  <2> QED BY <2>6, <2>7
<1>4. CASE Of(T, h) = {}
  <2>1. PICK q : q = IF h = Root THEN << >> ELSE D[h]
    OBVIOUS
  <2>2. q \in Path \cup {NoPath}
    <3>1. CASE h = Root
      BY <2>1, <3>1 DEF Path
    <3>2. CASE h # Root
      <4>1. h \in Ino
        BY <3>2 DEF Inodes
      <4> QED BY <2>1, <3>2, <4>1 DEF Disks, DirsOf
    <3> QED BY <3>1, <3>2
  <2>3. r = FromPath(T, D, q)
    BY <1>1, <1>4, <2>1 DEF FindBase, FindAt
  <2>4. CASE q = NoPath
    <3>1. r.tab = T /\ r.disk = D /\ r.slot = 0
      BY <2>3, <2>4 DEF FromPath, Failed
    <3> QED BY <1>1, <3>1
  <2>6. CASE q # NoPath /\ at[q] = NoIno
    <3>1. PICK t : t = Allocate(T, D, Hole)
      OBVIOUS
    <3>2. r.tab = t.tab /\ r.disk = t.disk /\ r.slot = 0
      BY <2>3, <2>6, <3>1 DEF FromPath, Emptied, Failed
    <3>3. Taken(t, T, D, Hole)
      BY <1>2, <3>1, AllocateTakes DEF Slots
    <3>4. t.tab \in Tables /\ Len(t.tab) <= MaxBase /\ t.disk \in Disks
      BY <3>3 DEF Taken, Calm
    <3>5. \A k \in DOMAIN t.tab : t.tab[k] # Hole => ~t.tab[k].locked
      BY <3>3 DEF Taken, Calm
    <3>6. Calm(t.tab)
      BY <3>4, <3>5 DEF Calm
    <3> QED BY <1>1, <3>2, <3>4, <3>6
  <2>5. CASE ~(q = NoPath \/ at[q] = NoIno)
    <3>1. q \in Path /\ at[q] \in Inodes
      BY <2>2, <2>5 DEF Trees
    <3>2. PICK c : c = Entry(at[q], q)
      OBVIOUS
    <3>3. c \in Entries /\ ~c.locked
      BY <3>1, <3>2 DEF Entry, Entries
    <3>4. r = Allocate(T, D, c)
      BY <2>3, <2>5, <3>2 DEF FromPath
    <3>5. /\ Calm(r.tab)
          /\ \A k \in DOMAIN T : T[k] # Hole /\ k <= TouchFrom + 2 =>
               \E n \in DOMAIN r.tab : n <= k + 1 /\ r.tab[n] = T[k]
      BY <3>3, <3>4, CalmAllocate
    <3>6. r.disk \in Disks
      BY <1>2, <3>3, <3>4, AllocateIs DEF Obtained
    <3> QED BY <1>1, <3>5, <3>6
  <2> QED BY <2>4, <2>5, <2>6
<1> QED BY <1>3, <1>4

(* insert_get_base_entry puts its entry among the first, and keeps the first *)
(* ones, but for another path of its inode.                                  *)
LEMMA CalmInsert ==
  ASSUME NEW T, Calm(T), NEW D \in Disks, NEW q \in Path, NEW x \in Inodes \cup {NoIno}
  PROVE  LET r == InsertGet(T, D, q, x) IN
         /\ Calm(r.tab) /\ r.disk \in Disks
         /\ r.slot # 0 =>
              /\ r.slot \in 1..(TouchFrom + 1)
              /\ \A k \in DOMAIN T :
                   /\ T[k] # Hole /\ k <= TouchFrom + 2
                   /\ T[k].ino = x => T[k].path = q
                   => \E n \in DOMAIN r.tab : n <= k + 1 /\ r.tab[n] = T[k]
<1>1. PICK r : r = InsertGet(T, D, q, x)
  OBVIOUS
<1>2. PICK own : own = Of(T, x)
  OBVIOUS
<1>3. r = InsertOn(T, D, q, x, own)
  BY <1>1, <1>2 DEF InsertGet
<1>4. T \in Tables /\ TouchFrom \in Nat
  BY NamesConstants DEF Calm
<1>5. CASE x = NoIno
  <2>1. r.tab = T /\ r.disk = D /\ r.slot = 0
    BY <1>3, <1>5 DEF InsertOn, Failed
  <2> QED BY <1>1, <2>1
<1>6. CASE x # NoIno /\ own # {} /\ T[Min(own)].path = q
  <2>1. PICK i : i = Min(own)
    OBVIOUS
  <2>2. i \in DOMAIN T /\ T[i] \in Entries
    BY <1>2, <1>4, <1>6, <2>1, OfIs
  <2>3. r = Touch(T, D, i)
    BY <1>3, <1>6, <2>1 DEF InsertOn
  <2>4. /\ Calm(r.tab) /\ r.slot \in 1..(TouchFrom + 1)
        /\ \A k \in DOMAIN T : T[k] # Hole =>
             \E n \in DOMAIN r.tab : n <= k + 1 /\ r.tab[n] = T[k]
    BY <2>2, <2>3, CalmTouch
  <2>5. r.disk \in Disks
    BY <1>4, <2>2, <2>3, TouchIs DEF Obtained
  <2> QED BY <1>1, <2>4, <2>5
<1>7. CASE x # NoIno /\ ~(own # {} /\ T[Min(own)].path = q)
  <2>1. PICK c : c = Entry(x, q)
    OBVIOUS
  <2>2. c \in Entries /\ ~c.locked
    BY <1>7, <2>1 DEF Entry, Entries
  <2>3. PICK U : U = IF own = {} THEN T ELSE FreeSlot(T, Min(own))
    OBVIOUS
  <2>4. r = Allocate(U, D, c)
    BY <1>3, <1>7, <2>1, <2>3 DEF InsertOn
  <2>5. /\ Calm(U)
        /\ \A k \in DOMAIN T : T[k] # Hole /\ (T[k].ino = x => T[k].path = q) =>
             k \in DOMAIN U /\ U[k] = T[k]
    <3>1. CASE own = {}
      BY <2>3, <3>1
    <3>2. CASE own # {}
      <4>1. PICK i : i = Min(own)
        OBVIOUS
      <4>2. i \in DOMAIN T /\ T[i].ino = x /\ T[i].path # q
        BY <1>2, <1>4, <1>7, <3>2, <4>1, OfIs
      <4>3. U = FreeSlot(T, i)
        BY <2>3, <3>2, <4>1
      <4> QED BY <4>2, <4>3, CalmFree
    <3> QED BY <3>1, <3>2
  <2>6. /\ Calm(r.tab) /\ r.slot = 1
        /\ \A k \in DOMAIN U : U[k] # Hole /\ k <= TouchFrom + 2 =>
             \E n \in DOMAIN r.tab : n <= k + 1 /\ r.tab[n] = U[k]
    BY <2>2, <2>4, <2>5, CalmAllocate
  <2>7. r.slot \in 1..(TouchFrom + 1)
    BY <1>4, <2>6
  <2>8. ASSUME NEW k \in DOMAIN T, T[k] # Hole, k <= TouchFrom + 2, T[k].ino = x => T[k].path = q
        PROVE  \E n \in DOMAIN r.tab : n <= k + 1 /\ r.tab[n] = T[k]
    BY <2>5, <2>6, <2>8
  <2>9. r.disk \in Disks
    <3>1. U \in Tables
      BY <2>5 DEF Calm
    <3> QED BY <2>2, <2>4, <3>1, AllocateIs DEF Obtained
  <2> QED BY <1>1, <2>6, <2>7, <2>8, <2>9
<1> QED BY <1>5, <1>6, <1>7

(* build_base: what it found is among the first entries; and an entry that   *)
(* was among them, of something else than the base, is in the table still.   *)
LEMMA CalmBuild ==
  ASSUME at \in Trees, NEW T, Calm(T), NEW D \in Disks, NEW h \in Inodes, NEW rest
  PROVE  LET r == BuildBase(T, D, h, rest) IN
         /\ Calm(r.tab) /\ r.disk \in Disks
         /\ r.slot # 0 =>
              /\ r.slot \in 1..(TouchFrom + 1)
              /\ \A k \in DOMAIN T :
                   /\ T[k] # Hole /\ T[k].ino # h /\ k <= TouchFrom + 1
                   /\ \A q \in Path : at[q] = T[k].ino => T[k].path = q
                   => \E n \in DOMAIN r.tab : r.tab[n] = T[k]
<1>1. PICK r : r = BuildBase(T, D, h, rest)
  OBVIOUS
<1>2. PICK f : f = FindBase(T, D, h)
  OBVIOUS
<1>3. PICK path : path = PathOf(f) \o rest
  OBVIOUS
<1>4. r = UnderBase(f, path)
  BY <1>1, <1>2, <1>3 DEF BuildBase, BuildOn
<1>5. /\ Calm(f.tab) /\ f.disk \in Disks
      /\ f.slot # 0 =>
           \A k \in DOMAIN T : T[k] # Hole /\ T[k].ino # h /\ k <= TouchFrom + 2 =>
             \E n \in DOMAIN f.tab : n <= k + 1 /\ f.tab[n] = T[k]
  BY <1>2, CalmFind
<1>6. CASE f.slot = 0 \/ path \notin Path
  <2>1. r.tab = f.tab /\ r.disk = f.disk /\ r.slot = 0
    BY <1>4, <1>6 DEF UnderBase, Failed
  <2> QED BY <1>1, <1>5, <2>1
<1>7. CASE ~(f.slot = 0 \/ path \notin Path)
  <2>1. PICK x : x = at[path]
    OBVIOUS
  <2>2. x \in Inodes \cup {NoIno}
    BY <1>7, <2>1 DEF Trees
  <2>3. PICK U, E : U = f.tab /\ E = f.disk
    OBVIOUS
  <2>4. r = InsertGet(U, E, path, x) /\ Calm(U) /\ E \in Disks /\ path \in Path
    BY <1>4, <1>5, <1>7, <2>1, <2>3 DEF UnderBase
  <2>5. /\ Calm(r.tab) /\ r.disk \in Disks
        /\ r.slot # 0 =>
             /\ r.slot \in 1..(TouchFrom + 1)
             /\ \A k \in DOMAIN U :
                  /\ U[k] # Hole /\ k <= TouchFrom + 2
                  /\ U[k].ino = x => U[k].path = path
                  => \E n \in DOMAIN r.tab : n <= k + 1 /\ r.tab[n] = U[k]
    BY <2>2, <2>4, CalmInsert
  <2>6. ASSUME r.slot # 0, NEW k \in DOMAIN T, T[k] # Hole, T[k].ino # h, k <= TouchFrom + 1,
               \A q \in Path : at[q] = T[k].ino => T[k].path = q
        PROVE  \E n \in DOMAIN r.tab : r.tab[n] = T[k]
    <3>1. k \in Nat /\ TouchFrom \in Nat
      BY NamesConstants DEF Calm, Tables
    <3>2. k <= TouchFrom + 2
      BY <2>6, <3>1
    <3>3. PICK m \in DOMAIN U : m <= k + 1 /\ U[m] = T[k]
      BY <1>5, <1>7, <2>3, <2>6, <3>2
    <3>4. m \in Nat
      BY <2>4 DEF Calm, Tables
    <3>5. m <= TouchFrom + 2
      BY <2>6, <3>1, <3>3, <3>4
    <3>6. U[m].ino = x => U[m].path = path
      BY <2>1, <2>4, <2>6, <3>3
    <3> QED BY <2>5, <2>6, <3>3, <3>5, <3>6
  <2> QED BY <1>1, <2>5, <2>6
<1> QED BY <1>6, <1>7

-----------------------------------------------------------------------------
(* Names: no call uses an entry it has freed                                 *)

(* Between two requests the tables are calm, and nothing freed was used.     *)
AllCalm ==
  /\ freed = [p \in Proc |-> FALSE]
  /\ \A p \in Proc : Calm(base[p])

(* A call that leaves a calm table.                                          *)
LEMMA CalmSet ==
  ASSUME HandleInv, AllCalm, NEW p \in Proc, NEW T, Calm(T), base' = [base EXCEPT ![p] = T],
         UNCHANGED freed
  PROVE  AllCalm'
<1>1. base \in [Proc -> Tables]
  BY DEF HandleInv, NamesTypes
<1>2. ASSUME NEW q \in Proc PROVE Calm(base'[q])
  <2>1. CASE q = p
    <3>1. base'[q] = T
      BY <1>1, <2>1
    <3> QED BY <3>1
  <2>2. CASE q # p
    <3>1. base'[q] = base[q]
      BY <1>1, <2>2
    <3> QED BY <3>1 DEF AllCalm
  <2> QED BY <2>1, <2>2
<1>3. \A q \in Proc : Calm(base[q])'
  BY <1>2 DEF Calm
<1> QED BY <1>3 DEF AllCalm

(* What the tables are when a call begins.                                   *)
LEMMA CalmStart ==
  ASSUME HandleInv, AllCalm, NEW p \in Proc
  PROVE  at \in Trees /\ Calm(base[p]) /\ disk \in Disks
  BY DEF HandleInv, TreeInv, NamesTypes, AllCalm

(* A call that only looks.                                                   *)
LEMMA LookUpCalm ==
  ASSUME HandleInv, AllCalm, NEW p \in Proc, NEW h \in Inodes, NEW rest, LookUp(p, h, rest)
  PROVE  AllCalm'
<1>1. PICK r \in {BuildBase(base[p], disk, h, rest)} : Set(p, r)
  BY DEF LookUp
<1>2. Calm(r.tab)
  <2>1. PICK T, D : T = base[p] /\ D = disk
    OBVIOUS
  <2>2. at \in Trees /\ Calm(T) /\ D \in Disks
    BY <2>1, CalmStart
  <2>3. r = BuildBase(T, D, h, rest)
    BY <1>1, <2>1
  <2> QED BY <2>2, <2>3, CalmBuild
<1>3. base' = [base EXCEPT ![p] = r.tab] /\ UNCHANGED freed
  BY <1>1 DEF LookUp, Set
<1> QED BY <1>2, <1>3, CalmSet

(* nw_open_creat_file_or_dir.                                                *)
LEMMA CreateCalm ==
  ASSUME HandleInv, AllCalm, NEW p \in Proc, NEW h \in Inodes, NEW rest, NEW i,
         Create(p, h, rest, i)
  PROVE  AllCalm'
<1>1. PICK r \in {BuildBase(base[p], disk, h, rest)} :
        \E s \in {BuildBase(r.tab, r.disk, h, Front(rest))} :
          \E path \in {Append(PathOf(s), Last(rest))} :
            path \in Path /\ Set(p, InsertGet(s.tab, s.disk, path, i))
  BY DEF Create
<1>2. PICK s \in {BuildBase(r.tab, r.disk, h, Front(rest))} :
        \E path \in {Append(PathOf(s), Last(rest))} :
          path \in Path /\ Set(p, InsertGet(s.tab, s.disk, path, i))
  BY <1>1
<1>3. PICK path \in {Append(PathOf(s), Last(rest))} :
        path \in Path /\ Set(p, InsertGet(s.tab, s.disk, path, i))
  BY <1>2
<1>4. i \in Inodes /\ UNCHANGED freed
  BY DEF Create, Unused, Inodes
<1>5. Calm(r.tab) /\ r.disk \in Disks /\ at \in Trees
  <2>1. PICK T, D : T = base[p] /\ D = disk
    OBVIOUS
  <2>2. at \in Trees /\ Calm(T) /\ D \in Disks
    BY <2>1, CalmStart
  <2>3. r = BuildBase(T, D, h, rest)
    BY <1>1, <2>1
  <2> QED BY <2>2, <2>3, CalmBuild
<1>6. Calm(s.tab) /\ s.disk \in Disks
  <2>1. PICK T, D, front : T = r.tab /\ D = r.disk /\ front = Front(rest)
    OBVIOUS
  <2>2. s = BuildBase(T, D, h, front) /\ Calm(T) /\ D \in Disks
    BY <1>2, <1>5, <2>1
  <2> QED BY <1>5, <2>2, CalmBuild
<1>7. PICK w : w = InsertGet(s.tab, s.disk, path, i)
  OBVIOUS
<1>8. Calm(w.tab)
  <2>1. PICK T, D : T = s.tab /\ D = s.disk
    OBVIOUS
  <2>2. w = InsertGet(T, D, path, i) /\ Calm(T) /\ D \in Disks
    BY <1>6, <1>7, <2>1
  <2> QED BY <1>3, <1>4, <2>2, CalmInsert
<1>9. base' = [base EXCEPT ![p] = w.tab]
  BY <1>3, <1>7 DEF Set
<1> QED BY <1>4, <1>8, <1>9, CalmSet

(* An entry more, with others locked: the table does not get too long.       *)
LEMMA InsertLen ==
  ASSUME NEW T \in Tables, Len(T) <= MaxBase, NEW D \in Disks, NEW q \in Path,
         NEW x \in Inodes
  PROVE  InsertGet(T, D, q, x).tab \in Tables /\ Len(InsertGet(T, D, q, x).tab) <= MaxBase
<1>1. PICK r, own : own = Of(T, x) /\ r = InsertGet(T, D, q, x)
  OBVIOUS
<1>2. r = InsertOn(T, D, q, x, own) /\ x # NoIno
  BY <1>1, NamesConstants DEF InsertGet, Inodes
<1>3. CASE own # {} /\ T[Min(own)].path = q
  <2>1. PICK i : i = Min(own)
    OBVIOUS
  <2>2. i \in DOMAIN T /\ T[i] \in Entries
    BY <1>1, <1>3, <2>1, OfIs
  <2>3. r = Touch(T, D, i)
    BY <1>2, <1>3, <2>1 DEF InsertOn
  <2> QED BY <1>1, <2>2, <2>3, TouchIs DEF Obtained
<1>4. CASE ~(own # {} /\ T[Min(own)].path = q)
  <2>1. PICK c : c = Entry(x, q)
    OBVIOUS
  <2>2. c \in Entries
    BY <2>1 DEF Entry, Entries
  <2>3. PICK U : U = IF own = {} THEN T ELSE FreeSlot(T, Min(own))
    OBVIOUS
  <2>4. r = Allocate(U, D, c)
    BY <1>2, <1>4, <2>1, <2>3 DEF InsertOn
  <2>5. U \in Tables /\ Len(U) <= MaxBase
    <3>1. CASE own = {}
      BY <2>3, <3>1
    <3>2. CASE own # {}
      <4>1. PICK i : i = Min(own)
        OBVIOUS
      <4>2. i \in DOMAIN T
        BY <1>1, <3>2, <4>1, OfIs
      <4>3. U = FreeSlot(T, i)
        BY <2>3, <3>2, <4>1
      <4>4. U \in Tables /\ Len(U) <= Len(T)
        BY <4>2, <4>3, FreeIs
      <4>5. Len(U) \in Nat /\ Len(T) \in Nat /\ MaxBase \in Nat
        BY <4>4, NamesConstants DEF Tables
      <4> QED BY <4>4, <4>5
    <3> QED BY <3>1, <3>2
  <2> QED BY <1>1, <2>2, <2>4, <2>5, AllocateIs DEF Obtained
<1> QED BY <1>3, <1>4

(* nw_delete_file_dir: the lock is given back.                               *)
LEMMA DeleteCalm ==
  ASSUME HandleInv, AllCalm, NEW p \in Proc, NEW h \in Inodes, NEW rest, Delete(p, h, rest)
  PROVE  AllCalm'
<1>1. PICK r \in {BuildBase(base[p], disk, h, Front(rest))} : r.slot # 0 /\
     \E path \in {Append(PathOf(r), Last(rest))} : path \in Path /\ CanRemove(path) /\
     \E s \in {InsertGet(LockedAt(r.tab, r.slot), r.disk, path, at[path])} :
       \E d : Set(p, [tab |-> WithoutEntry(AllUnlocked(s.tab), s.slot), disk |-> d])
  BY DEF Delete
<1>2. PICK path \in {Append(PathOf(r), Last(rest))} : path \in Path /\ CanRemove(path) /\
     \E s \in {InsertGet(LockedAt(r.tab, r.slot), r.disk, path, at[path])} :
       \E d : Set(p, [tab |-> WithoutEntry(AllUnlocked(s.tab), s.slot), disk |-> d])
  BY <1>1
<1>3. PICK i : i = at[path]
  OBVIOUS
<1>4. PICK s \in {InsertGet(LockedAt(r.tab, r.slot), r.disk, path, i)} :
       \E d : Set(p, [tab |-> WithoutEntry(AllUnlocked(s.tab), s.slot), disk |-> d])
  BY <1>2, <1>3
<1>5. TreeInv /\ UNCHANGED freed
  BY DEF Delete, HandleInv
<1>6. i \in Inodes
  BY <1>2, <1>3, <1>5 DEF CanRemove, TreeInv, Trees
<1>7. PICK T0, D0, front : T0 = base[p] /\ D0 = disk /\ front = Front(rest)
  OBVIOUS
<1>8. /\ T0 \in Tables /\ Within(T0, TablePairs(p)) /\ D0 \in Disks /\ Links(D0, LinkPairs)
      /\ r = BuildBase(T0, D0, h, front) /\ at \in Trees /\ Calm(T0)
  BY <1>1, <1>7, CalmStart DEF HandleInv, NamesTypes
<1>9. /\ r.tab \in Tables /\ Within(r.tab, TablePairs(p))
      /\ r.disk \in Disks /\ Links(r.disk, LinkPairs)
      /\ r.slot \in DOMAIN r.tab /\ r.tab[r.slot] \in Entries
  BY <1>1, <1>5, <1>8, BuildAgain
<1>10. Calm(r.tab)
  BY <1>8, CalmBuild
<1>11. PICK R, k, T, D : R = r.tab /\ k = r.slot /\ T = LockedAt(R, k) /\ D = r.disk
  OBVIOUS
<1>12. T \in Tables /\ Within(T, TablePairs(p)) /\ Len(T) <= MaxBase
  <2>1. PICK G : G = TablePairs(p)
    OBVIOUS
  <2>2. R \in Tables /\ Within(R, G) /\ k \in DOMAIN R /\ R[k] \in Entries
    BY <1>9, <1>11, <2>1
  <2>3. T \in Tables /\ Within(T, G)
    BY <1>11, <2>2, FlagsFit
  <2>4. Len(T) = Len(R)
    BY <1>11, <2>2 DEF LockedAt, Tables
  <2>5. Len(R) <= MaxBase
    BY <1>10, <1>11 DEF Calm
  <2> QED BY <2>1, <2>3, <2>4, <2>5
<1>13. D \in Disks /\ Links(D, LinkPairs) /\ path \in Path /\ s = InsertGet(T, D, path, i)
  BY <1>2, <1>4, <1>9, <1>11
<1>14. /\ Fits(s, TablePairs(p), LinkPairs) /\ s.slot # 0
  <2>1. LET w == InsertGet(T, D, path, i) IN
        /\ Fits(w, TablePairs(p), LinkPairs) /\ w.slot # 0
        /\ w.tab[w.slot].ino = i /\ w.tab[w.slot].path = path
    BY <1>3, <1>5, <1>6, <1>12, <1>13, InsertFits
  <2> QED BY <1>13, <2>1
<1>15. PICK S, m : S = s.tab /\ m = s.slot
  OBVIOUS
<1>16. S \in Tables /\ m \in DOMAIN S /\ S[m] # Hole /\ Len(S) <= MaxBase
  <2>1. S \in Tables /\ m \in DOMAIN S /\ S[m] \in Entries
    BY <1>14, <1>15 DEF Fits
  <2>2. Len(S) <= MaxBase
    BY <1>6, <1>12, <1>13, <1>15, InsertLen
  <2> QED BY <2>1, <2>2, HoleIs
<1>17. PICK U, V : U = AllUnlocked(S) /\ V = FreeSlot(U, m)
  OBVIOUS
<1>18. Calm(U) /\ m \in DOMAIN U
  <2>1. /\ U \in Tables /\ Len(U) <= Len(S)
        /\ \A n \in DOMAIN U : U[n] # Hole => ~U[n].locked
        /\ \A n \in DOMAIN S : S[n] # Hole => n \in DOMAIN U
    BY <1>16, <1>17, UnlockedIs
  <2>2. Len(U) \in Nat /\ Len(S) \in Nat /\ MaxBase \in Nat
    BY <1>16, <2>1, NamesConstants DEF Tables
  <2>3. Len(U) <= MaxBase
    BY <1>16, <2>1, <2>2
  <2> QED BY <1>16, <2>1, <2>3 DEF Calm
<1>19. Calm(V)
  BY <1>17, <1>18, CalmFree
<1>20. base' = [base EXCEPT ![p] = V]
  BY <1>4, <1>15, <1>17 DEF Set, WithoutEntry
<1> QED BY <1>5, <1>19, <1>20, CalmSet

(* nw_rename_file_dir: what the first look up found is among the first       *)
(* entries, so that the second one does not take its place.                  *)
LEMMA RenameCalm ==
  ASSUME HandleInv, AllCalm, NEW p \in Proc, NEW h \in Inodes, NEW src, NEW dst,
         Rename(p, h, src, Root, dst)
  PROVE  AllCalm'
<1>1. PICK r \in {BuildBase(base[p], disk, h, src)} : r.slot # 0 /\ PathOf(r) # << >> /\
        \E s \in {BuildBase(Marked(r.tab, r.slot), r.disk, Root, Front(dst))} : s.slot # 0 /\
        \E from \in {PathOf(r)}, to \in {Append(PathOf(s), Last(dst))} :
          /\ to \in Path
          /\ \/ /\ Set(p, InsertGet(FreeSlot(s.tab, Min(Kept(s.tab))), s.disk, to, at[from]))
                /\ UNCHANGED freed
             \/ Kept(s.tab) = {}
  BY DEF Rename
<1>2. PICK from : from = PathOf(r)
  OBVIOUS
<1>3. PICK s \in {BuildBase(Marked(r.tab, r.slot), r.disk, Root, Front(dst))} : s.slot # 0 /\
        \E to \in {Append(PathOf(s), Last(dst))} :
          /\ to \in Path
          /\ \/ /\ Set(p, InsertGet(FreeSlot(s.tab, Min(Kept(s.tab))), s.disk, to, at[from]))
                /\ UNCHANGED freed
             \/ Kept(s.tab) = {}
  BY <1>1, <1>2
<1>4. PICK to \in {Append(PathOf(s), Last(dst))} :
          /\ to \in Path
          /\ \/ /\ Set(p, InsertGet(FreeSlot(s.tab, Min(Kept(s.tab))), s.disk, to, at[from]))
                /\ UNCHANGED freed
             \/ Kept(s.tab) = {}
  BY <1>3
<1>5. TreeInv /\ at \in Trees /\ Root \in Inodes
  BY DEF HandleInv, TreeInv, Inodes
<1>6. PICK T0, D0 : T0 = base[p] /\ D0 = disk
  OBVIOUS
<1>7. /\ T0 \in Tables /\ Within(T0, TablePairs(p)) /\ D0 \in Disks /\ Links(D0, LinkPairs)
      /\ r = BuildBase(T0, D0, h, src) /\ Calm(T0)
  BY <1>1, <1>6, CalmStart DEF HandleInv, NamesTypes
<1>8. /\ from \in Path /\ at[from] # NoIno /\ at[from] \in Inodes
      /\ r.disk \in Disks /\ r.slot \in DOMAIN r.tab /\ r.tab[r.slot] \in Entries
      /\ r.tab[r.slot].ino = at[from] /\ r.tab[r.slot].path = from
  <2>1. r.slot # 0
    BY <1>1
  <2> QED BY <1>2, <1>5, <1>7, <2>1, BuildAgain
<1>9. Calm(r.tab) /\ r.slot \in 1..(TouchFrom + 1)
  BY <1>1, <1>5, <1>7, CalmBuild
<1>10. PICK R, k, D : R = r.tab /\ k = r.slot /\ D = r.disk
  OBVIOUS
<1>11. PICK e \in Entries : e = R[k]
  BY <1>8, <1>10
<1>12. PICK c : c = [e EXCEPT !.mark = TRUE]
  OBVIOUS
<1>13. R \in Tables /\ k \in DOMAIN R /\ Calm(R)
  BY <1>8, <1>9, <1>10 DEF Calm
<1>14. ~e.locked
  BY <1>11, <1>13, HoleIs DEF Calm
<1>15. /\ c \in Entries /\ c \in Slots /\ c # Hole /\ ~c.locked /\ c.mark
       /\ c.ino = at[from] /\ c.path = from
  <2>1. c \in Entries /\ ~c.locked /\ c.mark /\ c.ino = e.ino /\ c.path = e.path
    BY <1>12, <1>14 DEF Entries
  <2> QED BY <1>8, <1>10, <1>11, <2>1, HoleIs DEF Slots
<1>16. PICK T : T = [R EXCEPT ![k] = c]
  OBVIOUS
<1>17. Marked(r.tab, r.slot) = T
  BY <1>10, <1>11, <1>12, <1>16 DEF Marked
<1>18. Calm(T) /\ k \in DOMAIN T /\ T[k] = c
  <2>1. /\ T \in Tables /\ DOMAIN T = DOMAIN R /\ T[k] = c
        /\ \A n \in DOMAIN R : n # k => T[n] = R[n]
    BY <1>13, <1>15, <1>16, SlotSet
  <2>2. Len(T) = Len(R)
    BY <1>13, <2>1 DEF Tables
  <2>3. \A n \in DOMAIN T : T[n] # Hole => ~T[n].locked
    BY <1>13, <1>15, <2>1 DEF Calm
  <2>4. Len(T) <= MaxBase
    BY <1>13, <2>2 DEF Calm
  <2> QED BY <1>13, <2>1, <2>3, <2>4 DEF Calm
<1>19. PICK front : front = Front(dst)
  OBVIOUS
<1>20. s = BuildBase(T, D, Root, front) /\ D \in Disks /\ k \in 1..(TouchFrom + 1)
  BY <1>3, <1>8, <1>9, <1>10, <1>17, <1>19
<1>21. c.ino # Root
  BY <1>1, <1>2, <1>5, <1>8, <1>15, TreeIs, PathsAre
<1>22. \A q \in Path : at[q] = c.ino => c.path = q
  BY <1>5, <1>8, <1>15, TreeIs
<1>23. k \in Nat /\ k <= TouchFrom + 1
  BY <1>20, NamesConstants
<1>24. /\ Calm(s.tab) /\ s.disk \in Disks
       /\ \A j \in DOMAIN T :
            /\ T[j] # Hole /\ T[j].ino # Root /\ j <= TouchFrom + 1
            /\ \A q \in Path : at[q] = T[j].ino => T[j].path = q
            => \E n \in DOMAIN s.tab : s.tab[n] = T[j]
  <2>1. LET z == BuildBase(T, D, Root, front) IN
        /\ Calm(z.tab) /\ z.disk \in Disks
        /\ z.slot # 0 =>
             /\ z.slot \in 1..(TouchFrom + 1)
             /\ \A j \in DOMAIN T :
                  /\ T[j] # Hole /\ T[j].ino # Root /\ j <= TouchFrom + 1
                  /\ \A q \in Path : at[q] = T[j].ino => T[j].path = q
                  => \E n \in DOMAIN z.tab : z.tab[n] = T[j]
    BY <1>5, <1>18, <1>20, CalmBuild
  <2> QED BY <1>3, <1>20, <2>1
<1>25. PICK n \in DOMAIN s.tab : s.tab[n] = c
  BY <1>15, <1>18, <1>21, <1>22, <1>23, <1>24
<1>26. n \in Kept(s.tab)
  BY <1>15, <1>25 DEF Kept
<1>27. PICK S, m, E : S = s.tab /\ m = Min(Kept(S)) /\ E = s.disk
  OBVIOUS
<1>28. m \in DOMAIN S
  <2>1. Kept(S) # {} /\ Kept(S) \subseteq DOMAIN S
    BY <1>26, <1>27 DEF Kept
  <2>2. DOMAIN S \subseteq Nat
    <3>1. S \in Seq(Slots)
      BY <1>24, <1>27 DEF Calm, Tables
    <3> QED BY <3>1
  <2>3. Min(Kept(S)) \in Kept(S)
    BY <2>1, <2>2, MinIs
  <2> QED BY <1>27, <2>1, <2>3
<1>29. PICK x, F, w : x = at[from] /\ F = FreeSlot(S, m) /\ w = InsertGet(F, E, to, x)
  OBVIOUS
<1>30. base' = [base EXCEPT ![p] = w.tab] /\ UNCHANGED freed
  BY <1>4, <1>26, <1>27, <1>29 DEF Set
<1>31. Calm(w.tab)
  <2>1. Calm(F) /\ E \in Disks
    BY <1>24, <1>27, <1>28, <1>29, CalmFree
  <2> QED BY <1>4, <1>8, <1>29, <2>1, CalmInsert
<1> QED BY <1>30, <1>31, CalmSet

(* Every call of every process is quiet afterwards.                          *)
LEMMA CalmStep == HandleInv /\ AllCalm /\ [NamesNext]_nameVars => AllCalm'
<1> SUFFICES ASSUME HandleInv, AllCalm, [NamesNext]_nameVars PROVE AllCalm'
  OBVIOUS
<1>1. ASSUME NEW p \in Proc, BaseCall(p) PROVE AllCalm'
  <2>1. PICK h \in Ino \cup {Root}, rest \in Rest :
          \/ LookUp(p, h, rest)
          \/ \E i \in Ino : Create(p, h, rest, i)
          \/ Delete(p, h, rest)
          \/ \E dst \in Path : Rename(p, h, rest, Root, dst)
    BY <1>1 DEF BaseCall
  <2>2. h \in Inodes
    BY DEF Inodes
  <2>3. CASE LookUp(p, h, rest)
    BY <2>2, <2>3, LookUpCalm
  <2>4. ASSUME NEW i \in Ino, Create(p, h, rest, i) PROVE AllCalm'
    BY <2>2, <2>4, CreateCalm
  <2>5. CASE Delete(p, h, rest)
    BY <2>2, <2>5, DeleteCalm
  <2>6. ASSUME NEW dst \in Path, Rename(p, h, rest, Root, dst) PROVE AllCalm'
    BY <2>2, <2>6, RenameCalm
  <2> QED BY <2>1, <2>3, <2>4, <2>5, <2>6
<1>2. ASSUME UNCHANGED <<base, freed>> PROVE AllCalm'
  BY <1>2 DEF AllCalm, Calm
<1>3. ASSUME NEW p \in Proc, DirCall(p) PROVE AllCalm'
  <2>1. UNCHANGED <<base, freed>>
    BY <1>3 DEF DirCall, AllocDir, FreeDir, SetDir, EndOfTask
  <2> QED BY <1>2, <2>1
<1>4. ASSUME NEW p \in Proc, OldCall(p) PROVE AllCalm'
  <2>1. UNCHANGED <<base, freed>>
    BY <1>4 DEF OldCall, RmDir, MkDir, MvDir
  <2> QED BY <1>2, <2>1
<1>5. ASSUME NEW p \in Proc, ExitNames(p) PROVE AllCalm'
  <2>1. base' = [base EXCEPT ![p] = << >>] /\ UNCHANGED freed
    BY <1>5 DEF ExitNames
  <2>2. Calm(<< >>)
    BY NamesConstants DEF Calm, Tables
  <2> QED BY <2>1, <2>2, CalmSet
<1>6. CASE UNCHANGED nameVars
  BY <1>2, <1>6 DEF nameVars
<1> QED BY <1>1, <1>3, <1>4, <1>5, <1>6 DEF NamesNext

(* nw_rename_file_dir (namspace.c:2316) never uses an entry that was given   *)
(* up for another one: with tables of any size that has three entries more   *)
(* than those that stay in place, and as many files behind.                  *)
THEOREM NamesSourceAlive == NamesSpec => []SourceAlive
<1>1. NamesInit => AllCalm
  BY NamesConstants DEF NamesInit, AllCalm, Calm, Tables
<1>2. AllCalm => SourceAlive
  BY DEF AllCalm, SourceAlive
<1> QED BY <1>1, <1>2, NamesHandleInv, CalmStep, PTL DEF NamesSpec

=============================================================================
