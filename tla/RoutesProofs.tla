---------------------------- MODULE RoutesProofs ----------------------------
(***************************************************************************)
(* Proofs about Routes, for any number of routers and nets: what nwbind is *)
(* told agrees with the service table, a route goes over a device that is  *)
(* up or counts as far, and the routes to a net to which no router has     *)
(* lost its way never run in a circle.                                     *)
(***************************************************************************)
EXTENDS Routes, TLAPS, WellFoundedInduction

(* The ticks of the devices are small enough for a sum of 15 of them to    *)
(* fit the 16 bits insert_delete_net keeps.  nwroute.c takes the ticks of  *)
(* the configuration as they are; with larger ones the sum wraps and a far *)
(* route looks near.                                                       *)
TickLimit == 3800
SmallTicks == \A n \in Net : Ticks[n] <= TickLimit

Home(q, ups, d) == d = Internal[q] \/ d \in ups

-----------------------------------------------------------------------------
(* The service table.                                                      *)

ServerEntry == [addr : Address, net : Net, hops : 0 .. 15]
ServerTable(t) == \A s \in Router : t[s] # NoServer => t[s] \in ServerEntry

(* What nwbind may have of a server, and what it is told.                  *)
Known == Address \union {NoAddress}
Messages == [name : Router, addr : Known]

(* A packet is between two routers; a SAP entry names a server and has at  *)
(* least one hop.                                                          *)
PacketOk(p) ==
  /\ p.kind \in Kinds /\ p.from \in Router /\ p.to \in Router /\ p.net \in Net
  /\ p.kind = "sap" => /\ p.data.name \in Router /\ p.data.addr \in Address
                       /\ p.data.hops \in 1 .. 16

ServerTypes ==
  /\ up \in [Router -> SUBSET Net]
  /\ state \in [Router -> {"run", "down", "off"}]
  /\ server \in [Router -> [Router -> ServerEntry \union {NoServer}]]
  /\ self \in [Serves -> Node]
  /\ told \in [Router -> [Router -> Known]]
  /\ toBind \in [Router -> Seq(Messages)]

(* Nothing waits for the nwbind of a router that is off.                   *)
OffQuiet == \A r \in Router : state[r] = "off" => toBind[r] = << >>

ServersInv ==
  /\ ServerTypes /\ OffQuiet
  /\ \A p \in wire : PacketOk(p)
  /\ BindKnowsServers

-----------------------------------------------------------------------------
(* The routing tables.                                                     *)

RouteEntry == [hops : 1 .. 15, ticks : Nat, rnet : Net, rnode : Router]

Table == {t \in [Net -> RouteEntry \union {NoRoute}] :
            \A d \in Net : t[d] # NoRoute =>
              t[d].ticks <= (TickLimit + 1) * t[d].hops + TickLimit}

(* What holds of one router alone: nets at home have no route, and a route *)
(* goes over a device or counts as far.                                    *)
Sound(r, ups, rts) ==
  /\ ups \in SUBSET Net /\ rts \in Table
  /\ \A d \in Net : Home(r, ups, d) => rts[d] = NoRoute
  /\ \A d \in Net : rts[d] # NoRoute => rts[d].rnet \in ups \/ rts[d].ticks >= FarTicks

(* Every metric of a RIP packet grows with its hops.                       *)
RipOk(b) ==
  /\ DOMAIN b \subseteq Net
  /\ \A d \in DOMAIN b : /\ b[d].hops \in 1 .. 16 /\ b[d].ticks \in Nat
                         /\ b[d].ticks <= (TickLimit + 1) * b[d].hops

(* A router with devices ups and routes rts is nearer to d than t ticks.   *)
Near(q, ups, rts, d, t) ==
  Home(q, ups, d) \/ (rts[d] # NoRoute /\ rts[d].ticks < t)

RouteTypes ==
  /\ state \in [Router -> {"run", "down", "off"}]
  /\ up \in [Router -> SUBSET Net]
  /\ route \in [Router -> Table]
  /\ \A p \in wire : PacketOk(p) /\ (p.kind = "rip" => RipOk(p.data))

(* The next router of a route is nearer, unless a way to d has been lost.  *)
RoutesNearer ==
  \A d \in Net \ withdrawn : \A r \in Router :
    route[r][d] # NoRoute =>
      LET q == route[r][d].rnode IN Near(q, up[q], route[q], d, route[r][d].ticks)

(* So is the sender of a report that is still under way.                   *)
ReportsNearer ==
  \A p \in wire : p.kind = "rip" =>
    \A d \in DOMAIN p.data \ withdrawn :
      p.data[d].hops < Infinity =>
        Near(p.from, up[p.from], route[p.from], d, p.data[d].ticks)

OffEmpty ==
  \A r \in Router : state[r] = "off" =>
    up[r] = {} /\ route[r] = [d \in Net |-> NoRoute]

RoutesInv ==
  /\ RouteTypes
  /\ \A r \in Router : Sound(r, up[r], route[r])
  /\ OffEmpty
  /\ RoutesNearer
  /\ ReportsNearer

-----------------------------------------------------------------------------
(* What a router sees of its interfaces.                                   *)

IsView(v) == DOMAIN v = {"ups", "rts", "need", "lost"}

(* The fields of a view after a net has appeared (test_ins_device_net).    *)
LEMMA AppearedFields ==
  ASSUME NEW v, IsView(v), NEW new
  PROVE  LET w == Appeared(v, new)
         IN /\ IsView(w)
            /\ w.ups = v.ups \union new
            /\ w.rts = test_ins_device_net(v.rts, new)
            /\ w.lost = v.lost
  BY DEF IsView, Appeared

(* The nets that are gone, and the routes without those to new nets.       *)
Gone(r, v, now) == (v.ups \cap AutoNets[r]) \ now
Cleared(v, now) == test_ins_device_net(v.rts, now \ v.ups)

(* The fields of a view after look_for_interfaces.                         *)
LEMMA LookFields ==
  ASSUME NEW r \in Router, NEW v, IsView(v), NEW now
  PROVE  /\ IsView(look_for_interfaces(r, v, now))
         /\ look_for_interfaces(r, v, now).ups = (v.ups \union now) \ Gone(r, v, now)
         /\ look_for_interfaces(r, v, now).rts = RoutesWithout(Cleared(v, now), Gone(r, v, now))
         /\ look_for_interfaces(r, v, now).lost
              = Gone(r, v, now) \union
                {d \in Net : Cleared(v, now)[d]
                             # RoutesWithout(Cleared(v, now), Gone(r, v, now))[d]}
<1> DEFINE w == Appeared(v, now \ v.ups)
<1>1. /\ IsView(w)
      /\ w.ups = v.ups \union (now \ v.ups)
      /\ w.rts = test_ins_device_net(v.rts, now \ v.ups)
      /\ w.lost = v.lost
  BY AppearedFields
<1> HIDE DEF w
<1>2. look_for_interfaces(r, v, now) =
        LET gone == (v.ups \cap AutoNets[r]) \ now
            kept == RoutesWithout(w.rts, gone)
        IN [w EXCEPT !.ups = @ \ gone, !.rts = kept,
                     !.lost = gone \union {d \in Net : w.rts[d] # kept[d]}]
  BY DEF look_for_interfaces, w
<1> QED BY <1>1, <1>2 DEF IsView, Gone, Cleared

(* The view of a router to begin with, and of one that has received p.     *)
LEMMA ViewFields ==
  ASSUME NEW r
  PROVE  IsView(View(r)) /\ View(r).ups = up[r] /\ View(r).rts = route[r] /\ View(r).lost = {}
  BY DEF IsView, View

NewNets(p, detected) == IF detected THEN {p.net} ELSE {}

(* What a router knows after a packet came over a net new to it.           *)
LEMMA SeenFields ==
  ASSUME NEW p, NEW detected
  PROVE  /\ IsView(SeenFrom(p, detected))
         /\ SeenFrom(p, detected).ups = up[p.to] \union NewNets(p, detected)
         /\ SeenFrom(p, detected).rts = test_ins_device_net(route[p.to], NewNets(p, detected))
         /\ SeenFrom(p, detected).lost = {}
<1>1. SeenFrom(p, detected) = Appeared(View(p.to), NewNets(p, detected))
  BY DEF SeenFrom, NewNets
<1> QED BY <1>1, AppearedFields, ViewFields

-----------------------------------------------------------------------------
(* The packets a router sends.                                             *)

(* A packet to a neighbour on one of the own nets is well formed; its data *)
(* are looked at below.                                                    *)
LEMMA RipPackets ==
  ASSUME NEW r \in Router, NEW ups \in SUBSET Net, NEW rts, NEW need, NEW mode,
         NEW p \in send_rip_broadcast(r, ups, rts, need, mode)
  PROVE  /\ PacketOk(p) /\ p.kind = "rip" /\ p.from = r
         /\ p.data = build_rip_buff(r, ups, rts, p.net, IF mode = 2 THEN 1 ELSE 0)
<1>1. PICK n \in ups : p \in RipTo(r, ups, rts, n, IF mode = 2 THEN 1 ELSE 0)
  BY DEF send_rip_broadcast, Chosen
<1>2. PICK q \in Neighbours(r, n) :
        p = Packet("rip", r, q, n, build_rip_buff(r, ups, rts, n, IF mode = 2 THEN 1 ELSE 0))
  BY <1>1, Zenon DEF RipTo
<1> QED BY <1>2 DEF Packet, PacketOk, Neighbours, Kinds

(* The packets of a SAP broadcast.                                         *)
LEMMA SapPackets ==
  ASSUME NEW r \in Router, NEW ups \in SUBSET Net, NEW need, NEW mode,
         NEW srv, ServerTable(srv), NEW p \in send_sap_broadcast(r, ups, srv, need, mode)
  PROVE  PacketOk(p) /\ p.kind = "sap"
<1>1. PICK n \in ups : p \in send_sip_to_net(r, srv, n, mode)
  BY DEF send_sap_broadcast, Chosen
<1>2. PICK q \in Neighbours(r, n), s \in SipEntries(srv, n, mode) :
        p = Packet("sap", r, q, n,
                   [name |-> s, addr |-> srv[s].addr,
                    hops |-> IF mode = 2 THEN Infinity ELSE (srv[s].hops + 1) % 65536])
  BY <1>1 DEF send_sip_to_net
<1>3. s \in Router /\ srv[s] \in ServerEntry
  BY DEF SipEntries, ServerTable
<1>4. (srv[s].hops + 1) % 65536 \in 1 .. 16
  BY <1>3 DEF ServerEntry
<1>5. srv[s].addr \in Address
  BY <1>3 DEF ServerEntry
<1> QED BY <1>2, <1>3, <1>4, <1>5 DEF Packet, PacketOk, Neighbours, Infinity, Kinds

(* The packets with which a router asks on nets that are new to it.        *)
LEMMA RequestPackets ==
  ASSUME NEW r \in Router, NEW ups \in SUBSET Net, NEW need,
         NEW p \in rip_for_net(r, ups, need) \union get_servers(r, ups, need)
  PROVE  PacketOk(p) /\ p.kind \in {"riprequest", "sapquery"}
<1>1. PICK n \in ups : \E q \in Neighbours(r, n) :
        \/ p = Packet("riprequest", r, q, n, "all")
        \/ p = Packet("sapquery", r, q, n, "nearest")
  BY DEF rip_for_net, get_servers, Chosen
<1> QED BY <1>1 DEF Packet, PacketOk, Neighbours, Kinds

-----------------------------------------------------------------------------
(* The service table and nwbind.                                           *)

(* The constants' types, for the provers.                                  *)
LEMMA NetTypes ==
  ASSUME NEW r \in Router
  PROVE  /\ Internal[r] \in Net /\ Configured[r] \in SUBSET Net /\ AutoNets[r] \in SUBSET Net
         /\ Internal[r] \notin Configured[r] /\ Internal[r] \notin AutoNets[r]
  BY RouteConstants DEF Attached

(* look_for_interfaces keeps a set of nets.                                *)
LEMMA LookUps ==
  ASSUME NEW r \in Router, NEW v, IsView(v), v.ups \in SUBSET Net, NEW now \in SUBSET AutoNets[r]
  PROVE  look_for_interfaces(r, v, now).ups \in SUBSET Net
<1>1. look_for_interfaces(r, v, now).ups
        = (v.ups \union now) \ Gone(r, v, now)
  BY LookFields
<1>2. now \subseteq Net
  BY NetTypes
<1> QED BY <1>1, <1>2

(* The entries of a table of the right type.                               *)
LEMMA TableOk ==
  ASSUME ServersInv, NEW r \in Router
  PROVE  ServerTable(server[r])
  BY DEF ServersInv, ServerTypes, ServerTable

(* An entry after insert_delete_server.  The own one is kept unless it is  *)
(* heard of under another address.                                         *)
LEMMA ServerEntryKept ==
  ASSUME NEW r \in Router, NEW ups, NEW net \in Net, NEW hops \in 1 .. 16,
         NEW addr \in Address, NEW old,
         old # NoServer => old \in ServerEntry
  PROVE  /\ insert_delete_server(r, ups, old, addr, net, hops) \in ServerEntry \union {NoServer}
         /\ r \in Serves /\ old = OwnServer(r, self) /\ (hops = Infinity \/ addr = <<r, self[r]>>)
              => insert_delete_server(r, ups, old, addr, net, hops) = old
<1> DEFINE new == insert_delete_server(r, ups, old, addr, net, hops)
           entry == [addr |-> addr, net |-> net, hops |-> hops]
<1>1. hops # Infinity => entry \in ServerEntry
  BY DEF ServerEntry, Infinity
<1>2. CASE old = NoServer
  <2>1. hops = Infinity => new = NoServer
    BY <1>2 DEF insert_delete_server
  <2>2. hops # Infinity => new = entry
    <3> DEFINE cur == [addr |-> addr, net |-> NoNet, hops |-> NewHops]
    <3>1. ~KeepsNet(ups, cur, net) /\ ~(hops > cur.hops)
      BY DEF KeepsNet, NewHops
    <3> QED BY <1>2, <3>1 DEF insert_delete_server
  <2>3. old # OwnServer(r, self)
    BY <1>2 DEF NoServer, OwnServer
  <2> HIDE DEF entry, new
  <2> QED BY <1>1, <2>1, <2>2, <2>3 DEF new
<1>3. CASE old # NoServer
  <2> DEFINE cur == [old EXCEPT !.addr = addr]
  <2>1. old \in ServerEntry /\ cur \in ServerEntry /\ old.hops \in 0 .. 15 /\ cur.hops = old.hops
    BY <1>3 DEF ServerEntry
  <2>3. \/ hops = Infinity /\ new \in {old, NoServer}
        \/ hops # Infinity /\ new \in {cur, entry}
    BY <1>3 DEF insert_delete_server
  <2>4. ASSUME r \in Serves, old = OwnServer(r, self), hops = Infinity \/ addr = <<r, self[r]>>
        PROVE  new = old
    <3>1. old.addr = <<r, self[r]>> /\ old.hops = 0
      BY <2>4 DEF OwnServer
    <3>2. CASE hops = Infinity
      BY <1>3, <2>4, <3>1, <3>2 DEF insert_delete_server
    <3>3. CASE hops # Infinity
      <4>1. addr = <<r, self[r]>>
        BY <2>4, <3>3
      <4>2. cur = old
        BY <2>4, <4>1 DEF OwnServer
      <4>3. new = cur
        BY <1>3, <2>1, <3>1, <3>3 DEF insert_delete_server
      <4> QED BY <4>2, <4>3
    <3> QED BY <3>2, <3>3
  <2> HIDE DEF entry, cur, new
  <2> QED BY <1>1, <1>3, <2>1, <2>3, <2>4 DEF new
<1> QED BY <1>2, <1>3

-----------------------------------------------------------------------------
(* The messages that wait for nwbind.                                      *)

(* The queue after no copy of a message.                                   *)
LEMMA NoCopies ==
  ASSUME NEW queue \in Seq(Messages), NEW t, NEW b
  PROVE  queue \o Copies(0, t, b) = queue
<1>1. Copies(0, t, b) = << >>
  BY DEF Copies
<1> QED BY <1>1

(* The queue after k copies of a message about t.                          *)
LEMMA QueueAfter ==
  ASSUME NEW queue \in Seq(Messages), NEW k \in Nat, NEW t, NEW b
  PROVE  /\ Len(queue) \in Nat /\ DOMAIN queue = 1 .. Len(queue)
         /\ DOMAIN (queue \o Copies(k, t, b)) = 1 .. Len(queue) + k
         /\ \A i \in 1 .. Len(queue) : (queue \o Copies(k, t, b))[i] = queue[i]
         /\ \A i \in Len(queue) + 1 .. Len(queue) + k :
              /\ (queue \o Copies(k, t, b))[i].name = t
              /\ (queue \o Copies(k, t, b))[i].addr = b
<1> DEFINE m == Message(t, b)
           copies == [i \in 1 .. k |-> m]
<1>1. m.name = t /\ m.addr = b
  BY DEF Message
<1>2. Copies(k, t, b) = copies
  BY DEF Copies
<1> HIDE DEF m
<1>3. copies \in Seq({m}) /\ Len(copies) = k
  OBVIOUS
<1>4. /\ DOMAIN (queue \o copies) = 1 .. Len(queue) + k
      /\ \A i \in 1 .. Len(queue) + k :
           (queue \o copies)[i] = IF i <= Len(queue) THEN queue[i] ELSE copies[i - Len(queue)]
  BY <1>3
<1> QED BY <1>1, <1>2, <1>4

(* What nwbind will have of the server a message is about.                 *)
LEMMA WillHaveNew ==
  ASSUME NEW queue \in Seq(Messages), NEW k \in Nat, NEW t, NEW b, NEW bound, k > 0
  PROVE  WillHave(bound, queue \o Copies(k, t, b), t, b)
<1> DEFINE n == Len(queue)
           more == queue \o Copies(k, t, b)
<1>1. /\ n \in Nat /\ DOMAIN more = 1 .. n + k
      /\ \A i \in n + 1 .. n + k : more[i].name = t /\ more[i].addr = b
  BY QueueAfter
<1> HIDE DEF n, more
<1>2. n + k \in DOMAIN more /\ more[n + k].name = t /\ more[n + k].addr = b
  BY <1>1
<1>3. \A j \in DOMAIN more : j <= n + k
  BY <1>1
<1> QED BY <1>2, <1>3 DEF WillHave, more

(* What it will have of another one.                                       *)
LEMMA WillHaveOther ==
  ASSUME NEW queue \in Seq(Messages), NEW k \in Nat, NEW t, NEW b, NEW s, NEW bound, NEW a,
         s # t, WillHave(bound, queue, s, a)
  PROVE  WillHave(bound, queue \o Copies(k, t, b), s, a)
<1> DEFINE n == Len(queue)
           more == queue \o Copies(k, t, b)
<1>1. /\ n \in Nat /\ DOMAIN queue = 1 .. n /\ DOMAIN more = 1 .. n + k
      /\ \A i \in 1 .. n : more[i] = queue[i]
      /\ \A i \in n + 1 .. n + k : more[i].name = t
  BY QueueAfter
<1> HIDE DEF n, more
<1>2. {i \in DOMAIN more : more[i].name = s} = {i \in DOMAIN queue : queue[i].name = s}
  BY <1>1
<1>3. \A i \in DOMAIN queue : more[i].addr = queue[i].addr
  BY <1>1
<1> QED BY <1>2, <1>3 DEF WillHave, more

(* When nwbind handles the first message, it will have the same.           *)
LEMMA WillHaveHandled ==
  ASSUME NEW queue \in Seq(Messages), queue # << >>, NEW s, NEW bound, NEW a,
         WillHave(bound, queue, s, a)
  PROVE  WillHave(IF Head(queue).name = s THEN Head(queue).addr ELSE bound, Tail(queue), s, a)
<1> DEFINE rest == Tail(queue)
           had == IF Head(queue).name = s THEN Head(queue).addr ELSE bound
           n == Len(queue)
<1>1. /\ n \in Nat /\ n > 0 /\ DOMAIN queue = 1 .. n /\ Head(queue) = queue[1]
      /\ DOMAIN rest = 1 .. n - 1 /\ \A i \in 1 .. n - 1 : rest[i] = queue[i + 1]
  OBVIOUS
<1> HIDE DEF rest, n
<1>2. CASE {i \in DOMAIN queue : queue[i].name = s} = {}
  <2>1. bound = a
    BY <1>2 DEF WillHave
  <2>2. Head(queue).name # s
    BY <1>1, <1>2
  <2>3. {i \in DOMAIN rest : rest[i].name = s} = {}
    BY <1>1, <1>2
  <2> QED BY <2>1, <2>2, <2>3 DEF WillHave, rest
<1>3. CASE {i \in DOMAIN queue : queue[i].name = s} # {}
  <2>1. PICK i \in 1 .. n : /\ queue[i].name = s /\ queue[i].addr = a
                            /\ \A j \in 1 .. n : queue[j].name = s => j <= i
    BY <1>1, <1>3 DEF WillHave
  <2>2. CASE i = 1
    <3>1. had = a
      BY <1>1, <2>1, <2>2
    <3>2. {j \in DOMAIN rest : rest[j].name = s} = {}
      BY <1>1, <2>1, <2>2
    <3> QED BY <3>1, <3>2 DEF WillHave, rest
  <2>3. CASE i > 1
    <3>1. i - 1 \in DOMAIN rest /\ rest[i - 1].name = s /\ rest[i - 1].addr = a
      BY <1>1, <2>1, <2>3
    <3>2. \A j \in DOMAIN rest : rest[j].name = s => j <= i - 1
      BY <1>1, <2>1, <2>3
    <3> QED BY <3>1, <3>2 DEF WillHave, rest
  <2> QED BY <2>1, <2>2, <2>3
<1> QED BY <1>2, <1>3

(* With nothing under way nwbind has what it has.                          *)
LEMMA WillHaveNothing ==
  ASSUME NEW s, NEW a
  PROVE  WillHave(a, << >>, s, a)
  BY DEF WillHave

(* A message as it is queued.                                              *)
LEMMA QueuedTypes ==
  ASSUME toBind \in [Router -> Seq(Messages)], NEW r \in Router, NEW s \in Router,
         NEW a \in Known, NEW k \in Nat, Queued(r, s, a, k)
  PROVE  /\ toBind' \in [Router -> Seq(Messages)]
         /\ toBind'[r] = toBind[r] \o Copies(k, s, a)
         /\ \A q \in Router : q # r => toBind'[q] = toBind[q]
<1> DEFINE copies == Copies(k, s, a)
<1>1. copies \in Seq(Messages)
  BY DEF Copies, Message, Messages
<1>2. toBind' = [toBind EXCEPT ![r] = toBind[r] \o copies]
  BY DEF Queued
<1> HIDE DEF copies
<1>3. toBind[r] \o copies \in Seq(Messages)
  BY <1>1
<1> QED BY <1>2, <1>3 DEF copies

-----------------------------------------------------------------------------
(* The steps.                                                              *)

(* The types and the agreement hold to begin with.                         *)
LEMMA FreshOk ==
  ASSUME NEW r \in Router, NEW nodes \in [Serves -> Node]
  PROVE  /\ FreshServers(r, nodes) \in [Router -> ServerEntry \union {NoServer}]
         /\ FreshTold(r, nodes) \in [Router -> Known]
         /\ \A s \in Router : FreshTold(r, nodes)[s] = AddressOf(FreshServers(r, nodes)[s])
         /\ r \in Serves => FreshServers(r, nodes)[r] = OwnServer(r, nodes)
<1>1. r \in Serves => nodes[r] \in Node
  OBVIOUS
<1>2. r \in Serves => /\ OwnServer(r, nodes) \in ServerEntry
                      /\ OwnServer(r, nodes) # NoServer
                      /\ OwnServer(r, nodes).addr = <<r, nodes[r]>>
                      /\ <<r, nodes[r]>> \in Address
  BY <1>1, NetTypes DEF OwnServer, ServerEntry, NoServer, Address
<1> QED BY <1>2 DEF FreshServers, FreshTold, AddressOf, Known

(* At first every router that runs knows only itself.                      *)
LEMMA ServersInit == Init => ServersInv
<1> SUFFICES ASSUME Init PROVE ServersInv
  OBVIOUS
<1>1. self \in [Serves -> Node] /\ Serves \subseteq Router
  BY RouteConstants DEF Init
<1>2. /\ server = [r \in Router |-> FreshServers(r, self)]
      /\ told = [r \in Router |-> FreshTold(r, self)]
      /\ toBind = [r \in Router |-> << >>]
  BY DEF Init
<1>3. ServerTypes
  <2>1. up \in [Router -> SUBSET Net] /\ state \in [Router -> {"run", "down", "off"}]
    BY RouteConstants DEF Init
  <2>2. toBind \in [Router -> Seq(Messages)]
    BY <1>2
  <2> QED BY <1>1, <1>2, <2>1, <2>2, FreshOk DEF ServerTypes
<1>4. BindKnowsServers
  <2> SUFFICES ASSUME NEW r \in Serves
               PROVE  /\ \A s \in Router : WillHave(told[r][s], toBind[r], s, AddressOf(server[r][s]))
                      /\ server[r][r] = OwnServer(r, self)
    BY DEF BindKnowsServers
  <2>1. \A s \in Router : told[r][s] = AddressOf(server[r][s])
    BY <1>1, <1>2, FreshOk
  <2>2. toBind[r] = << >> /\ server[r][r] = OwnServer(r, self)
    BY <1>1, <1>2, FreshOk
  <2> QED BY <2>1, <2>2, WillHaveNothing
<1>5. wire = {} /\ OffQuiet
  BY DEF Init, OffQuiet
<1> QED BY <1>3, <1>4, <1>5 DEF ServersInv

(* A step that changes no server.                                          *)
LEMMA ServersSame ==
  ASSUME ServersInv, UNCHANGED <<server, self, bindVars, echoed>>,
         NEW r \in Router, NEW ups \in SUBSET Net, up' = [up EXCEPT ![r] = ups],
         NEW st \in {"run", "down"}, state[r] # "off", state' = [state EXCEPT ![r] = st],
         \A p \in wire' : p \notin wire => PacketOk(p)
  PROVE  ServersInv'
<1>0. Serves \subseteq Router
  BY RouteConstants
<1>1. ServerTypes'
  BY DEF ServersInv, ServerTypes, bindVars
<1>2. \A q \in Router : state'[q] # "off" <=> state[q] # "off"
  BY DEF ServersInv, ServerTypes
<1>3. OwnServer(r, self)' = OwnServer(r, self)
  BY DEF OwnServer
<1>4. BindKnowsServers'
  <2>1. /\ server' = server /\ self' = self /\ told' = told /\ toBind' = toBind
        /\ missed' = missed /\ echoed' = echoed
    BY DEF bindVars
  <2> QED BY <1>0, <1>2, <2>1 DEF ServersInv, BindKnowsServers, WillHave, AddressOf, OwnServer
<1>5. OffQuiet'
  BY <1>2 DEF ServersInv, OffQuiet, bindVars
<1> QED BY <1>1, <1>4, <1>5 DEF ServersInv

(* A packet that is received leaves the servers alone, when it is none of  *)
(* a server.                                                               *)
LEMMA SeenUps ==
  ASSUME ServersInv, NEW p \in wire, NEW detected \in BOOLEAN
  PROVE  SeenFrom(p, detected).ups \in SUBSET Net
<1>1. p.to \in Router /\ p.net \in Net
  BY DEF ServersInv, PacketOk
<1>2. up[p.to] \in SUBSET Net
  BY <1>1 DEF ServersInv, ServerTypes
<1> QED BY <1>1, <1>2, SeenFields, ZenonT(30) DEF NewNets

(* The interfaces that are there are nets.                                 *)
LEMMA ViewUps ==
  ASSUME ServersInv, NEW r \in Router, NEW now \in SUBSET AutoNets[r]
  PROVE  look_for_interfaces(r, View(r), now).ups \in SUBSET Net
<1>1. up[r] \in SUBSET Net
  BY DEF ServersInv, ServerTypes
<1> QED BY <1>1, ViewFields, LookUps

(* The timer of the broadcasts changes no table of servers.                *)
LEMMA ServersBroadcast ==
  ASSUME ServersInv, NEW r \in Router, NEW now \in SUBSET AutoNets[r], NEW mode \in {0, 1},
         Broadcast(r, mode, now)
  PROVE  ServersInv'
<1> DEFINE seen == look_for_interfaces(r, View(r), now)
<1>1. seen.ups \in SUBSET Net
  BY ViewUps
<1> HIDE DEF seen
<1>2. /\ state[r] = "run" /\ UNCHANGED <<state, server, self, bindVars, echoed>>
      /\ up' = [up EXCEPT ![r] = seen.ups]
  BY DEF Broadcast, Install, seen
<1>3. \A p \in wire' : p \notin wire =>
        \/ p \in send_rip_broadcast(r, seen.ups, seen.rts, seen.need, mode)
        \/ p \in send_sap_broadcast(r, seen.ups, server[r], seen.need, mode)
        \/ p \in rip_for_net(r, seen.ups, seen.need) \union get_servers(r, seen.ups, seen.need)
  BY DEF Broadcast, Transmit, seen
<1>4. ServerTable(server[r])
  BY TableOk
<1>5. \A p \in wire' : p \notin wire => PacketOk(p)
  BY <1>1, <1>3, <1>4, RipPackets, SapPackets, RequestPackets
<1>6. state' = [state EXCEPT ![r] = "run"]
  BY <1>2 DEF ServersInv, ServerTypes
<1> QED BY <1>1, <1>2, <1>5, <1>6, ServersSame

(* A server that goes down says so and changes no table.                   *)
LEMMA ServersDown ==
  ASSUME ServersInv, NEW r \in Router, NEW now \in SUBSET AutoNets[r], DownServer(r, now)
  PROVE  ServersInv'
<1> DEFINE seen == look_for_interfaces(r, View(r), now)
<1>1. seen.ups \in SUBSET Net
  BY ViewUps
<1> HIDE DEF seen
<1>2. /\ state[r] = "run" /\ UNCHANGED <<server, self, bindVars, echoed>>
      /\ up' = [up EXCEPT ![r] = seen.ups] /\ state' = [state EXCEPT ![r] = "down"]
  BY DEF DownServer, Install, seen
<1>3. \A p \in wire' : p \notin wire =>
        p \in send_sap_broadcast(r, seen.ups, server[r], seen.need, 2)
  BY DEF DownServer, Transmit, seen
<1>4. ServerTable(server[r])
  BY TableOk
<1>5. \A p \in wire' : p \notin wire => PacketOk(p)
  BY <1>1, <1>3, <1>4, SapPackets
<1> QED BY <1>1, <1>2, <1>5, ServersSame

(* An orderly end takes the router's servers out of nwbind.                *)
LEMMA ServersClose ==
  ASSUME ServersInv, NEW r \in Router, NEW now \in SUBSET AutoNets[r], NEW inuse \in BOOLEAN,
         CloseAll(r, now, inuse)
  PROVE  ServersInv'
<1> DEFINE seen == look_for_interfaces(r, View(r), now)
<1>1. seen.ups \in SUBSET Net
  BY ViewUps
<1> HIDE DEF seen
<1>2. /\ state' = [state EXCEPT ![r] = "off"]
      /\ up' = [up EXCEPT ![r] = {}]
      /\ server' = [server EXCEPT ![r] = [s \in Router |-> NoServer]]
      /\ told' = [told EXCEPT ![r] = [s \in Router |-> NoAddress]]
      /\ toBind' = [toBind EXCEPT ![r] = << >>]
      /\ \A q, s \in Router : q # r /\ <<q, s>> \in missed => <<q, s>> \in missed'
      /\ echoed' = echoed \ {r} /\ self' = self
  BY DEF CloseAll
<1>3. \A p \in wire' : p \notin wire =>
        \/ p \in send_rip_broadcast(r, seen.ups, seen.rts, seen.need, 2)
        \/ p \in send_sap_broadcast(r, seen.ups, server[r], seen.need, 2)
  BY DEF CloseAll, Transmit, seen
<1>4. ServerTable(server[r])
  BY TableOk
<1>5. \A p \in wire' : p \notin wire => PacketOk(p)
  BY <1>1, <1>3, <1>4, RipPackets, SapPackets
<1>6. ServerTypes'
  <2>1. toBind' \in [Router -> Seq(Messages)]
    BY <1>2 DEF ServersInv, ServerTypes
  <2> QED BY <1>2, <2>1 DEF ServersInv, ServerTypes, Known
<1>7. BindKnowsServers'
  <2> SUFFICES ASSUME NEW q \in Serves
               PROVE  /\ \A s \in Router : <<q, s>> \notin missed' =>
                           WillHave(told'[q][s], toBind'[q], s, AddressOf(server'[q][s]))
                      /\ state'[q] # "off" /\ q \notin echoed' =>
                           server'[q][q] = OwnServer(q, self')
    BY DEF BindKnowsServers, WillHave, AddressOf, OwnServer
  <2>1. q \in Router
    BY RouteConstants
  <2>2. CASE q = r
    <3>1. toBind'[r] = << >> /\ state'[r] = "off"
      BY <1>2 DEF ServersInv, ServerTypes
    <3>2. \A s \in Router : told'[r][s] = NoAddress /\ AddressOf(server'[r][s]) = NoAddress
      BY <1>2 DEF ServersInv, ServerTypes, AddressOf
    <3> QED BY <2>2, <3>1, <3>2, WillHaveNothing
  <2>3. CASE q # r
    <3>1. /\ toBind'[q] = toBind[q] /\ state'[q] = state[q] /\ told'[q] = told[q]
          /\ server'[q] = server[q]
      BY <1>2, <2>1, <2>3 DEF ServersInv, ServerTypes
    <3> QED BY <1>2, <2>1, <2>3, <3>1 DEF ServersInv, BindKnowsServers
  <2> QED BY <2>2, <2>3
<1>8. OffQuiet'
  BY <1>2 DEF ServersInv, ServerTypes, OffQuiet
<1> QED BY <1>5, <1>6, <1>7, <1>8 DEF ServersInv

(* A router starts with its own entry in both tables.                      *)
LEMMA ServersStart ==
  ASSUME ServersInv, NEW r \in Router, NEW node \in Node, Start(r, node)
  PROVE  ServersInv'
<1> DEFINE nodes == [q \in Serves |-> IF q = r THEN node ELSE self[q]]
<1>1. /\ state' = [state EXCEPT ![r] = "run"]
      /\ up' = [up EXCEPT ![r] = Configured[r]]
      /\ self' = nodes
      /\ server' = [server EXCEPT ![r] = FreshServers(r, nodes)]
      /\ told' = [told EXCEPT ![r] = FreshTold(r, nodes)]
      /\ UNCHANGED <<wire, missed, echoed>>
  BY DEF Start
<1>2. PICK k \in Nat : (r \notin Serves => k = 0) /\ Queued(r, r, <<r, node>>, k)
  BY RouteConstants DEF Start
<1>3. nodes \in [Serves -> Node] /\ (r \in Serves => nodes[r] = node)
  BY DEF ServersInv, ServerTypes
<1>4. \A q \in Serves : q # r => nodes[q] = self[q]
  OBVIOUS
<1> HIDE DEF nodes
<1>5. <<r, node>> \in Known
  BY DEF Known, Address
<1>6. /\ toBind' \in [Router -> Seq(Messages)]
      /\ toBind'[r] = toBind[r] \o Copies(k, r, <<r, node>>)
      /\ \A q \in Router : q # r => toBind'[q] = toBind[q]
  BY <1>2, <1>5, QueuedTypes DEF ServersInv, ServerTypes
<1>7. ServerTypes'
  BY <1>1, <1>3, <1>6, FreshOk, NetTypes DEF ServersInv, ServerTypes
<1>8. BindKnowsServers'
  <2> SUFFICES ASSUME NEW q \in Serves
               PROVE  /\ \A s \in Router : <<q, s>> \notin missed' =>
                           WillHave(told'[q][s], toBind'[q], s, AddressOf(server'[q][s]))
                      /\ state'[q] # "off" /\ q \notin echoed' =>
                           server'[q][q] = OwnServer(q, self')
    BY DEF BindKnowsServers, WillHave, AddressOf, OwnServer
  <2>1. q \in Router
    BY RouteConstants
  <2>2. CASE q = r
    <3>1. toBind[r] \in Seq(Messages) /\ toBind[r] = << >>
      BY DEF Start, ServersInv, ServerTypes, OffQuiet
    <3>2. \A s \in Router : told'[r][s] = AddressOf(server'[r][s])
      BY <1>1, <1>3, FreshOk DEF ServersInv, ServerTypes, AddressOf
    <3>3. told'[r][r] = <<r, node>>
      BY <1>1, <1>3, <2>2 DEF ServersInv, ServerTypes, FreshTold
    <3>4. \A s \in Router : WillHave(told'[r][s], toBind'[r], s, told'[r][s])
      <4>1. \A s \in Router : WillHave(told'[r][s], toBind[r], s, told'[r][s])
        BY <3>1, WillHaveNothing
      <4>2. CASE k = 0
        <5>1. toBind'[r] = toBind[r]
          BY <1>6, <3>1, <4>2, NoCopies
        <5> QED BY <4>1, <5>1
      <4>3. CASE k > 0
        <5>1. WillHave(told'[r][r], toBind'[r], r, <<r, node>>)
          BY <1>6, <3>1, <4>3, WillHaveNew
        <5>2. ASSUME NEW s \in Router, s # r
              PROVE  WillHave(told'[r][s], toBind'[r], s, told'[r][s])
          <6>1. WillHave(told'[r][s], toBind[r], s, told'[r][s])
            BY <4>1
          <6> QED BY <1>6, <3>1, <5>2, <6>1, WillHaveOther
        <5> QED BY <3>3, <5>1, <5>2
      <4> QED BY <4>2, <4>3
    <3>5. server'[r][r] = OwnServer(r, self')
      BY <1>1, <1>3, <2>2, FreshOk DEF ServersInv, ServerTypes
    <3> QED BY <2>2, <3>2, <3>4, <3>5
  <2>3. CASE q # r
    <3>1. /\ toBind'[q] = toBind[q] /\ state'[q] = state[q] /\ told'[q] = told[q]
          /\ server'[q] = server[q]
      BY <1>1, <1>6, <2>1, <2>3 DEF ServersInv, ServerTypes
    <3>2. OwnServer(q, self') = OwnServer(q, self)
      BY <1>1, <1>4, <2>3 DEF OwnServer
    <3> QED BY <1>1, <3>1, <3>2 DEF ServersInv, BindKnowsServers
  <2> QED BY <2>2, <2>3
<1>9. OffQuiet'
  BY <1>1, <1>6 DEF ServersInv, ServerTypes, OffQuiet
<1> QED BY <1>1, <1>7, <1>8, <1>9 DEF ServersInv

(* A SAP response: the one action that changes one entry.                  *)
LEMMA ServersSap ==
  ASSUME ServersInv, NEW p \in wire, NEW detected \in BOOLEAN, NEW wake \in BOOLEAN,
         NEW now \in SUBSET AutoNets[p.to], HandleSap(p, detected, wake, now)
  PROVE  ServersInv'
<1> DEFINE r == p.to
           s == p.data.name
           heard == SeenFrom(p, detected)
           old == server[r][s]
           new == insert_delete_server(r, heard.ups, old, p.data.addr, p.net, p.data.hops)
           srv == [server[r] EXCEPT ![s] = new]
           woken == [heard EXCEPT !.need = @ \union ({p.net} \X Kinds)]
           seen == IF wake THEN look_for_interfaces(r, woken, now) ELSE heard
           echo == s = r /\ r \in Serves /\ p.data.hops # Infinity /\ p.data.addr # <<r, self[r]>>
<1>1. /\ r \in Router /\ s \in Router /\ p.net \in Net /\ p.data.hops \in 1 .. 16
      /\ p.data.addr \in Address /\ state[r] = "run" /\ Serves \subseteq Router
  BY RouteConstants DEF HandleSap, ServersInv, PacketOk
<1>2. seen.ups \in SUBSET Net
  <2>1. heard.ups \in SUBSET Net /\ IsView(heard)
    BY SeenUps, SeenFields
  <2>2. woken.ups = heard.ups /\ IsView(woken)
    BY <2>1 DEF IsView
  <2> HIDE DEF heard, woken
  <2> QED BY <1>1, <2>1, <2>2, LookUps
<1>3. /\ server' = [server EXCEPT ![r] = srv]
      /\ up' = [up EXCEPT ![r] = seen.ups]
      /\ UNCHANGED <<state, self, told>>
      /\ echoed' = IF echo THEN echoed \union {r} ELSE echoed
  BY DEF HandleSap, Install
<1>4. \/ \E a \in Notice(r, old, new) : ins_del_bind_net_addr(r, s, a)
      \/ Notice(r, old, new) = {} /\ UNCHANGED <<toBind, missed>>
  BY DEF HandleSap
<1>5. \A k \in wire' : k \notin wire =>
        \/ k \in send_rip_broadcast(r, seen.ups, seen.rts, seen.need, 4)
        \/ k \in send_sap_broadcast(r, seen.ups, srv, seen.need, 4)
  BY DEF HandleSap, Transmit
<1>6. /\ old # NoServer => old \in ServerEntry
      /\ new # NoServer => new \in ServerEntry
      /\ s = r /\ r \in Serves /\ old = OwnServer(r, self) /\ ~echo => new = old
  <2> DEFINE ups == heard.ups
  <2>1. old # NoServer => old \in ServerEntry
    BY <1>1 DEF ServersInv, ServerTypes
  <2>2. new = insert_delete_server(r, ups, old, p.data.addr, p.net, p.data.hops)
    OBVIOUS
  <2> HIDE DEF old, ups, new, echo
  <2>3. /\ new # NoServer => new \in ServerEntry
        /\ r \in Serves /\ old = OwnServer(r, self)
             /\ (p.data.hops = Infinity \/ p.data.addr = <<r, self[r]>>) => new = old
    <3> DEFINE addr == p.data.addr
               hops == p.data.hops
               net  == p.net
    <3>1. r \in Router /\ addr \in Address /\ hops \in 1 .. 16 /\ net \in Net
      BY <1>1
    <3>2. new = insert_delete_server(r, ups, old, addr, net, hops)
      BY <2>2
    <3> HIDE DEF r, addr, hops, net
    <3>3. /\ insert_delete_server(r, ups, old, addr, net, hops) \in ServerEntry \union {NoServer}
          /\ r \in Serves /\ old = OwnServer(r, self) /\ (hops = Infinity \/ addr = <<r, self[r]>>)
               => insert_delete_server(r, ups, old, addr, net, hops) = old
      BY <2>1, <3>1, ServerEntryKept
    <3>4. new # NoServer => new \in ServerEntry
      BY <3>2, <3>3
    <3>5. r \in Serves /\ old = OwnServer(r, self) /\ (hops = Infinity \/ addr = <<r, self[r]>>)
            => new = old
      BY <3>2, <3>3
    <3> QED BY <3>4, <3>5 DEF addr, hops
  <2> QED BY <2>1, <2>3 DEF echo
<1> HIDE DEF seen, old, new, echo
<1>7. AddressOf(new) \in Known
  BY <1>6 DEF AddressOf, Known, ServerEntry
<1>8. server[r] \in [Router -> ServerEntry \union {NoServer}]
  BY <1>1 DEF ServersInv, ServerTypes
<1>9. srv \in [Router -> ServerEntry \union {NoServer}] /\ ServerTable(srv)
  BY <1>1, <1>6, <1>8 DEF ServerTable
<1>10. \A k \in wire' : k \notin wire => PacketOk(k)
  BY <1>1, <1>2, <1>5, <1>9, RipPackets, SapPackets
<1>11. /\ server'[r][s] = new
       /\ \A q, t \in Router : ~(q = r /\ t = s) => server'[q][t] = server[q][t]
  BY <1>1, <1>3, <1>8 DEF ServersInv, ServerTypes
<1>12. /\ toBind' \in [Router -> Seq(Messages)]
       /\ \A q \in Router : q # r => toBind'[q] = toBind[q]
       /\ \A q \in Serves : \A t \in Router :
            <<q, t>> \notin missed' =>
              WillHave(told[q][t], toBind'[q], t, AddressOf(server'[q][t]))
  <2>1. /\ toBind \in [Router -> Seq(Messages)]
        /\ \A q \in Serves : \A t \in Router : <<q, t>> \notin missed =>
             WillHave(told[q][t], toBind[q], t, AddressOf(server[q][t]))
    BY DEF ServersInv, ServerTypes, BindKnowsServers
  <2>2. CASE Notice(r, old, new) = {} /\ UNCHANGED <<toBind, missed>>
    <3>1. r \in Serves => AddressOf(new) = AddressOf(old)
      BY <2>2 DEF Notice
    <3>2. \A q \in Serves : \A t \in Router : AddressOf(server'[q][t]) = AddressOf(server[q][t])
      BY <1>1, <1>11, <3>1 DEF old, AddressOf
    <3> QED BY <2>1, <2>2, <3>2
  <2>3. CASE \E a \in Notice(r, old, new) : ins_del_bind_net_addr(r, s, a)
    <3>1. ins_del_bind_net_addr(r, s, AddressOf(new)) /\ r \in Serves
      BY <2>3 DEF Notice
    <3>2. PICK k \in Nat :
            /\ Queued(r, s, AddressOf(new), k)
            /\ missed' = IF k = 0 THEN missed \union {<<r, s>>} ELSE missed \ {<<r, s>>}
      BY <3>1, RouteConstants DEF ins_del_bind_net_addr
    <3>3. /\ toBind' \in [Router -> Seq(Messages)]
          /\ toBind'[r] = toBind[r] \o Copies(k, s, AddressOf(new))
          /\ \A q \in Router : q # r => toBind'[q] = toBind[q]
      BY <1>1, <1>7, <2>1, <3>2, QueuedTypes
    <3>4. ASSUME NEW q \in Serves, NEW t \in Router, <<q, t>> \notin missed'
          PROVE  WillHave(told[q][t], toBind'[q], t, AddressOf(server'[q][t]))
      <4>1. CASE q = r /\ t = s
        <5>1. k > 0
          BY <3>2, <3>4, <4>1
        <5>2. toBind[r] \in Seq(Messages)
          BY <1>1, <2>1
        <5>3. WillHave(told[q][t], toBind'[r], s, AddressOf(new))
          BY <3>3, <5>1, <5>2, WillHaveNew
        <5> QED BY <1>11, <4>1, <5>3 DEF AddressOf
      <4>2. CASE ~(q = r /\ t = s)
        <5>1. <<q, t>> \notin missed
          BY <3>2, <3>4, <4>2
        <5>2. WillHave(told[q][t], toBind[q], t, AddressOf(server[q][t])) /\ q \in Router
          BY <1>1, <2>1, <5>1
        <5>3. server'[q][t] = server[q][t]
          BY <1>11, <4>2, <5>2
        <5>4. CASE q # r
          BY <3>3, <5>2, <5>3, <5>4 DEF AddressOf
        <5>5. CASE q = r
          <6>1. t # s /\ toBind[r] \in Seq(Messages)
            BY <1>1, <2>1, <4>2, <5>5
          <6>2. WillHave(told[q][t], toBind'[r], t, AddressOf(server[q][t]))
            BY <3>3, <5>2, <5>5, <6>1, WillHaveOther
          <6> QED BY <5>3, <5>5, <6>2 DEF AddressOf
        <5> QED BY <5>4, <5>5
      <4> QED BY <4>1, <4>2
    <3> QED BY <3>3, <3>4
  <2> QED BY <1>4, <2>2, <2>3
<1>13. ServerTypes'
  BY <1>1, <1>2, <1>3, <1>9, <1>12 DEF ServersInv, ServerTypes
<1>14. BindKnowsServers'
  <2> SUFFICES ASSUME NEW q \in Serves
               PROVE  /\ \A t \in Router : <<q, t>> \notin missed' =>
                           WillHave(told'[q][t], toBind'[q], t, AddressOf(server'[q][t]))
                      /\ state'[q] # "off" /\ q \notin echoed' =>
                           server'[q][q] = OwnServer(q, self')
    BY DEF BindKnowsServers, WillHave, AddressOf, OwnServer
  <2>1. ASSUME state'[q] # "off", q \notin echoed' PROVE server'[q][q] = OwnServer(q, self')
    <3>1. q \notin echoed /\ state[q] # "off" /\ (q = r => ~echo) /\ self' = self
      BY <1>3, <2>1
    <3>2. server[q][q] = OwnServer(q, self) /\ q \in Router
      BY <1>1, <3>1 DEF ServersInv, BindKnowsServers
    <3>3. CASE q = r /\ s = r
      BY <1>6, <1>11, <3>1, <3>2, <3>3 DEF old
    <3>4. CASE ~(q = r /\ s = r)
      BY <1>11, <3>1, <3>2, <3>4
    <3> QED BY <3>3, <3>4
  <2> QED BY <1>3, <1>12, <2>1
<1>15. OffQuiet'
  BY <1>1, <1>3, <1>12 DEF ServersInv, OffQuiet
<1> QED BY <1>10, <1>13, <1>14, <1>15 DEF ServersInv

(* nwbind handles a message: it will have what it would have had.          *)
LEMMA ServersHandled ==
  ASSUME ServersInv, NEW r \in Router, handle_bind_calls(r)
  PROVE  ServersInv'
<1> DEFINE m == Head(toBind[r])
<1>1. /\ toBind[r] # << >> /\ told' = [told EXCEPT ![r][m.name] = m.addr]
      /\ toBind' = [toBind EXCEPT ![r] = Tail(toBind[r])]
      /\ UNCHANGED <<state, up, server, self, wire, missed, echoed>>
  BY DEF handle_bind_calls
<1>2. toBind[r] \in Seq(Messages)
  BY DEF ServersInv, ServerTypes
<1>3. m \in Messages /\ Tail(toBind[r]) \in Seq(Messages)
  BY <1>1, <1>2
<1> HIDE DEF m
<1>4. ServerTypes'
  BY <1>1, <1>3 DEF ServersInv, ServerTypes, Messages
<1>5. \A q, t \in Router :
        told'[q][t] = IF q = r /\ m.name = t THEN m.addr ELSE told[q][t]
  BY <1>1, <1>3 DEF ServersInv, ServerTypes, Messages
<1>6. /\ toBind'[r] = Tail(toBind[r])
      /\ \A q \in Router : q # r => toBind'[q] = toBind[q]
  BY <1>1 DEF ServersInv, ServerTypes
<1>7. BindKnowsServers'
  <2> SUFFICES ASSUME NEW q \in Serves
               PROVE  /\ \A t \in Router : <<q, t>> \notin missed' =>
                           WillHave(told'[q][t], toBind'[q], t, AddressOf(server'[q][t]))
                      /\ state'[q] # "off" /\ q \notin echoed' =>
                           server'[q][q] = OwnServer(q, self')
    BY DEF BindKnowsServers, WillHave, AddressOf, OwnServer
  <2>0. UNCHANGED <<state, server, self, missed, echoed>>
    BY <1>1
  <2>1. /\ \A t \in Router : <<q, t>> \notin missed =>
             WillHave(told[q][t], toBind[q], t, AddressOf(server[q][t]))
        /\ state[q] # "off" /\ q \notin echoed => server[q][q] = OwnServer(q, self)
        /\ q \in Router
    BY RouteConstants DEF ServersInv, BindKnowsServers
  <2>2. CASE q # r
    BY <1>5, <1>6, <2>0, <2>1, <2>2
  <2>3. CASE q = r
    <3>1. ASSUME NEW t \in Router, <<q, t>> \notin missed
          PROVE  WillHave(told'[q][t], toBind'[q], t, AddressOf(server[q][t]))
      <4>1. WillHave(IF m.name = t THEN m.addr ELSE told[r][t], Tail(toBind[r]), t,
                     AddressOf(server[q][t]))
        BY <1>1, <1>2, <2>1, <2>3, <3>1, WillHaveHandled DEF m
      <4>2. told'[q][t] = IF m.name = t THEN m.addr ELSE told[r][t]
        BY <1>5, <2>1, <2>3
      <4> QED BY <1>6, <2>3, <4>1, <4>2
    <3> QED BY <2>0, <2>1, <3>1
  <2> QED BY <2>2, <2>3
<1>8. OffQuiet'
  BY <1>1, <1>6 DEF ServersInv, OffQuiet
<1> QED BY <1>1, <1>4, <1>7, <1>8 DEF ServersInv

(* The other packets change no server.                                     *)
LEMMA ServersReceive ==
  ASSUME ServersInv, NEW p \in wire, NEW detected \in BOOLEAN,
         \/ HandleRipResponse(p, detected)
         \/ HandleRipRequest(p, detected)
         \/ send_server_response(p, detected)
  PROVE  ServersInv'
<1> DEFINE r == p.to
           seen == SeenFrom(p, detected)
<1>1. r \in Router /\ p.from \in Router /\ p.net \in Net
  BY DEF ServersInv, PacketOk
<1>2. seen.ups \in SUBSET Net
  BY SeenUps
<1> HIDE DEF seen
<1>3. /\ state[r] = "run" /\ UNCHANGED <<state, server, self, bindVars, echoed>>
      /\ up' = [up EXCEPT ![r] = seen.ups]
  BY DEF HandleRipResponse, HandleRipRequest, send_server_response, Received, Install, seen
<1>4. \A k \in wire' : k \notin wire => PacketOk(k)
  <2>1. CASE HandleRipResponse(p, detected)
    BY <2>1 DEF HandleRipResponse
  <2>2. CASE HandleRipRequest(p, detected)
    <3>1. \A k \in wire' : k \notin wire =>
            k = Packet("rip", r, p.from, p.net, build_rip_buff(r, seen.ups, seen.rts, p.net, 0))
      BY <2>2 DEF HandleRipRequest, Transmit, seen
    <3> DEFINE data == build_rip_buff(r, seen.ups, seen.rts, p.net, 0)
    <3> HIDE DEF data
    <3>2. PacketOk(Packet("rip", r, p.from, p.net, data))
      BY <1>1 DEF Packet, PacketOk, Kinds
    <3> QED BY <3>1, <3>2 DEF data
  <2>3. CASE send_server_response(p, detected)
    <3>1. \A k \in wire' : k \notin wire =>
            \E s \in Nearest(r, seen.ups, seen.rts) : k = NearestAnswer(p, s)
      BY <2>3 DEF send_server_response, Transmit, seen
    <3> SUFFICES ASSUME NEW s \in Nearest(r, seen.ups, seen.rts)
                 PROVE  PacketOk(NearestAnswer(p, s))
      BY <3>1
    <3>2. s \in Router /\ server[r][s] # NoServer
      BY DEF Nearest
    <3>3. server[r][s] \in ServerEntry
      BY <1>1, <3>2, TableOk DEF ServerTable
    <3>4. (server[r][s].hops + 1) % 65536 \in 1 .. 16
      BY <3>3 DEF ServerEntry
    <3>5. server[r][s].addr \in Address
      BY <3>3 DEF ServerEntry
    <3> QED BY <1>1, <3>2, <3>4, <3>5 DEF NearestAnswer, Packet, PacketOk, Kinds
  <2> QED BY <2>1, <2>2, <2>3
<1>5. state' = [state EXCEPT ![r] = "run"]
  BY <1>1, <1>3 DEF ServersInv, ServerTypes
<1> QED BY <1>1, <1>2, <1>3, <1>4, <1>5, ServersSame

(* A packet that is dropped changes no table.                              *)
LEMMA ServersIgnore ==
  ASSUME ServersInv, NEW p, Ignore(p) \/ UNCHANGED vars
  PROVE  ServersInv'
<1>1. UNCHANGED <<state, up, server, self, told, toBind, missed, echoed>> /\ wire' \subseteq wire
  BY DEF Ignore, vars, bindVars
<1> QED BY <1>1 DEF ServersInv, ServerTypes, OffQuiet, BindKnowsServers, WillHave, AddressOf,
                    OwnServer

(* Every step keeps the tables of servers and nwbind's entries equal.      *)
LEMMA ServersNext == ServersInv /\ [Next]_vars => ServersInv'
<1> SUFFICES ASSUME ServersInv, [Next]_vars PROVE ServersInv'
  OBVIOUS
<1>1. CASE \E r \in Router : \E now \in SUBSET AutoNets[r] :
             \/ \E mode \in {0, 1} : Broadcast(r, mode, now)
             \/ DownServer(r, now)
             \/ \E inuse \in BOOLEAN : CloseAll(r, now, inuse)
  BY <1>1, ServersBroadcast, ServersDown, ServersClose
<1>2. CASE \E r \in Router : handle_bind_calls(r) \/ \E node \in Node : Start(r, node)
  BY <1>2, ServersHandled, ServersStart
<1>3. CASE \E p \in wire : handle_event(p)
  BY <1>3, ServersReceive, ServersSap DEF handle_event
<1>4. CASE \E p \in wire : Ignore(p)
  BY <1>4, ServersIgnore
<1>5. CASE UNCHANGED vars
  BY <1>5, ServersIgnore
<1> QED BY <1>1, <1>2, <1>3, <1>4, <1>5 DEF Next

(* In every behaviour nwbind has, or will have when it has handled what    *)
(* waits for it, exactly the servers of the table under their addresses,   *)
(* but for those of which it missed the last message, and a file server    *)
(* keeps its own entry until it hears of itself under another address      *)
(* (insert_delete_server, ins_del_bind_net_addr, send_own_data).           *)
THEOREM BindAgrees == Spec => []BindKnowsServers
<1>1. ServersInv => BindKnowsServers
  BY DEF ServersInv
<1> QED BY <1>1, ServersInit, ServersNext, PTL DEF Spec

-----------------------------------------------------------------------------
(* The routing tables of one router.                                       *)

(* What is in a packet is well formed, and the sender is nearer than it    *)
(* says (build_rip_buff adds a tick).                                      *)
LEMMA BuildRip ==
  ASSUME SmallTicks, NEW r \in Router, NEW ups \in SUBSET Net, NEW rts \in Table, NEW n,
         NEW rmode, NEW b, b = build_rip_buff(r, ups, rts, n, rmode)
  PROVE  /\ RipOk(b)
         /\ \A d \in DOMAIN b : /\ b[d].hops < Infinity => Near(r, ups, rts, d, b[d].ticks)
                                /\ rmode = 1 => b[d].hops = Infinity
<1> DEFINE metric(d) == IF d = Internal[r] THEN [hops |-> 1, ticks |-> 2]
                        ELSE IF d \in ups THEN [hops |-> 1, ticks |-> Ticks[d] + 1]
                        ELSE [hops |-> rts[d].hops + 1, ticks |-> rts[d].ticks + 1]
           known == {d \in Net \ {n} : \/ d = Internal[r] \/ d \in ups
                                       \/ rts[d] # NoRoute /\ rts[d].rnet # n}
<1>1. b = [d \in known |-> IF rmode = 1 THEN [metric(d) EXCEPT !.hops = Infinity] ELSE metric(d)]
  BY DEF build_rip_buff
<1>2. ASSUME NEW d \in known
      PROVE  /\ b[d].hops \in 1 .. 16 /\ b[d].ticks \in Nat
             /\ b[d].ticks <= (TickLimit + 1) * b[d].hops
             /\ b[d].hops < Infinity => Near(r, ups, rts, d, b[d].ticks)
             /\ rmode = 1 => b[d].hops = Infinity
  <2>1. d \in Net /\ Ticks[d] \in Nat /\ Ticks[d] <= TickLimit
    BY RouteConstants DEF SmallTicks
  <2>2. d # Internal[r] /\ d \notin ups =>
          /\ rts[d] # NoRoute /\ rts[d] \in RouteEntry
          /\ rts[d].ticks <= (TickLimit + 1) * rts[d].hops + TickLimit
    BY <2>1 DEF Table
  <2>3. /\ metric(d).hops \in 1 .. 16 /\ metric(d).ticks \in Nat
        /\ metric(d).ticks <= (TickLimit + 1) * metric(d).hops
        /\ Near(r, ups, rts, d, metric(d).ticks)
        /\ DOMAIN metric(d) = {"hops", "ticks"}
    <3>1. CASE d = Internal[r]
      BY <3>1 DEF TickLimit, Near, Home
    <3>2. CASE d # Internal[r] /\ d \in ups
      BY <2>1, <3>2 DEF TickLimit, Near, Home
    <3>3. CASE d # Internal[r] /\ d \notin ups
      BY <2>2, <3>3 DEF TickLimit, Near, Home, RouteEntry
    <3> QED BY <3>1, <3>2, <3>3
  <2> HIDE DEF metric
  <2>4. CASE rmode = 1
    <3>1. b[d].hops = Infinity /\ b[d].ticks = metric(d).ticks
      BY <1>1, <2>3, <2>4
    <3> QED BY <2>3, <3>1 DEF Infinity, TickLimit
  <2>5. CASE rmode # 1
    <3>1. b[d] = metric(d)
      BY <1>1, <2>5
    <3> QED BY <2>3, <2>5, <3>1
  <2> QED BY <2>4, <2>5
<1>3. DOMAIN b = known
  BY <1>1
<1> HIDE DEF known, metric
<1>4. known \subseteq Net
  BY DEF known
<1> QED BY <1>2, <1>3, <1>4 DEF RipOk

(* A net that appears: its route is removed.                               *)
LEMMA AppearedSound ==
  ASSUME NEW r \in Router, NEW ups, NEW rts, Sound(r, ups, rts), NEW new \in SUBSET Net
  PROVE  Sound(r, ups \union new, test_ins_device_net(rts, new))
<1> DEFINE t == test_ins_device_net(rts, new)
<1>1. rts \in [Net -> RouteEntry \union {NoRoute}]
  BY DEF Sound, Table
<1>2. t \in [Net -> RouteEntry \union {NoRoute}] /\ \A d \in Net : t[d] \in {rts[d], NoRoute}
  BY <1>1 DEF test_ins_device_net
<1>3. \A d \in new : t[d] = NoRoute
  BY DEF test_ins_device_net
<1> HIDE DEF t
<1>4. t \in Table
  BY <1>2 DEF Sound, Table
<1> QED BY <1>2, <1>3, <1>4 DEF Sound, Home, t

(* Devices that go take the routes over them along.                        *)
LEMMA WithoutSound ==
  ASSUME NEW r \in Router, NEW ups, NEW rts, Sound(r, ups, rts), NEW gone
  PROVE  Sound(r, ups \ gone, RoutesWithout(rts, gone))
<1> DEFINE t == RoutesWithout(rts, gone)
<1>1. rts \in [Net -> RouteEntry \union {NoRoute}]
  BY DEF Sound, Table
<1>2. /\ t \in [Net -> RouteEntry \union {NoRoute}]
      /\ \A d \in Net : t[d] \in {rts[d], NoRoute}
      /\ \A d \in Net : t[d] # NoRoute => t[d].rnet \notin gone
  BY <1>1 DEF RoutesWithout
<1> HIDE DEF t
<1>3. t \in Table
  BY <1>2 DEF Sound, Table
<1> QED BY <1>2, <1>3 DEF Sound, Home, t

(* What a router that was home to d, or had a route to it, may come to:    *)
(* unless it has lost its way, it is home or has a route that is no        *)
(* longer.                                                                 *)
Kept(U, R, ups, rts, lost) ==
  \A d \in Net \ lost :
    /\ d \in U => d \in ups
    /\ R[d] # NoRoute => d \in ups \/ (rts[d] # NoRoute /\ rts[d].ticks <= R[d].ticks)

(* Finding a new interface deletes at most the route to its net.           *)
LEMMA AppearedKept ==
  ASSUME NEW r \in Router, NEW ups, NEW rts, Sound(r, ups, rts), NEW new \in SUBSET Net
  PROVE  /\ Kept(ups, rts, ups \union new, test_ins_device_net(rts, new), {})
         /\ \A d \in Net : test_ins_device_net(rts, new)[d] \in {rts[d], NoRoute}
<1>1. \A d \in Net : rts[d] # NoRoute => rts[d].ticks \in Nat
  BY DEF Sound, Table, RouteEntry
<1> QED BY <1>1 DEF Kept, test_ins_device_net

(* After look_for_interfaces no route is left over a device that is gone.  *)
LEMMA LookSound ==
  ASSUME NEW r \in Router, NEW v, IsView(v), Sound(r, v.ups, v.rts), NEW now \in SUBSET AutoNets[r],
         NEW w, w = look_for_interfaces(r, v, now)
  PROVE  /\ Sound(r, w.ups, w.rts)
         /\ Kept(v.ups, v.rts, w.ups, w.rts, w.lost)
         /\ \A d \in Net : w.rts[d] \in {v.rts[d], NoRoute}
<1> DEFINE new == now \ v.ups
           a == Cleared(v, now)
           gone == Gone(r, v, now)
<1>1. /\ w.ups = (v.ups \union now) \ gone /\ w.rts = RoutesWithout(a, gone)
      /\ w.lost = gone \union {d \in Net : a[d] # RoutesWithout(a, gone)[d]}
  BY LookFields
<1>2. new \in SUBSET Net
  BY NetTypes
<1>3. v.ups \union new = v.ups \union now
  OBVIOUS
<1>4. /\ Sound(r, v.ups \union now, a) /\ Kept(v.ups, v.rts, v.ups \union now, a, {})
      /\ \A d \in Net : a[d] \in {v.rts[d], NoRoute}
  BY <1>2, <1>3, AppearedSound, AppearedKept DEF Cleared
<1> HIDE DEF a, new
<1>5. Sound(r, w.ups, w.rts)
  BY <1>1, <1>4, WithoutSound
<1>6. Kept(v.ups, v.rts, w.ups, w.rts, w.lost)
  BY <1>1, <1>4 DEF Kept
<1>7. \A d \in Net : w.rts[d] \in {v.rts[d], NoRoute}
  BY <1>1, <1>4 DEF RoutesWithout
<1> QED BY <1>5, <1>6, <1>7

-----------------------------------------------------------------------------
(* A step of one router.                                                   *)

(* A route is an old one, or one that a report under way has told of.      *)
Learned(R, rts) ==
  \A d \in Net : rts[d] # NoRoute =>
    \/ rts[d] = R[d]
    \/ \E p \in wire :
         /\ p.kind = "rip" /\ d \in DOMAIN p.data /\ p.data[d].hops < Infinity
         /\ rts[d].rnode = p.from /\ p.data[d].ticks <= rts[d].ticks

(* A packet of a router with devices ups and routes rts.                   *)
SentOk(r, ups, rts, p) ==
  /\ PacketOk(p)
  /\ p.kind = "rip" =>
       /\ RipOk(p.data) /\ p.from = r
       /\ \A d \in DOMAIN p.data :
            p.data[d].hops < Infinity => Near(r, ups, rts, d, p.data[d].ticks)

(* Every action changes the tables of one router, in this way.             *)
LEMMA RouteStep ==
  ASSUME RoutesInv, NEW r \in Router, NEW ups, NEW rts, NEW lost,
         Sound(r, ups, rts), Kept(up[r], route[r], ups, rts, lost), Learned(route[r], rts),
         up' = [up EXCEPT ![r] = ups], route' = [route EXCEPT ![r] = rts],
         withdrawn \union lost \subseteq withdrawn',
         state' \in [Router -> {"run", "down", "off"}],
         \A q \in Router : state'[q] = "off" =>
            IF q = r THEN ups = {} /\ rts = [d \in Net |-> NoRoute] ELSE state[q] = "off",
         \A p \in wire' : p \notin wire => SentOk(r, ups, rts, p)
  PROVE  RoutesInv'
<1>1. RouteTypes
  BY DEF RoutesInv
<1>2. /\ up'[r] = ups /\ route'[r] = rts
      /\ \A q \in Router : q # r => up'[q] = up[q] /\ route'[q] = route[q]
  BY <1>1 DEF RouteTypes
<1>3. RouteTypes'
  <2>1. ups \in SUBSET Net /\ rts \in Table
    BY DEF Sound
  <2>2. up' \in [Router -> SUBSET Net] /\ route' \in [Router -> Table]
    BY <1>1, <2>1 DEF RouteTypes
  <2>3. \A p \in wire' : PacketOk(p) /\ (p.kind = "rip" => RipOk(p.data))
    BY <1>1 DEF RouteTypes, SentOk
  <2> QED BY <2>2, <2>3 DEF RouteTypes
<1>4. \A q \in Router : Sound(q, up'[q], route'[q])
  BY <1>2 DEF RoutesInv
<1>5. OffEmpty'
  BY <1>2 DEF RoutesInv, OffEmpty
<1>6. ASSUME NEW q \in Router, NEW d \in Net \ withdrawn', NEW t \in Nat,
             Near(q, up[q], route[q], d, t)
      PROVE  Near(q, up'[q], route'[q], d, t)
  <2>1. d \in Net \ lost
    OBVIOUS
  <2>2. CASE q = r
    <3>1. Sound(r, up[r], route[r])
      BY DEF RoutesInv
    <3>2. route[r][d] # NoRoute => route[r][d].ticks \in Nat
      BY <3>1 DEF Sound, Table, RouteEntry
    <3>3. rts[d] # NoRoute => rts[d].ticks \in Nat
      BY DEF Sound, Table, RouteEntry
    <3> QED BY <1>2, <1>6, <2>1, <2>2, <3>2, <3>3 DEF Kept, Near, Home
  <2>3. CASE q # r
    BY <1>2, <1>6, <2>3
  <2> QED BY <2>2, <2>3
<1>7. \A p \in wire : p.kind = "rip" => \A d \in DOMAIN p.data \ withdrawn' :
        p.data[d].hops < Infinity =>
          Near(p.from, up'[p.from], route'[p.from], d, p.data[d].ticks)
  <2> SUFFICES ASSUME NEW p \in wire, p.kind = "rip", NEW d \in DOMAIN p.data \ withdrawn',
                      p.data[d].hops < Infinity
               PROVE  Near(p.from, up'[p.from], route'[p.from], d, p.data[d].ticks)
    OBVIOUS
  <2>1. p.from \in Router /\ d \in Net \ withdrawn' /\ p.data[d].ticks \in Nat
    BY <1>1 DEF RouteTypes, PacketOk, RipOk
  <2>2. Near(p.from, up[p.from], route[p.from], d, p.data[d].ticks)
    BY DEF RoutesInv, ReportsNearer
  <2> QED BY <1>6, <2>1, <2>2
<1>8. ReportsNearer'
  <2> SUFFICES ASSUME NEW p \in wire', p.kind = "rip", NEW d \in DOMAIN p.data \ withdrawn',
                      p.data[d].hops < Infinity
               PROVE  Near(p.from, up'[p.from], route'[p.from], d, p.data[d].ticks)
    BY DEF ReportsNearer
  <2>1. CASE p \in wire
    BY <1>7, <2>1
  <2>2. CASE p \notin wire
    BY <1>2, <2>2 DEF SentOk
  <2> QED BY <2>1, <2>2
<1>9. RoutesNearer'
  <2> SUFFICES ASSUME NEW d \in Net \ withdrawn', NEW q \in Router, route'[q][d] # NoRoute
               PROVE  LET n == route'[q][d].rnode
                      IN Near(n, up'[n], route'[n], d, route'[q][d].ticks)
    BY DEF RoutesNearer
  <2> DEFINE e == route'[q][d]
  <2>1. e \in RouteEntry
    BY <1>3 DEF RouteTypes, Table
  <2>2. e.rnode \in Router /\ e.ticks \in Nat
    BY <2>1 DEF RouteEntry
  <2>3. ASSUME e = route[q][d]
        PROVE  Near(e.rnode, up'[e.rnode], route'[e.rnode], d, e.ticks)
    <3>1. Near(e.rnode, up[e.rnode], route[e.rnode], d, e.ticks)
      BY <2>3 DEF RoutesInv, RoutesNearer
    <3> HIDE DEF e
    <3> QED BY <1>6, <2>2, <3>1
  <2>4. CASE q # r
    BY <1>2, <2>3, <2>4
  <2>5. CASE q = r /\ rts[d] # route[r][d]
    <3>1. e = rts[d]
      BY <1>2, <2>5
    <3>2. PICK p \in wire :
            /\ p.kind = "rip" /\ d \in DOMAIN p.data /\ p.data[d].hops < Infinity
            /\ e.rnode = p.from /\ p.data[d].ticks <= e.ticks
      BY <2>5, <3>1 DEF Learned
    <3>3. Near(p.from, up'[p.from], route'[p.from], d, p.data[d].ticks)
      BY <1>7, <3>2
    <3>4. p.data[d].ticks \in Nat
      BY <1>1, <3>2 DEF RouteTypes, RipOk
    <3>5. route'[e.rnode][d] # NoRoute => route'[e.rnode][d].ticks \in Nat
      BY <1>3, <2>2 DEF RouteTypes, Table, RouteEntry
    <3> HIDE DEF e
    <3> QED BY <2>2, <3>2, <3>3, <3>4, <3>5 DEF Near, e
  <2>6. CASE q = r /\ rts[d] = route[r][d]
    BY <1>2, <2>3, <2>6
  <2> QED BY <2>4, <2>5, <2>6
<1> QED BY <1>3, <1>4, <1>5, <1>8, <1>9 DEF RoutesInv

(* Routes that are only removed have been learned before.                  *)
LEMMA RemovedLearned ==
  ASSUME NEW R, NEW rts, \A d \in Net : rts[d] \in {R[d], NoRoute}
  PROVE  Learned(R, rts)
  BY DEF Learned

(* The RIP packets of a broadcast.                                         *)
LEMMA BroadcastSent ==
  ASSUME SmallTicks, NEW r \in Router, NEW ups, NEW rts, Sound(r, ups, rts), NEW need, NEW mode,
         NEW p \in send_rip_broadcast(r, ups, rts, need, mode)
  PROVE  SentOk(r, ups, rts, p)
<1>1. ups \in SUBSET Net /\ rts \in Table
  BY DEF Sound
<1>2. PacketOk(p) /\ p.kind = "rip" /\ p.from = r
  BY <1>1, RipPackets
<1>3. p.data = build_rip_buff(r, ups, rts, p.net, IF mode = 2 THEN 1 ELSE 0)
  BY <1>1, RipPackets
<1>4. /\ RipOk(p.data)
      /\ \A d \in DOMAIN p.data :
           p.data[d].hops < Infinity => Near(r, ups, rts, d, p.data[d].ticks)
  BY <1>1, <1>2, <1>3, BuildRip
<1> QED BY <1>2, <1>4 DEF SentOk

(* A router that has looked at its interfaces.                             *)
LEMMA RoutesLook ==
  ASSUME SmallTicks, RoutesInv, (\A p \in wire : PacketOk(p))', NEW r \in Router,
         NEW now \in SUBSET AutoNets[r], NEW seen, seen = look_for_interfaces(r, View(r), now),
         Install(r, seen), state[r] # "off",
         NEW st \in {"run", "down"}, state' = [state EXCEPT ![r] = st], NEW mode,
         \A p \in wire' : p \notin wire /\ p.kind = "rip" =>
           p \in send_rip_broadcast(r, seen.ups, seen.rts, seen.need, mode)
  PROVE  RoutesInv'
<1>1. Sound(r, up[r], route[r])
  BY DEF RoutesInv
<1>2. /\ Sound(r, seen.ups, seen.rts) /\ Kept(up[r], route[r], seen.ups, seen.rts, seen.lost)
      /\ \A d \in Net : seen.rts[d] \in {route[r][d], NoRoute}
  BY <1>1, ViewFields, LookSound
<1>3. Learned(route[r], seen.rts)
  BY <1>2, RemovedLearned
<1>4. \A p \in wire' : p \notin wire => SentOk(r, seen.ups, seen.rts, p)
  <2> SUFFICES ASSUME NEW p \in wire', p \notin wire PROVE SentOk(r, seen.ups, seen.rts, p)
    OBVIOUS
  <2>1. CASE p.kind = "rip"
    BY <1>2, <2>1, BroadcastSent
  <2>2. CASE p.kind # "rip"
    BY <2>2 DEF SentOk
  <2> QED BY <2>1, <2>2
<1>5. /\ state' \in [Router -> {"run", "down", "off"}]
      /\ \A q \in Router : state'[q] = "off" => q # r /\ state[q] = "off"
  BY DEF RoutesInv, RouteTypes
<1>6. /\ up' = [up EXCEPT ![r] = seen.ups] /\ route' = [route EXCEPT ![r] = seen.rts]
      /\ withdrawn \union seen.lost \subseteq withdrawn'
  BY DEF Install
<1> QED BY <1>2, <1>3, <1>4, <1>5, <1>6, RouteStep

(* Broadcasts and the way down keep the routes.                            *)
LEMMA RoutesTimer ==
  ASSUME SmallTicks, RoutesInv, (\A p \in wire : PacketOk(p))', ServersInv, NEW r \in Router,
         NEW now \in SUBSET AutoNets[r],
         \/ \E mode \in {0, 1} : Broadcast(r, mode, now)
         \/ DownServer(r, now)
  PROVE  RoutesInv'
<1> DEFINE seen == look_for_interfaces(r, View(r), now)
<1>1. seen.ups \in SUBSET Net
  BY ViewUps
<1>2. ServerTable(server[r])
  BY TableOk
<1>3. ASSUME NEW mode \in {0, 1}, Broadcast(r, mode, now) PROVE RoutesInv'
  <2> HIDE DEF seen
  <2>1. \A p \in wire' : p \notin wire =>
          \/ p \in send_rip_broadcast(r, seen.ups, seen.rts, seen.need, mode)
          \/ p \in send_sap_broadcast(r, seen.ups, server[r], seen.need, mode)
          \/ p \in rip_for_net(r, seen.ups, seen.need) \union get_servers(r, seen.ups, seen.need)
    BY <1>3 DEF Broadcast, Transmit, seen
  <2>2. \A p \in wire' : p \notin wire /\ p.kind = "rip" =>
          p \in send_rip_broadcast(r, seen.ups, seen.rts, seen.need, mode)
    BY <1>1, <1>2, <2>1, SapPackets, RequestPackets
  <2>3. Install(r, seen) /\ state[r] = "run" /\ state' = state
    BY <1>3 DEF Broadcast, seen
  <2>4. state' = [state EXCEPT ![r] = "run"]
    BY <2>3 DEF RoutesInv, RouteTypes
  <2> QED BY <2>2, <2>3, <2>4, RoutesLook DEF seen
<1>4. ASSUME DownServer(r, now) PROVE RoutesInv'
  <2> HIDE DEF seen
  <2>1. \A p \in wire' : p \notin wire =>
          p \in send_sap_broadcast(r, seen.ups, server[r], seen.need, 2)
    BY <1>4 DEF DownServer, Transmit, seen
  <2>2. \A p \in wire' : p \notin wire /\ p.kind = "rip" =>
          p \in send_rip_broadcast(r, seen.ups, seen.rts, seen.need, 2)
    BY <1>1, <1>2, <2>1, SapPackets
  <2>3. Install(r, seen) /\ state[r] = "run" /\ state' = [state EXCEPT ![r] = "down"]
    BY <1>4 DEF DownServer, seen
  <2> QED BY <2>2, <2>3, RoutesLook DEF seen
<1> QED BY <1>3, <1>4

(* The end of a router: all it had is withdrawn, and what it sends says so. *)
LEMMA RoutesClose ==
  ASSUME SmallTicks, RoutesInv, (\A p \in wire : PacketOk(p))', ServersInv, NEW r \in Router,
         NEW now \in SUBSET AutoNets[r], NEW inuse \in BOOLEAN, CloseAll(r, now, inuse)
  PROVE  RoutesInv'
<1> DEFINE seen == look_for_interfaces(r, View(r), now)
           none == [d \in Net |-> NoRoute]
           lost == up[r] \union {d \in Net : d = Internal[r] \/ route[r][d] # NoRoute}
<1>1. Sound(r, seen.ups, seen.rts)
  <2>1. Sound(r, up[r], route[r])
    BY DEF RoutesInv
  <2> QED BY <2>1, ViewFields, LookSound
<1>2. ServerTable(server[r])
  BY TableOk
<1> HIDE DEF seen
<1>3. \A p \in wire' : p \notin wire =>
        \/ p \in send_rip_broadcast(r, seen.ups, seen.rts, seen.need, 2)
        \/ p \in send_sap_broadcast(r, seen.ups, server[r], seen.need, 2)
  BY DEF CloseAll, Transmit, seen
<1>4. ASSUME NEW p \in wire', p \notin wire PROVE SentOk(r, {}, none, p)
  <2>1. CASE p \in send_rip_broadcast(r, seen.ups, seen.rts, seen.need, 2)
    <3>1. seen.ups \in SUBSET Net /\ seen.rts \in Table
      BY <1>1 DEF Sound
    <3>2. p.kind = "rip" /\ p.from = r
      BY <2>1, <3>1, RipPackets
    <3>3. p.data = build_rip_buff(r, seen.ups, seen.rts, p.net, 1)
      BY <2>1, <3>1, RipPackets
    <3>4. RipOk(p.data) /\ \A d \in DOMAIN p.data : p.data[d].hops = Infinity
      BY <3>1, <3>3, BuildRip
    <3> QED BY <3>2, <3>4 DEF SentOk, Infinity
  <2>2. CASE p \in send_sap_broadcast(r, seen.ups, server[r], seen.need, 2)
    <3>1. seen.ups \in SUBSET Net
      BY <1>1 DEF Sound
    <3>2. p.kind = "sap"
      BY <1>2, <2>2, <3>1, SapPackets
    <3> QED BY <3>2 DEF SentOk
  <2> QED BY <1>3, <1>4, <2>1, <2>2
<1>5. /\ state' = [state EXCEPT ![r] = "off"] /\ up' = [up EXCEPT ![r] = {}]
      /\ route' = [route EXCEPT ![r] = none] /\ withdrawn \union lost \subseteq withdrawn'
  BY DEF CloseAll
<1>6. Sound(r, {}, none)
  BY DEF Sound, Table, Home
<1>7. Kept(up[r], route[r], {}, none, lost) /\ Learned(route[r], none)
  BY DEF Kept, Learned
<1>8. /\ state' \in [Router -> {"run", "down", "off"}]
      /\ \A q \in Router : state'[q] = "off" => q = r \/ state[q] = "off"
  BY <1>5 DEF RoutesInv, RouteTypes
<1> HIDE DEF lost
<1> QED BY <1>4, <1>5, <1>6, <1>7, <1>8, RouteStep

(* A router starts with an empty table.                                    *)
LEMMA RoutesStart ==
  ASSUME RoutesInv, NEW r \in Router, NEW node, Start(r, node)
  PROVE  RoutesInv'
<1>1. /\ state[r] = "off" /\ state' = [state EXCEPT ![r] = "run"]
      /\ up' = [up EXCEPT ![r] = Configured[r]]
      /\ UNCHANGED <<route, wire, withdrawn>>
  BY DEF Start
<1>2. up[r] = {} /\ route[r] = [d \in Net |-> NoRoute]
  BY <1>1 DEF RoutesInv, OffEmpty
<1>3. route' = [route EXCEPT ![r] = route[r]]
  BY <1>1 DEF RoutesInv, RouteTypes
<1>4. Sound(r, Configured[r], route[r])
  BY <1>2, NetTypes DEF Sound, Table, Home
<1>5. Kept(up[r], route[r], Configured[r], route[r], {}) /\ Learned(route[r], route[r])
  BY <1>2 DEF Kept, Learned
<1>6. /\ state' \in [Router -> {"run", "down", "off"}]
      /\ \A q \in Router : state'[q] = "off" => q # r /\ state[q] = "off"
  BY <1>1 DEF RoutesInv, RouteTypes
<1>7. withdrawn \union {} \subseteq withdrawn' /\ wire' = wire
  BY <1>1
<1> QED BY <1>7, <1>1, <1>3, <1>4, <1>5, <1>6, RouteStep

(* What is heard of a net in a report fits a table: the ticks do not wrap. *)
LEMMA HeardEntry ==
  ASSUME SmallTicks, NEW ups, NEW rnet \in Net, NEW rnode \in Router,
         NEW m, m.hops \in 1 .. 15, m.ticks \in Nat, m.ticks <= (TickLimit + 1) * m.hops,
         NEW e, e = Heard(ups, rnet, rnode, m)
  PROVE  /\ e \in RouteEntry /\ e # NoRoute /\ e.rnode = rnode
         /\ e.ticks <= (TickLimit + 1) * e.hops + TickLimit
         /\ m.ticks <= e.ticks
         /\ e.rnet \in ups \/ e.ticks >= FarTicks
<1> DEFINE t == DeviceTicks(ups, rnet)
<1>1. t \in Nat /\ t <= TickLimit /\ (rnet \in ups \/ t = FarTicks)
  BY RouteConstants DEF DeviceTicks, SmallTicks, TickLimit, FarTicks
<1> HIDE DEF t
<1>2. (m.ticks + t) % 65536 = m.ticks + t
  <2>1. m.ticks <= 57015 /\ t <= 3800
    BY <1>1 DEF TickLimit
  <2> DEFINE k == m.ticks
  <2>2. k \in Nat /\ k <= 57015
    BY <2>1
  <2> HIDE DEF k
  <2>3. k + t \in Nat /\ k + t < 65536
    BY <1>1, <2>1, <2>2
  <2>4. (k + t) % 65536 = k + t
    BY <2>3
  <2> QED BY <2>4 DEF k
<1>3. e = [hops |-> m.hops, ticks |-> m.ticks + t, rnet |-> rnet, rnode |-> rnode]
  BY <1>2 DEF Heard, t
<1>4. e \in RouteEntry /\ e # NoRoute
  BY <1>1, <1>3 DEF RouteEntry, NoRoute
<1> QED BY <1>1, <1>3, <1>4 DEF TickLimit, FarTicks

(* One entry of a report: the route is kept, removed or a nearer one.      *)
LEMMA InsertDelete ==
  ASSUME NEW r, NEW ups, NEW old, NEW d, NEW rnet, NEW rnode, NEW m, m.hops \in 1 .. 16,
         NEW e, e = insert_delete_net(r, ups, old, d, rnet, rnode, m)
  PROVE  \/ e = old
         \/ e = NoRoute
         \/ /\ e = Heard(ups, rnet, rnode, m) /\ m.hops \in 1 .. 15
            /\ d # Internal[r] /\ d \notin ups
            /\ old = NoRoute \/ Better(e, old)
  BY DEF insert_delete_net, DeleteNet, Infinity

(* A report: every entry of it is taken into the table.                    *)
LEMMA RoutesRip ==
  ASSUME SmallTicks, RoutesInv, NEW p \in wire, NEW detected \in BOOLEAN,
         HandleRipResponse(p, detected)
  PROVE  RoutesInv'
<1> DEFINE r == p.to
           ups == SeenFrom(p, detected).ups
           rts == SeenFrom(p, detected).rts
           entry(d) == insert_delete_net(r, ups, rts[d], d, p.net, p.from, p.data[d])
           new == [d \in Net |-> IF d \in DOMAIN p.data THEN entry(d) ELSE rts[d]]
           lost == {d \in Net : rts[d] # NoRoute /\ new[d] = NoRoute}
<1>1. /\ r \in Router /\ p.from \in Router /\ p.net \in Net /\ RipOk(p.data) /\ p.kind = "rip"
  BY DEF RoutesInv, RouteTypes, PacketOk, HandleRipResponse
<1>2. /\ state[r] = "run" /\ state' = state
      /\ up' = [up EXCEPT ![r] = ups] /\ route' = [route EXCEPT ![r] = new]
      /\ withdrawn' = withdrawn \union lost /\ wire' = wire \ {p}
  BY DEF HandleRipResponse
<1>3. /\ Sound(r, ups, rts) /\ Kept(up[r], route[r], ups, rts, {})
      /\ \A d \in Net : rts[d] \in {route[r][d], NoRoute}
  <2>1. NewNets(p, detected) \in SUBSET Net
    BY <1>1 DEF NewNets
  <2>2. Sound(r, up[r], route[r])
    BY <1>1 DEF RoutesInv
  <2>3. ups = up[r] \union NewNets(p, detected)
        /\ rts = test_ins_device_net(route[r], NewNets(p, detected))
    BY SeenFields
  <2> HIDE DEF r, ups, rts
  <2>4. Sound(r, ups, rts)
    BY <1>1, <2>1, <2>2, <2>3, AppearedSound
  <2>5. /\ Kept(up[r], route[r], ups, rts, {})
        /\ \A d \in Net : rts[d] \in {route[r][d], NoRoute}
    BY <1>1, <2>1, <2>2, <2>3, AppearedKept
  <2> QED BY <2>4, <2>5
<1> HIDE DEF ups, rts
<1>4. ASSUME NEW d \in Net, new[d] # NoRoute, new[d] # rts[d]
      PROVE  /\ d \in DOMAIN p.data /\ p.data[d].hops \in 1 .. 15 /\ p.data[d].ticks \in Nat
             /\ new[d] = Heard(ups, p.net, p.from, p.data[d])
             /\ d # Internal[r] /\ d \notin ups
             /\ rts[d] = NoRoute \/ Better(new[d], rts[d])
             /\ new[d] \in RouteEntry /\ new[d].rnode = p.from
             /\ new[d].ticks <= (TickLimit + 1) * new[d].hops + TickLimit
             /\ p.data[d].ticks <= new[d].ticks
             /\ new[d].rnet \in ups \/ new[d].ticks >= FarTicks
  <2>1. d \in DOMAIN p.data /\ new[d] = entry(d)
    BY <1>4
  <2>2. /\ p.data[d].hops \in 1 .. 16 /\ p.data[d].ticks \in Nat
        /\ p.data[d].ticks <= (TickLimit + 1) * p.data[d].hops
    BY <1>1, <2>1 DEF RipOk
  <2>3. /\ new[d] = Heard(ups, p.net, p.from, p.data[d]) /\ p.data[d].hops \in 1 .. 15
        /\ d # Internal[r] /\ d \notin ups
        /\ rts[d] = NoRoute \/ Better(new[d], rts[d])
    <3> HIDE DEF new, r
    <3> QED BY <1>4, <2>1, <2>2, InsertDelete
  <2> HIDE DEF new
  <2> QED BY <1>1, <2>1, <2>2, <2>3, HeardEntry
<1>5. rts \in Table /\ \A d \in Net : rts[d] # NoRoute => rts[d] \in RouteEntry
  BY <1>3 DEF Sound, Table
<1>6. Sound(r, ups, new)
  <2>1. \A d \in Net : new[d] # NoRoute => new[d] \in RouteEntry
    <3> HIDE DEF new
    <3> QED BY <1>4, <1>5
  <2>2. new = [d \in Net |-> new[d]]
    OBVIOUS
  <2>3. new \in [Net -> RouteEntry \union {NoRoute}]
    <3> HIDE DEF new
    <3> QED BY <2>1, <2>2
  <2> HIDE DEF new
  <2>4. new \in Table
    BY <1>4, <1>5, <2>3 DEF Table
  <2> QED BY <1>3, <1>4, <2>4 DEF Sound, Home
<1>7. Kept(up[r], route[r], ups, new, lost)
  <2> SUFFICES ASSUME NEW d \in Net \ lost
               PROVE  /\ d \in up[r] => d \in ups
                      /\ route[r][d] # NoRoute =>
                           d \in ups \/ (new[d] # NoRoute /\ new[d].ticks <= route[r][d].ticks)
    BY DEF Kept
  <2> HIDE DEF new
  <2>1. d \in up[r] => d \in ups
    BY <1>3 DEF Kept
  <2>2. ASSUME route[r][d] # NoRoute, d \notin ups
        PROVE  new[d] # NoRoute /\ new[d].ticks <= route[r][d].ticks
    <3>1. rts[d] # NoRoute /\ rts[d] = route[r][d] /\ rts[d].ticks \in Nat
      BY <1>3, <1>5, <2>2 DEF Kept, RouteEntry
    <3>2. new[d] # NoRoute
      BY <3>1
    <3>3. CASE new[d] = rts[d]
      BY <3>1, <3>3
    <3>4. CASE new[d] # rts[d]
      <4>1. new[d].ticks \in Nat /\ Better(new[d], rts[d])
        BY <1>4, <3>1, <3>2, <3>4 DEF RouteEntry
      <4> QED BY <3>1, <3>2, <4>1 DEF Better
    <3> QED BY <3>2, <3>3, <3>4
  <2> QED BY <2>1, <2>2
<1> HIDE DEF new, lost
<1>8. Learned(route[r], new)
  <2> SUFFICES ASSUME NEW d \in Net, new[d] # NoRoute, new[d] # route[r][d]
               PROVE  \E k \in wire :
                        /\ k.kind = "rip" /\ d \in DOMAIN k.data /\ k.data[d].hops < Infinity
                        /\ new[d].rnode = k.from /\ k.data[d].ticks <= new[d].ticks
    BY DEF Learned
  <2>1. new[d] # rts[d]
    BY <1>3
  <2> QED BY <1>1, <1>4, <2>1 DEF Infinity
<1>9. /\ state' \in [Router -> {"run", "down", "off"}]
      /\ \A q \in Router : state'[q] = "off" => q # r /\ state[q] = "off"
  BY <1>2 DEF RoutesInv, RouteTypes
<1>10. withdrawn \union lost \subseteq withdrawn' /\ wire' \subseteq wire
  BY <1>2
<1> HIDE DEF r
<1> QED BY <1>1, <1>2, <1>6, <1>7, <1>8, <1>9, <1>10, RouteStep

(* What a router that has received a packet knows of its interfaces.       *)
LEMMA SeenSound ==
  ASSUME RoutesInv, NEW p \in wire, NEW detected
  PROVE  LET seen == SeenFrom(p, detected)
         IN /\ Sound(p.to, seen.ups, seen.rts)
            /\ Kept(up[p.to], route[p.to], seen.ups, seen.rts, {})
            /\ \A d \in Net : seen.rts[d] \in {route[p.to][d], NoRoute}
<1> DEFINE r == p.to
           new == NewNets(p, detected)
<1>1. r \in Router /\ p.net \in Net
  BY DEF RoutesInv, RouteTypes, PacketOk
<1>2. new \in SUBSET Net
  BY <1>1 DEF NewNets
<1>3. Sound(r, up[r], route[r])
  BY <1>1 DEF RoutesInv
<1> HIDE DEF r, new
<1>4. /\ Sound(r, up[r] \union new, test_ins_device_net(route[r], new))
      /\ Kept(up[r], route[r], up[r] \union new, test_ins_device_net(route[r], new), {})
      /\ \A d \in Net : test_ins_device_net(route[r], new)[d] \in {route[r][d], NoRoute}
  BY <1>1, <1>2, <1>3, AppearedSound, AppearedKept
<1> QED BY <1>4, SeenFields DEF r, new

(* A request for routes or for the nearest server: the table is as it was, *)
(* but for a net that has appeared.                                        *)
LEMMA RoutesRequest ==
  ASSUME SmallTicks, RoutesInv, (\A p \in wire : PacketOk(p))', NEW p \in wire,
         NEW detected \in BOOLEAN,
         HandleRipRequest(p, detected) \/ send_server_response(p, detected)
  PROVE  RoutesInv'
<1> DEFINE r == p.to
           seen == SeenFrom(p, detected)
<1>1. r \in Router
  BY DEF RoutesInv, RouteTypes, PacketOk
<1>2. /\ Sound(r, seen.ups, seen.rts) /\ Kept(up[r], route[r], seen.ups, seen.rts, {})
      /\ \A d \in Net : seen.rts[d] \in {route[r][d], NoRoute}
  BY SeenSound
<1> HIDE DEF seen
<1>3. /\ state[r] = "run" /\ state' = state
      /\ up' = [up EXCEPT ![r] = seen.ups] /\ route' = [route EXCEPT ![r] = seen.rts]
      /\ withdrawn \subseteq withdrawn'
  BY DEF HandleRipRequest, send_server_response, Received, Install, seen
<1>4. ASSUME NEW k \in wire', k \notin wire
      PROVE  SentOk(r, seen.ups, seen.rts, k)
  <2>1. CASE HandleRipRequest(p, detected)
    <3> DEFINE data == build_rip_buff(r, seen.ups, seen.rts, p.net, 0)
    <3>1. k = Packet("rip", r, p.from, p.net, data)
      BY <1>4, <2>1 DEF HandleRipRequest, Transmit, seen
    <3>2. seen.ups \in SUBSET Net /\ seen.rts \in Table
      BY <1>2 DEF Sound
    <3>3. /\ RipOk(data)
          /\ \A d \in DOMAIN data :
               data[d].hops < Infinity => Near(r, seen.ups, seen.rts, d, data[d].ticks)
      BY <1>1, <3>2, BuildRip
    <3> HIDE DEF data
    <3>4. k.from = r /\ k.data = data
      BY <3>1 DEF Packet
    <3> QED BY <1>4, <3>3, <3>4 DEF SentOk
  <2>2. CASE send_server_response(p, detected)
    <3>1. \E s \in Nearest(r, seen.ups, seen.rts) : k = NearestAnswer(p, s)
      BY <1>4, <2>2 DEF send_server_response, Transmit, seen
    <3>2. k.kind = "sap"
      BY <3>1 DEF NearestAnswer, Packet
    <3> QED BY <1>4, <3>2 DEF SentOk
  <2> QED BY <2>1, <2>2
<1>5. Learned(route[r], seen.rts)
  BY <1>2, RemovedLearned
<1>6. /\ state' \in [Router -> {"run", "down", "off"}]
      /\ \A q \in Router : state'[q] = "off" => q # r /\ state[q] = "off"
  BY <1>3 DEF RoutesInv, RouteTypes
<1> HIDE DEF r
<1>7. withdrawn \union {} \subseteq withdrawn'
  BY <1>3
<1> QED BY <1>1, <1>2, <1>3, <1>4, <1>5, <1>6, <1>7, RouteStep

(* A SAP response, with or without waking a slow device.                   *)
LEMMA RoutesSap ==
  ASSUME SmallTicks, RoutesInv, ServersInv, (ServersInv)', NEW p \in wire,
         NEW detected \in BOOLEAN, NEW wake \in BOOLEAN, NEW now \in SUBSET AutoNets[p.to],
         HandleSap(p, detected, wake, now)
  PROVE  RoutesInv'
<1> DEFINE r == p.to
           heard == SeenFrom(p, detected)
           woken == [heard EXCEPT !.need = @ \union ({p.net} \X Kinds)]
           seen == IF wake THEN look_for_interfaces(r, woken, now) ELSE heard
           srv == server'[r]
<1>1. r \in Router
  BY DEF RoutesInv, RouteTypes, PacketOk
<1>2. /\ Sound(r, heard.ups, heard.rts) /\ Kept(up[r], route[r], heard.ups, heard.rts, {})
      /\ \A d \in Net : heard.rts[d] \in {route[r][d], NoRoute}
      /\ IsView(heard)
  BY SeenSound, SeenFields
<1>3. woken.ups = heard.ups /\ woken.rts = heard.rts /\ IsView(woken)
  BY <1>2 DEF IsView
<1>4. heard.lost = {}
  BY SeenFields
<1>5. /\ state[r] = "run" /\ state' = state
      /\ up' = [up EXCEPT ![r] = seen.ups] /\ route' = [route EXCEPT ![r] = seen.rts]
      /\ withdrawn' = withdrawn \union seen.lost
  BY DEF HandleSap, Install
<1>6. \A k \in wire' : k \notin wire =>
        \/ k \in send_rip_broadcast(r, seen.ups, seen.rts, seen.need, 4)
        \/ k \in send_sap_broadcast(r, seen.ups, srv, seen.need, 4)
  <2>1. server' = [server EXCEPT ![r] = [server[r] EXCEPT ![p.data.name] =
           insert_delete_server(r, heard.ups, server[r][p.data.name], p.data.addr,
                                p.net, p.data.hops)]]
    BY DEF HandleSap
  <2>2. srv = [server[r] EXCEPT ![p.data.name] =
           insert_delete_server(r, heard.ups, server[r][p.data.name], p.data.addr,
                                p.net, p.data.hops)]
    BY <1>1, <2>1 DEF ServersInv, ServerTypes
  <2> HIDE DEF srv
  <2> QED BY <2>2 DEF HandleSap, Transmit
<1>7. \A k \in wire' : PacketOk(k)
  BY DEF ServersInv
<1>8. ServerTable(srv)
  BY <1>1 DEF ServersInv, ServerTypes, ServerTable
<1> HIDE DEF heard, woken, srv, r
<1>9. /\ Sound(r, seen.ups, seen.rts)
      /\ Kept(up[r], route[r], seen.ups, seen.rts, seen.lost)
      /\ \A d \in Net : seen.rts[d] \in {route[r][d], NoRoute}
  <2>1. CASE ~wake
    BY <1>2, <1>4, <2>1
  <2>2. CASE wake
    <3>0. now \in SUBSET AutoNets[r]
      BY DEF r
    <3>1. seen = look_for_interfaces(r, woken, now)
      BY <2>2
    <3>2. Sound(r, woken.ups, woken.rts)
      BY <1>2, <1>3
    <3> HIDE DEF seen
    <3>3. /\ Sound(r, seen.ups, seen.rts)
          /\ Kept(woken.ups, woken.rts, seen.ups, seen.rts, seen.lost)
          /\ \A d \in Net : seen.rts[d] \in {woken.rts[d], NoRoute}
      BY <1>1, <1>3, <3>0, <3>1, <3>2, LookSound
    <3>4. \A d \in Net : seen.rts[d] \in {route[r][d], NoRoute}
      BY <1>2, <1>3, <3>3
    <3>5. Kept(up[r], route[r], seen.ups, seen.rts, seen.lost)
      <4>1. Sound(r, up[r], route[r])
        BY <1>1 DEF RoutesInv
      <4>2. \A d \in Net : route[r][d] # NoRoute => route[r][d].ticks \in Nat
        BY <4>1 DEF Sound, Table, RouteEntry
      <4>3. Kept(heard.ups, heard.rts, seen.ups, seen.rts, seen.lost)
        BY <1>3, <3>3
      <4> QED BY <1>2, <3>4, <4>2, <4>3 DEF Kept
    <3> QED BY <3>3, <3>4, <3>5
  <2> QED BY <2>1, <2>2
<1> HIDE DEF seen
<1>10. \A k \in wire' : k \notin wire => SentOk(r, seen.ups, seen.rts, k)
  <2> SUFFICES ASSUME NEW k \in wire', k \notin wire PROVE SentOk(r, seen.ups, seen.rts, k)
    OBVIOUS
  <2>1. CASE k \in send_rip_broadcast(r, seen.ups, seen.rts, seen.need, 4)
    BY <1>1, <1>9, <2>1, BroadcastSent
  <2>2. CASE k \in send_sap_broadcast(r, seen.ups, srv, seen.need, 4)
    <3>1. seen.ups \in SUBSET Net
      BY <1>9 DEF Sound
    <3>2. k.kind = "sap"
      BY <1>1, <1>8, <2>2, <3>1, SapPackets
    <3> QED BY <1>7, <3>2 DEF SentOk
  <2> QED BY <1>6, <2>1, <2>2
<1>11. Learned(route[r], seen.rts)
  BY <1>9, RemovedLearned
<1>12. /\ state' \in [Router -> {"run", "down", "off"}]
       /\ \A q \in Router : state'[q] = "off" => q # r /\ state[q] = "off"
  BY <1>5 DEF RoutesInv, RouteTypes
<1>13. withdrawn \union seen.lost \subseteq withdrawn'
  BY <1>5
<1> QED BY <1>1, <1>5, <1>9, <1>10, <1>11, <1>12, <1>13, RouteStep

(* A packet that is dropped keeps the routes.                              *)
LEMMA RoutesIgnore ==
  ASSUME RoutesInv, NEW p, Ignore(p) \/ (\E r \in Router : handle_bind_calls(r)) \/ UNCHANGED vars
  PROVE  RoutesInv'
<1>1. UNCHANGED <<state, up, route, withdrawn>> /\ wire' \subseteq wire
  BY DEF Ignore, handle_bind_calls, vars
<1> QED BY <1>1 DEF RoutesInv, RouteTypes, OffEmpty, RoutesNearer, ReportsNearer

(* At first there are no routes.                                           *)
LEMMA RoutesInit == Init => RoutesInv
<1> SUFFICES ASSUME Init PROVE RoutesInv
  OBVIOUS
<1>1. /\ wire = {} /\ up = Configured /\ withdrawn = {}
      /\ state = [r \in Router |-> "run"]
      /\ route = [r \in Router |-> [d \in Net |-> NoRoute]]
  BY DEF Init
<1>2. [d \in Net |-> NoRoute] \in Table
  BY DEF Table
<1>3. RouteTypes
  BY <1>1, <1>2, RouteConstants DEF RouteTypes
<1>4. \A r \in Router : Sound(r, up[r], route[r])
  BY <1>1, <1>2, NetTypes DEF Sound
<1> QED BY <1>1, <1>3, <1>4 DEF RoutesInv, OffEmpty, RoutesNearer, ReportsNearer

(* Every step keeps the routes over devices that are up and nearer.        *)
LEMMA RoutesNext ==
  ASSUME SmallTicks, RoutesInv, ServersInv, [Next]_vars
  PROVE  RoutesInv'
<1>1. ServersInv'
  BY ServersNext
<1>2. (\A p \in wire : PacketOk(p))'
  BY <1>1 DEF ServersInv
<1>3. CASE \E r \in Router : \E now \in SUBSET AutoNets[r] :
             \/ \E mode \in {0, 1} : Broadcast(r, mode, now)
             \/ DownServer(r, now)
             \/ \E inuse \in BOOLEAN : CloseAll(r, now, inuse)
  BY <1>2, <1>3, RoutesTimer, RoutesClose
<1>4. CASE \E r \in Router : handle_bind_calls(r) \/ \E node \in Node : Start(r, node)
  BY <1>4, RoutesIgnore, RoutesStart
<1>5. CASE \E p \in wire : handle_event(p)
  BY <1>1, <1>2, <1>5, RoutesRip, RoutesRequest, RoutesSap DEF handle_event
<1>6. CASE \E p \in wire : Ignore(p)
  BY <1>6, RoutesIgnore
<1>7. CASE UNCHANGED vars
  BY <1>7, RoutesIgnore
<1> QED BY <1>3, <1>4, <1>5, <1>6, <1>7 DEF Next

(* In every behaviour a route goes over a device that is up, or counts as  *)
(* far as a router heard over none does (look_for_interfaces,              *)
(* insert_delete_net).                                                     *)
THEOREM RoutesOverDevices ==
  ASSUME SmallTicks
  PROVE  Spec => []RouteOverDevice
<1>1. RoutesInv => RouteOverDevice
  BY DEF RoutesInv, Sound, RouteOverDevice
<1>2. RoutesInv /\ ServersInv /\ [Next]_vars => (RoutesInv /\ ServersInv)'
  BY RoutesNext, ServersNext
<1>3. Init => RoutesInv /\ ServersInv
  BY RoutesInit, ServersInit
<1> QED BY <1>1, <1>2, <1>3, PTL DEF Spec

(* Every set of natural numbers has a least one.                           *)
LEMMA LeastNumber ==
  ASSUME NEW S \in SUBSET Nat, S # {}
  PROVE  \E t \in S : \A u \in S : t <= u
<1>1. PICK t \in S : \A u \in S : <<u, t>> \notin OpToRel(<, Nat)
  BY NatLessThanWellFounded, WFMin
<1>2. \A u \in S : ~(u < t)
  BY <1>1 DEF OpToRel
<1> QED BY <1>2

(* A circle of routes has a router with the fewest ticks; the next router  *)
(* in the circle has fewer.                                                *)
LEMMA NoCircle == RoutesInv => LoopFree
<1> SUFFICES ASSUME RoutesInv, NEW d \in Net \ withdrawn, NEW circle \in (SUBSET Router) \ {{}},
                    \A r \in circle : route[r][d] # NoRoute /\ route[r][d].rnode \in circle
             PROVE  FALSE
  BY DEF LoopFree
<1> DEFINE ticks == {route[r][d].ticks : r \in circle}
<1>1. \A r \in circle : route[r][d] \in RouteEntry
  BY DEF RoutesInv, RouteTypes, Table
<1>2. ticks \in SUBSET Nat /\ ticks # {}
  <2>1. \A r \in circle : route[r][d].ticks \in Nat
    BY <1>1 DEF RouteEntry
  <2>2. ticks \subseteq Nat
    BY <2>1
  <2>3. circle # {}
    OBVIOUS
  <2>4. PICK r \in circle : TRUE
    BY <2>3
  <2>5. route[r][d].ticks \in ticks
    OBVIOUS
  <2> QED BY <2>2, <2>5
<1> HIDE DEF ticks
<1>3. PICK t \in ticks : \A u \in ticks : t <= u
  BY <1>2, LeastNumber
<1>4. PICK r \in circle : route[r][d].ticks = t
  BY <1>3 DEF ticks
<1> DEFINE q == route[r][d].rnode
<1>5. q \in circle /\ route[q][d] # NoRoute
  OBVIOUS
<1>6. Near(q, up[q], route[q], d, t)
  BY <1>4 DEF RoutesInv, RoutesNearer
<1> HIDE DEF q
<1>7. ~Home(q, up[q], d)
  BY <1>5 DEF RoutesInv, Sound
<1>8. route[q][d].ticks < t
  BY <1>6, <1>7 DEF Near
<1>9. route[q][d].ticks \in ticks
  BY <1>5 DEF ticks
<1> QED BY <1>1, <1>2, <1>3, <1>5, <1>8, <1>9 DEF RouteEntry

(* In every behaviour, and for any number of routers, the routes to a net  *)
(* to which no router has lost its way do not run in a circle, whatever    *)
(* reports are lost or late: the next router of a route and the sender of  *)
(* every report under way are nearer (Better, build_rip_buff).             *)
THEOREM NoLoops ==
  ASSUME SmallTicks
  PROVE  Spec => []LoopFree
<1>1. RoutesInv /\ ServersInv /\ [Next]_vars => (RoutesInv /\ ServersInv)'
  BY RoutesNext, ServersNext
<1>2. Init => RoutesInv /\ ServersInv
  BY RoutesInit, ServersInit
<1> QED BY <1>1, <1>2, NoCircle, PTL DEF Spec
=============================================================================
