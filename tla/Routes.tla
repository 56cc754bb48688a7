------------------------------- MODULE Routes -------------------------------
(***************************************************************************)
(* The routing tables and the service table of several mars_nwe routers    *)
(* (src/src/nwroute.c) and the part of nwserv that feeds them              *)
(* (src/src/nwserv.c): RIP and SAP broadcasts, requests and answers, nets  *)
(* that come and go, shutdown and restart of a router, a server that comes *)
(* back under another address, and what nwserv tells nwbind of it.         *)
(*                                                                         *)
(* A packet is lost when it is sent or waits in wire for its receiver, for *)
(* any time and in any order.  An entry of a RIP packet concerns one net   *)
(* only, so a packet is a function from nets to metrics; a packet holds at *)
(* most MaxRip entries (a longer list is not sent whole: send_rip_buff     *)
(* moves the entries up from the same place every time).  Device names and *)
(* frame types only decide which interfaces match a wildcard of the        *)
(* configuration: AutoNets names the nets for which they do.               *)
(***************************************************************************)
EXTENDS Integers, FiniteSets, Sequences

CONSTANTS
  Router,      \* the routers; also the names of their servers
  Node,        \* nodes a server may have on its internal net
  Net,         \* network numbers
  NoNet,       \* network number 0
  Internal,    \* Internal[r]: internal_net of a router
  Serves,      \* routers with a file server (nwserv; the others are nwrouted)
  Configured,  \* Configured[r]: nets of its configured devices (is_up = 1)
  AutoNets,    \* AutoNets[r]: nets whose interfaces it detects (is_up = 2)
  Ticks,       \* Ticks[n]: ticks of a device on net n
  Young,       \* routers that broadcast more often than server_broadcast_secs
  SlowTicks,   \* devices with so many ticks are not sent every broadcast (7)
  MaxRip,      \* entries of a routing table that are sent (100)
  Budgets,     \* bounds, of which a behaviour has one: how many timer runs and
               \* shutdowns there are, and how many packets are under way
  MaxCopies,   \* bound on the copies of a message that reach nwbind
  MaxQueue     \* bound on the messages that wait for nwbind

Attached(r) == Configured[r] \union AutoNets[r]

ASSUME RouteConstants ==
  /\ NoNet \notin Net /\ MaxCopies \in Nat /\ MaxQueue \in Nat
  /\ Internal \in [Router -> Net] /\ Serves \subseteq Router /\ Young \subseteq Router
  /\ Configured \in [Router -> SUBSET Net] /\ AutoNets \in [Router -> SUBSET Net]
  /\ \A r \in Router : Internal[r] \notin Attached(r) /\ Configured[r] \cap AutoNets[r] = {}
  /\ Ticks \in [Net -> Nat \ {0}]
  /\ Cardinality(Net) <= MaxRip
  /\ Budgets \subseteq [timers : Nat, wire : Nat] /\ SlowTicks \in Nat

VARIABLES
  state,      \* "run", "down" (server_down_stamp is set) or "off"
  up,         \* up[r]: nets of the devices that are up
  route,      \* route[r][n]: nw_routes
  server,     \* server[r][s]: nw_servers
  self,       \* self[r]: the node of r's server
  told,       \* told[r][s]: the address nwbind has for s, or NoAddress
  toBind,     \* toBind[r]: messages that wait for nwbind
  update,     \* needs_update: pairs of a net and what it has not been sent
  flipflop,   \* flipflop[r]: RIP or SAP is next
  wire,       \* packets under way
  budget,     \* what is left of the budget
  withdrawn,  \* history: nets to which a router has lost a way
  missed,     \* history: <<r, s>> when the last message about s was lost
  echoed      \* history: routers that heard their name with another address

bindVars == <<told, toBind, missed>>
vars == <<state, up, route, server, self, bindVars, update, flipflop, wire, budget,
          withdrawn, echoed>>

(* An address of a server: the internal net of its router, and the node.   *)
Address == Router \X Node
NoAddress == << >>
NoRoute == [hops |-> -1]
NoServer == [hops |-> -1]
Infinity == 16
NewHops == 65535
FarTicks == 99
Kinds == {"rip", "sap", "riprequest", "sapquery"}

-----------------------------------------------------------------------------
(* The tables.                                                             *)

(* The metric a device adds; a sender's net that is not up counts as far.  *)
DeviceTicks(ups, n) == IF n \in ups THEN Ticks[n] ELSE FarTicks

Better(new, old) ==
  \/ new.ticks < old.ticks
  \/ new.ticks = old.ticks /\ new.hops <= old.hops

(* What r hears of net d from a router on rnet, as an entry of its table.  *)
Heard(ups, rnet, rnode, m) ==
  [hops |-> m.hops, ticks |-> (m.ticks + DeviceTicks(ups, rnet)) % 65536,
   rnet |-> rnet, rnode |-> rnode]

(* Only the route over the very router that reports it is removed.         *)
DeleteNet(old, rnet, rnode) ==
  IF old # NoRoute /\ old.rnet = rnet /\ old.rnode = rnode THEN NoRoute ELSE old

(* Mutants: every report is believed; 16 hops are taken for a distance.    *)
BelieveAll(r, ups, old, d, rnet, rnode, m) ==
  IF d = Internal[r] \/ d \in ups THEN old
  ELSE IF m.hops >= Infinity THEN DeleteNet(old, rnet, rnode)
  ELSE Heard(ups, rnet, rnode, m)
(* The entry for net d after router r has heard metric m of it: the better *)
(* one; the internal net and nets of devices are not routed.               *)
insert_delete_net(r, ups, old, d, rnet, rnode, m) ==
  LET new == Heard(ups, rnet, rnode, m)
  IN IF d = Internal[r] THEN old
     ELSE IF m.hops >= Infinity THEN DeleteNet(old, rnet, rnode)
     ELSE IF d \notin ups /\ (old = NoRoute \/ Better(new, old)) THEN new ELSE old

(* A server entry keeps a net of a faster device at equal or fewer hops.   *)
KeepsNet(ups, old, net) ==
  /\ old.net \notin {NoNet, net}
  /\ {old.net, net} \subseteq ups
  /\ Ticks[old.net] < Ticks[net]

(* The entry of server s in the table of r after a SAP entry from net: the *)
(* address is always replaced, net and hops by what is no farther.         *)
insert_delete_server(r, ups, old, addr, net, hops) ==
  LET own == r \in Serves /\ old # NoServer /\ old.addr = <<r, self[r]>>
      cur == IF old = NoServer THEN [addr |-> addr, net |-> NoNet, hops |-> NewHops]
             ELSE [old EXCEPT !.addr = addr]
  IN IF hops = Infinity THEN IF own THEN old ELSE NoServer
     ELSE IF hops > cur.hops \/ KeepsNet(ups, cur, net) THEN cur
     ELSE [addr |-> addr, net |-> net, hops |-> hops]

AddressOf(entry) == IF entry = NoServer THEN NoAddress ELSE entry.addr

(* Mutant: nwbind is not told of another address of a server it has.       *)
InsertsOnly(r, old, new) ==
  {a \in {AddressOf(new)} : r \in Serves /\ (old = NoServer) # (new = NoServer)}
(* What nwbind is to be told: a server's new address, or that it is gone.  *)
(* (The other test, hops > 16, is true of a new entry only: a report of 16 *)
(* hops removes the entry, so none here has more than 15.)                 *)
Notice(r, old, new) ==
  {a \in {AddressOf(new)} : r \in Serves /\ a # AddressOf(old)}

Message(s, addr) == [name |-> s, addr |-> addr]
Copies(k, s, addr) == [i \in 1 .. k |-> Message(s, addr)]

(* send_own_data: the message is sent again until it is answered, and      *)
(* given up in the end; any number of copies reach nwbind, or none.        *)
Queued(r, s, addr, k) ==
  /\ Len(toBind[r]) + k <= MaxQueue
  /\ toBind' = [toBind EXCEPT ![r] = @ \o Copies(k, s, addr)]

ins_del_bind_net_addr(r, s, addr) ==
  \E k \in 0 .. MaxCopies :
    /\ Queued(r, s, addr, k)
    /\ missed' = IF k = 0 THEN missed \union {<<r, s>>} ELSE missed \ {<<r, s>>}

-----------------------------------------------------------------------------
(* Packets.                                                                *)

Packet(kind, r, q, n, data) == [kind |-> kind, from |-> r, to |-> q, net |-> n, data |-> data]

(* The answer to a request for all nets, and the contents of a broadcast:  *)
(* nothing that is reached over the net it is sent to.                     *)
build_rip_buff(r, ups, rts, n, rmode) ==
  LET metric(d) == IF d = Internal[r] THEN [hops |-> 1, ticks |-> 2]
                   ELSE IF d \in ups THEN [hops |-> 1, ticks |-> Ticks[d] + 1]
                   ELSE [hops |-> rts[d].hops + 1, ticks |-> rts[d].ticks + 1]
      known == {d \in Net \ {n} : \/ d = Internal[r] \/ d \in ups
                                  \/ rts[d] # NoRoute /\ rts[d].rnet # n}
  IN [d \in known |-> IF rmode = 1 THEN [metric(d) EXCEPT !.hops = Infinity] ELSE metric(d)]

Neighbours(r, n) == {q \in Router \ {r} : n \in Attached(q)}

RipTo(r, ups, rts, n, rmode) ==
  {Packet("rip", r, q, n, build_rip_buff(r, ups, rts, n, rmode)) : q \in Neighbours(r, n)}

(* A server is not announced to the net it is reached over; at shutdown    *)
(* only the own ones are.                                                  *)
SipEntries(srv, n, mode) ==
  {s \in Router : /\ srv[s] # NoServer
                  /\ ~(srv[s].net = n /\ srv[s].hops > 0)
                  /\ ~(mode = 2 /\ srv[s].hops > 0)}

send_sip_to_net(r, srv, n, mode) ==
  {Packet("sap", r, q, n,
          [name |-> s, addr |-> srv[s].addr,
           hops |-> IF mode = 2 THEN Infinity ELSE (srv[s].hops + 1) % 65536]) :
     q \in Neighbours(r, n), s \in SipEntries(srv, n, mode)}

Slow(n) == Ticks[n] >= SlowTicks

(* The nets a broadcast of a kind goes to: mode 0 leaves the slow ones out *)
(* unless they still need it, mode 4 is only for those which need it.      *)
Chosen(ups, need, kind, mode) ==
  {n \in ups : IF mode = 4 THEN <<n, kind>> \in need
               ELSE mode # 0 \/ ~Slow(n) \/ <<n, kind>> \in need}

send_rip_broadcast(r, ups, rts, need, mode) ==
  UNION {RipTo(r, ups, rts, n, IF mode = 2 THEN 1 ELSE 0) : n \in Chosen(ups, need, "rip", mode)}

send_sap_broadcast(r, ups, srv, need, mode) ==
  UNION {send_sip_to_net(r, srv, n, mode) : n \in Chosen(ups, need, "sap", mode)}

rip_for_net(r, ups, need) ==
  UNION {{Packet("riprequest", r, q, n, "all") : q \in Neighbours(r, n)} :
           n \in Chosen(ups, need, "riprequest", 0)}

get_servers(r, ups, need) ==
  UNION {{Packet("sapquery", r, q, n, "nearest") : q \in Neighbours(r, n)} :
           n \in Chosen(ups, need, "sapquery", 0)}

(* Of the packets sent, those in got reach their receivers in the end.     *)
Transmit(rest, out) ==
  \E got \in SUBSET out :
    /\ Cardinality(rest \union got) <= budget.wire
    /\ wire' = rest \union got

-----------------------------------------------------------------------------
(* Interfaces.                                                             *)

KeptOver(rts, gone) == rts

(* A net has appeared: an existing route to it is removed.                 *)
test_ins_device_net(rts, new) == [d \in Net |-> IF d \in new THEN NoRoute ELSE rts[d]]

(* A device has gone: the routes over its net are removed.                 *)
RoutesWithout(rts, gone) ==
  [d \in Net |-> IF rts[d] # NoRoute /\ rts[d].rnet \in gone THEN NoRoute ELSE rts[d]]

(* What a router knows of its interfaces and routes; the nets in lost were *)
(* reachable before.                                                       *)
View(r) == [ups |-> up[r], rts |-> route[r], need |-> update[r], lost |-> {}]

Appeared(v, new) ==
  [v EXCEPT !.ups = @ \union new, !.rts = test_ins_device_net(@, new),
            !.need = @ \union (new \X Kinds)]

(* The interfaces are now those of the nets in now.                        *)
look_for_interfaces(r, v, now) ==
  LET gone == (v.ups \cap AutoNets[r]) \ now
      w == Appeared(v, now \ v.ups)
      kept == RoutesWithout(w.rts, gone)
  IN [w EXCEPT !.ups = @ \ gone, !.rts = kept,
               !.lost = gone \union {d \in Net : w.rts[d] # kept[d]}]

Install(r, seen) ==
  /\ up' = [up EXCEPT ![r] = seen.ups]
  /\ route' = [route EXCEPT ![r] = seen.rts]
  /\ withdrawn' = withdrawn \union seen.lost

-----------------------------------------------------------------------------
OwnServer(r, nodes) == [addr |-> <<r, nodes[r]>>, net |-> Internal[r], hops |-> 0]
FreshServers(r, nodes) ==
  [s \in Router |-> IF s = r /\ r \in Serves THEN OwnServer(r, nodes) ELSE NoServer]

(* nwbind deletes what is dynamic when it starts and enters the own server. *)
FreshTold(r, nodes) ==
  [s \in Router |-> IF s = r /\ r \in Serves THEN <<r, nodes[r]>> ELSE NoAddress]

Init ==
  /\ state = [r \in Router |-> "run"]
  /\ up = Configured
  /\ route = [r \in Router |-> [d \in Net |-> NoRoute]]
  /\ self \in [Serves -> Node]
  /\ server = [r \in Router |-> FreshServers(r, self)]
  /\ told = [r \in Router |-> FreshTold(r, self)]
  /\ toBind = [r \in Router |-> << >>]
  /\ update = [r \in Router |-> {}]
  /\ flipflop = [r \in Router |-> TRUE]
  /\ wire = {} /\ budget \in Budgets /\ withdrawn = {} /\ missed = {} /\ echoed = {}

Counted == budget.timers > 0 /\ budget' = [budget EXCEPT !.timers = @ - 1]

(* The periodic broadcast (mode 0), and the ones of the first seconds and  *)
(* of the signals HUP, USR1 and USR2 (mode 1).  A router that has just     *)
(* started, or has a new device, also asks for routes and servers.         *)
Broadcast(r, mode, now) ==
  LET young == r \in Young
      seen == look_for_interfaces(r, View(r), now)
      rip == mode # 0 \/ flipflop[r]
      sap == mode # 0 \/ ~flipflop[r]
      kinds == {k \in Kinds : \/ k = "rip" /\ rip
                              \/ k = "sap" /\ sap
                              \/ k \in {"riprequest", "sapquery"} /\ young}
      reached == UNION {{<<n, k>> : n \in Chosen(seen.ups, seen.need, k,
                                                 IF k \in {"rip", "sap"} THEN mode ELSE 0)} :
                          k \in kinds}
      out == (IF rip THEN send_rip_broadcast(r, seen.ups, seen.rts, seen.need, mode) ELSE {})
             \union (IF sap THEN send_sap_broadcast(r, seen.ups, server[r], seen.need, mode) ELSE {})
             \union (IF young THEN rip_for_net(r, seen.ups, seen.need)
                                   \union get_servers(r, seen.ups, seen.need) ELSE {})
  IN /\ Counted /\ state[r] = "run"
     /\ Install(r, seen)
     /\ update' = [update EXCEPT ![r] = seen.need \ reached]
     /\ flipflop' = IF mode = 0 THEN [flipflop EXCEPT ![r] = ~@] ELSE flipflop
     /\ Transmit(wire, out)
     /\ UNCHANGED <<state, server, self, bindVars, echoed>>

-----------------------------------------------------------------------------
(* handle_event: a packet is looked at by a running router only; the net   *)
(* it comes from may turn out to be a new device.                          *)
SeenFrom(p, detected) ==
  Appeared(View(p.to), IF detected THEN {p.net} ELSE {})

Detectable(p, detected) == detected => p.net \in AutoNets[p.to] \ up[p.to]

Received(p, kind, detected) ==
  /\ p.kind = kind /\ state[p.to] = "run" /\ Detectable(p, detected)
  /\ Install(p.to, SeenFrom(p, detected))
  /\ update' = [update EXCEPT ![p.to] = SeenFrom(p, detected).need]
  /\ UNCHANGED <<state, self, flipflop, budget, echoed>>

(* handle_rip, a response: every entry is put into the table.              *)
HandleRipResponse(p, detected) ==
  LET r == p.to
      seen == SeenFrom(p, detected)
      new == [d \in Net |->
                IF d \in DOMAIN p.data
                THEN insert_delete_net(r, seen.ups, seen.rts[d], d, p.net, p.from, p.data[d])
                ELSE seen.rts[d]]
  IN /\ p.kind = "rip" /\ state[r] = "run" /\ Detectable(p, detected)
     /\ up' = [up EXCEPT ![r] = seen.ups]
     /\ route' = [route EXCEPT ![r] = new]
     /\ update' = [update EXCEPT ![r] = seen.need]
     /\ withdrawn' = withdrawn \union
                     {d \in Net : seen.rts[d] # NoRoute /\ new[d] = NoRoute}
     /\ wire' = wire \ {p}
     /\ UNCHANGED <<state, server, self, bindVars, flipflop, budget, echoed>>

(* handle_rip, a request for all nets: answered to the sender.             *)
HandleRipRequest(p, detected) ==
  LET seen == SeenFrom(p, detected)
  IN /\ Received(p, "riprequest", detected)
     /\ Transmit(wire \ {p},
                 {Packet("rip", p.to, p.from, p.net,
                         build_rip_buff(p.to, seen.ups, seen.rts, p.net, 0))})
     /\ UNCHANGED <<server, bindVars>>

(* The ticks to a server as send_server_response takes them: those of the  *)
(* device its net is reached over.                                         *)
find_netdevice(ups, rts, n) ==
  IF n \in ups THEN {n}
  ELSE IF n \in Net /\ rts[n] # NoRoute /\ rts[n].rnet \in ups THEN {rts[n].rnet} ELSE {}

ServerTicks(r, ups, rts, s) ==
  IF server[r][s].net = Internal[r] THEN 0
  ELSE IF find_netdevice(ups, rts, server[r][s].net) = {} THEN 999
  ELSE Ticks[CHOOSE n \in find_netdevice(ups, rts, server[r][s].net) : TRUE]

Nearest(r, ups, rts) ==
  {s \in Router :
     /\ server[r][s] # NoServer
     /\ ServerTicks(r, ups, rts, s) <= FarTicks
     /\ ServerTicks(r, ups, rts, s) = FarTicks => server[r][s].hops < Infinity
     /\ \A t \in Router : server[r][t] # NoServer =>
          \/ ServerTicks(r, ups, rts, s) < ServerTicks(r, ups, rts, t)
          \/ ServerTicks(r, ups, rts, s) = ServerTicks(r, ups, rts, t)
             /\ server[r][s].hops <= server[r][t].hops}

NearestAnswer(p, s) ==
  Packet("sap", p.to, p.from, p.net,
         [name |-> s, addr |-> server[p.to][s].addr, hops |-> (server[p.to][s].hops + 1) % 65536])

(* handle_sap, a query: answered with the nearest server, if there is one. *)
send_server_response(p, detected) ==
  LET seen == SeenFrom(p, detected)
      near == Nearest(p.to, seen.ups, seen.rts)
  IN /\ Received(p, "sapquery", detected)
     /\ \/ \E s \in near : Transmit(wire \ {p}, {NearestAnswer(p, s)})
        \/ near = {} /\ wire' = wire \ {p}
     /\ UNCHANGED <<server, bindVars>>

(* handle_sap, a response.  A server heard of over a slow device wakes the *)
(* device, at most every 600 seconds (wake): the net is sent everything.   *)
HandleSap(p, detected, wake, now) ==
  LET r == p.to
      s == p.data.name
      heard == SeenFrom(p, detected)
      new == insert_delete_server(r, heard.ups, server[r][s], p.data.addr, p.net, p.data.hops)
      srv == [server[r] EXCEPT ![s] = new]
      echo == s = r /\ r \in Serves /\ p.data.hops # Infinity /\ p.data.addr # <<r, self[r]>>
      woken == [heard EXCEPT !.need = @ \union ({p.net} \X Kinds)]
      seen == IF wake THEN look_for_interfaces(r, woken, now) ELSE heard
      out == send_rip_broadcast(r, seen.ups, seen.rts, seen.need, 4)
             \union send_sap_broadcast(r, seen.ups, srv, seen.need, 4)
  IN /\ p.kind = "sap" /\ state[r] = "run" /\ Detectable(p, detected)
     /\ wake => p.data.hops # Infinity /\ p.net \in heard.ups /\ Slow(p.net)
     /\ server' = [server EXCEPT ![r] = srv]
     /\ \/ \E a \in Notice(r, server[r][s], new) : ins_del_bind_net_addr(r, s, a)
        \/ Notice(r, server[r][s], new) = {} /\ UNCHANGED <<toBind, missed>>
     /\ echoed' = IF echo THEN echoed \union {r} ELSE echoed
     /\ Install(r, seen)
     /\ update' = [update EXCEPT ![r] =
                     IF wake THEN seen.need \ (seen.ups \X {"rip", "sap"}) ELSE seen.need]
     /\ Transmit(wire \ {p}, IF wake THEN out ELSE {})
     /\ UNCHANGED <<state, self, told, flipflop, budget>>

(* A packet for a router that does not run, or goes down.                  *)
Ignore(p) ==
  /\ state[p.to] # "run"
  /\ wire' = wire \ {p}
  /\ UNCHANGED <<state, up, route, server, self, bindVars, update, flipflop, budget,
                 withdrawn, echoed>>

(* nwbind handles the next message of its nwserv.                          *)
handle_bind_calls(r) ==
  /\ toBind[r] # << >>
  /\ told' = [told EXCEPT ![r][Head(toBind[r]).name] = Head(toBind[r]).addr]
  /\ toBind' = [toBind EXCEPT ![r] = Tail(@)]
  /\ UNCHANGED <<state, up, route, server, self, update, flipflop, wire, budget,
                 withdrawn, missed, echoed>>

-----------------------------------------------------------------------------
(* Shutdown and start.                                                     *)

(* down_server: the servers are withdrawn, and no packet is looked at any  *)
(* more.                                                                   *)
DownServer(r, now) ==
  LET seen == look_for_interfaces(r, View(r), now)
  IN /\ Counted /\ state[r] = "run"
     /\ state' = [state EXCEPT ![r] = "down"]
     /\ Install(r, seen)
     /\ update' = [update EXCEPT ![r] = seen.need \ (seen.ups \X {"sap"})]
     /\ Transmit(wire, send_sap_broadcast(r, seen.ups, server[r], seen.need, 2))
     /\ UNCHANGED <<server, self, bindVars, flipflop, echoed>>

(* The end of main and close_all: the servers are withdrawn again, then the *)
(* routes, unless IPX is in use.  What others knew of the router's nets    *)
(* goes stale.                                                             *)
CloseAll(r, now, inuse) ==
  LET seen == look_for_interfaces(r, View(r), now)
      rip == IF inuse THEN {}
             ELSE send_rip_broadcast(r, seen.ups, seen.rts, seen.need, 2)
  IN /\ state[r] = "down"
     /\ Transmit(wire, rip \union send_sap_broadcast(r, seen.ups, server[r], seen.need, 2))
     /\ state' = [state EXCEPT ![r] = "off"]
     /\ up' = [up EXCEPT ![r] = {}]
     /\ route' = [route EXCEPT ![r] = [d \in Net |-> NoRoute]]
     /\ server' = [server EXCEPT ![r] = [s \in Router |-> NoServer]]
     /\ told' = [told EXCEPT ![r] = [s \in Router |-> NoAddress]]
     /\ toBind' = [toBind EXCEPT ![r] = << >>]
     /\ missed' = {m \in missed : m[1] # r} /\ echoed' = echoed \ {r}
     /\ update' = [update EXCEPT ![r] = {}]
     /\ flipflop' = [flipflop EXCEPT ![r] = TRUE]
     /\ withdrawn' = withdrawn \union up[r]
          \union {d \in Net : d = Internal[r] \/ route[r][d] # NoRoute}
     /\ UNCHANGED <<self, budget>>

(* get_ini and the insertion of the own server, which may now be at        *)
(* another node; nwbind has it anyhow.                                     *)
Start(r, node) ==
  /\ state[r] = "off"
  /\ state' = [state EXCEPT ![r] = "run"]
  /\ up' = [up EXCEPT ![r] = Configured[r]]
  /\ self' = [q \in Serves |-> IF q = r THEN node ELSE self[q]]
  /\ server' = [server EXCEPT ![r] = FreshServers(r, self')]
  /\ told' = [told EXCEPT ![r] = FreshTold(r, self')]
  /\ \E k \in 0 .. MaxCopies :
       (r \notin Serves => k = 0) /\ Queued(r, r, <<r, node>>, k)
  /\ UNCHANGED <<route, update, flipflop, wire, budget, withdrawn, missed, echoed>>

handle_event(p) ==
  \E detected \in BOOLEAN :
    \/ HandleRipResponse(p, detected)
    \/ HandleRipRequest(p, detected)
    \/ send_server_response(p, detected)
    \/ \E wake \in BOOLEAN : \E now \in SUBSET AutoNets[p.to] : HandleSap(p, detected, wake, now)

Next ==
  \/ \E r \in Router : \E now \in SUBSET AutoNets[r] :
       \/ \E mode \in {0, 1} : Broadcast(r, mode, now)
       \/ DownServer(r, now)
       \/ \E inuse \in BOOLEAN : CloseAll(r, now, inuse)
  \/ \E r \in Router : handle_bind_calls(r) \/ \E node \in Node : Start(r, node)
  \/ \E p \in wire : handle_event(p) \/ Ignore(p)

Spec == Init /\ [][Next]_vars

-----------------------------------------------------------------------------
(* What nwbind has of s is a, or will be when it has handled its messages. *)
WillHave(bound, queue, s, a) ==
  LET about == {i \in DOMAIN queue : queue[i].name = s}
  IN \/ about = {} /\ bound = a
     \/ \E i \in about : (\A j \in about : j <= i) /\ queue[i].addr = a

(* Unless the last message about it was given up, nwbind has, or will have *)
(* when it has handled what waits for it, every server of the table under  *)
(* its address, and no other one, although a server may be withdrawn by a  *)
(* packet that is late, come back under another address and be heard of    *)
(* under the old one.  A server's own entry is lost only when it hears of  *)
(* itself under a former address (insert_delete_server).                   *)
BindKnowsServers ==
  \A r \in Serves :
    /\ \A s \in Router : <<r, s>> \notin missed =>
         WillHave(told[r][s], toBind[r], s, AddressOf(server[r][s]))
    /\ state[r] # "off" /\ r \notin echoed => server[r][r] = OwnServer(r, self)

(* A route goes over a device that is up, or has the ticks of a router     *)
(* heard over a device that is not: then any other route is preferred      *)
(* (look_for_interfaces removes routes, insert_delete_net adds 99 ticks).  *)
RouteOverDevice ==
  \A r \in Router : \A d \in Net :
    route[r][d] # NoRoute => route[r][d].rnet \in up[r] \/ route[r][d].ticks >= FarTicks

(* As long as no router has lost its way to a net, following the routes to *)
(* it never runs in a circle, although every router decides from late and  *)
(* incomplete reports (Better, build_rip_buff).  After a loss a circle is  *)
(* possible: see the README.                                               *)
LoopFree ==
  \A d \in Net \ withdrawn :
    ~\E circle \in (SUBSET Router) \ {{}} :
        \A r \in circle : route[r][d] # NoRoute /\ route[r][d].rnode \in circle
=============================================================================
