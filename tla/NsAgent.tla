------------------------------ MODULE NsAgent ------------------------------
(***************************************************************************)
(* The routing agent of the ns-2 port (sim/): packets on their way through *)
(* the agent, its packet buffer, the link layer, the interface queue that  *)
(* lets routing messages overtake data, the link layer's failure callback  *)
(* and the one simulator timer that stands for the whole timer queue.      *)
(*                                                                         *)
(* The simulator is single threaded, so every handler is one action.  The  *)
(* protocol engine is the daemon's (module AodvProtocol); here it is what  *)
(* it does to routes, to the seek list and to packets.  Sequence numbers,  *)
(* precursors and durations are left out: a timer that is pending may be   *)
(* the next to fire, and whether a RERR has a reader is a choice.          *)
(* unidir_hack_ is off.                                                    *)
(***************************************************************************)
EXTENDS Integers, Sequences, FiniteSets, SequencesExt, FiniteSetsExt

CONSTANTS
    NULL,               \* no address
    Self,               \* DEV_NR(NS_DEV_NR).ipaddr
    AODV_BROADCAST,
    Addr,               \* the other nodes
    Inet,               \* Internet destinations, behind a gateway
    Routes,             \* the [dest, next_hop, hcnt] that messages may teach
    Data,               \* data packets
    Control,            \* control packets followed at any one time
    MAX_QUEUE_LENGTH,
    MAX_QUEUE_TIME,     \* in garbage collections
    MAX_REPAIR_TTL,
    qlim,               \* the limit of the interface queue
    InitTTL,            \* the TTL of a packet the agent allocates
    Settings            \* what Tcl binds: llfeedback, local_repair, wait_on_reboot,
                        \* optimized_hellos, internet_gw_mode; whether routes have
                        \* precursors; the Internet destinations gateways answer for;
                        \* and load: [src, dst, ttl, forwards, enc] of each data packet

ASSUME NsAgentAssumption ==
    /\ Self \notin Addr \cup Inet /\ AODV_BROADCAST \notin Addr \cup Inet \cup {Self}
    /\ \A r \in Routes : r.dest \in Addr /\ r.next_hop \in Addr /\ r.hcnt \in Nat \ {0}
    /\ Data \cap Control = {}
    /\ MAX_QUEUE_LENGTH \in Nat \ {0} /\ MAX_QUEUE_TIME \in Nat
    /\ MAX_REPAIR_TTL \in Nat /\ qlim \in Nat \ {0, 1} /\ InitTTL \in Nat \ {0, 1}
    /\ \A s \in Settings : s.inet \subseteq Inet /\ DOMAIN s.load = Data

VARIABLE agent

Bound(s) == [f \in DOMAIN s \ {"load"} |-> s[f]]

Packet == Data \cup Control
Dest == Addr \cup Inet

NoRoute == [state |-> "NONE", next_hop |-> NULL, hcnt |-> 0, flags |-> {}, timer |-> "none"]

(* "gone": on the air, given to the node's own target, or dropped; "lost": *)
(* out of every queue and never freed.                                     *)
Places == {"new", "buffer", "ll", "ifq", "mac", "gone", "lost", "none"}

Blank(place) == [at |-> place, src |-> Self, dst |-> NULL, ttl |-> 0, forwards |-> 0,
                 dir |-> "NONE", hop |-> NULL, enc |-> FALSE]

(* The members of the agent that change, and what Tcl has bound. *)
AODVUU ==
    [set : {Bound(s) : s \in Settings}, given : SUBSET {"addr", "if-queue", "add-ll"},
     initialized : BOOLEAN, armed : BOOLEAN, wait_on_reboot : BOOLEAN, blocked : BOOLEAN,
     timers : SUBSET {"gc", "worb", "hello"}, seek : SUBSET Dest,
     rt : [Dest -> [state : {"NONE", "VALID", "INVALID"}, next_hop : Addr \cup {NULL},
                    hcnt : Nat, flags : SUBSET {"REPAIR", "GATEWAY", "INET_DEST"},
                    timer : {"none", "expire", "repair", "delete"}]],
     pq : Seq([p : Packet, dest : Dest, age : 0 .. MAX_QUEUE_TIME]), len : Nat,
     ifq : Seq(Packet),
     pkt : [Packet -> [at : Places, src : Addr \cup {Self}, dst : Dest \cup {Self, AODV_BROADCAST, NULL},
                       ttl : Nat, forwards : Nat, dir : {"NONE", "UP", "DOWN"},
                       hop : Addr \cup {NULL}, enc : BOOLEAN]]]

(* struct q_pkt; its age is counted in garbage collections. *)
q_pkt(p, dest) == [p |-> p, dest |-> dest, age |-> 0]

(* An empty buffer, and the garbage collector's timer. *)
packet_queue_init(h) == [h EXCEPT !.pq = <<>>, !.len = 0, !.timers = {"gc"}]

(* The constructor; Tcl has bound the settings. *)
Init ==
    \E s \in Settings :
        agent = packet_queue_init(
                [set |-> Bound(s), given |-> {}, initialized |-> FALSE,
                 armed |-> FALSE, wait_on_reboot |-> s.wait_on_reboot, timers |-> {},
                 rt |-> [d \in Dest |-> NoRoute], seek |-> {},
                 pq |-> <<>>, len |-> 0, ifq |-> <<>>, blocked |-> FALSE,
                 pkt |-> [p \in Packet |->
                    IF p \in Data
                    THEN [at |-> "new", src |-> s.load[p].src, dst |-> s.load[p].dst,
                          ttl |-> s.load[p].ttl, forwards |-> s.load[p].forwards,
                          dir |-> "NONE", hop |-> NULL, enc |-> s.load[p].enc]
                    ELSE Blank("none")]])

-----------------------------------------------------------------------------
(* Packets leave the agent. *)

(* A packet that is gone is forgotten; a control packet may be used again. *)
At(h, p, place) ==
    [h EXCEPT !.pkt[p] = IF place \in {"gone", "lost"}
                         THEN Blank(IF p \in Control THEN "none" ELSE place)
                         ELSE [@ EXCEPT !.at = place]]

drop(h, p) == At(h, p, "gone")

sendPacket(h, p, next_hop) ==
    LET k == h.pkt[p]
        forwarding == k.dir = "UP" /\ k.src # Self
    IN  IF ~forwarding /\ ~(k.dir = "DOWN" /\ k.src = Self) THEN drop(h, p)
        ELSE IF forwarding /\ k.ttl - 1 < 1 THEN drop(h, p)
        ELSE [h EXCEPT !.pkt[p] = [k EXCEPT !.at = "ll", !.dir = "DOWN",
                 !.ttl = IF forwarding THEN @ - 1 ELSE @,
                 !.hop = IF k.dst = AODV_BROADCAST THEN NULL ELSE next_hop]]

(* The new packet comes from allocpkt(): direction DOWN, a TTL of its own; *)
(* it carries the old one.                                                 *)
pkt_encapsulate(h, p, gw_addr) ==
    [h EXCEPT !.pkt[p] = [@ EXCEPT !.enc = TRUE, !.dst = gw_addr,
                                   !.dir = "DOWN", !.ttl = InitTTL]]

pkt_decapsulate(h, p) == [h EXCEPT !.pkt[p].enc = FALSE]

(* A message to other agents, when one of the control packets is unused.   *)
aodv_socket_send(h, dst) ==
    LET unused == {c \in Control : h.pkt[c].at = "none"} IN
    IF unused = {} THEN h
    ELSE LET c == CHOOSE c \in unused : TRUE
         IN  sendPacket([h EXCEPT !.pkt[c] = [@ EXCEPT !.dst = dst, !.ttl = 1, !.dir = "DOWN"]],
                        c, dst)

-----------------------------------------------------------------------------
(* The packet buffer. *)

packet_queue_add_front(h, p, dest) ==
    LET full == h.len >= MAX_QUEUE_LENGTH /\ h.pq # <<>>
        g == IF full THEN [drop(h, Head(h.pq).p) EXCEPT !.pq = Tail(@), !.len = @ - 1] ELSE h
    IN  [At(g, p, "buffer") EXCEPT !.pq = <<q_pkt(p, dest)>> \o @,
                                   !.len = @ + 1]

packet_queue_add(h, p, dest) ==
    LET full == h.len >= MAX_QUEUE_LENGTH /\ h.pq # <<>>
        g == IF full THEN [drop(h, Head(h.pq).p) EXCEPT !.pq = Tail(@), !.len = @ - 1] ELSE h
    IN  [At(g, p, "buffer") EXCEPT !.pq = Append(@, q_pkt(p, dest)),
                                   !.len = @ + 1]

packet_queue_garbage_collect_late(h) ==
    LET old == SelectSeq(h.pq, LAMBDA q : q.age > MAX_QUEUE_TIME + 1)
        g == [h EXCEPT !.pq = SelectSeq(@, LAMBDA q : q.age <= MAX_QUEUE_TIME + 1),
                       !.len = @ - Len(old)]
    IN  FoldLeft(LAMBDA a, q : drop(a, q.p), g, old)

packet_queue_garbage_collect(h) ==
    LET old == SelectSeq(h.pq, LAMBDA q : q.age > MAX_QUEUE_TIME)
        g == [h EXCEPT !.pq = SelectSeq(@, LAMBDA q : q.age <= MAX_QUEUE_TIME),
                       !.len = @ - Len(old)]
    IN  FoldLeft(LAMBDA a, q : drop(a, q.p), g, old)

(* Without an entry for the next hop the first packet is taken off the     *)
(* list and the function returns, packet and count forgotten.              *)
packet_queue_set_verdict(h, dest, verdict) ==
    LET via == IF verdict = "PQ_ENC_SEND" THEN h.rt[dest].next_hop ELSE dest
        mine == SelectSeq(h.pq, LAMBDA q : q.dest = dest)
        g == [h EXCEPT !.pq = SelectSeq(@, LAMBDA q : q.dest # dest), !.len = @ - Len(mine)]
        Release(a, q) ==
            CASE verdict = "PQ_DROP" -> drop(a, q.p)
              [] verdict = "PQ_SEND" -> sendPacket(a, q.p, a.rt[via].next_hop)
              [] verdict = "PQ_ENC_SEND" ->
                    sendPacket(pkt_encapsulate(a, q.p, via), q.p, a.rt[via].next_hop)
    IN  IF mine # <<>> /\ verdict # "PQ_DROP" /\ h.rt[via].state = "NONE"
        THEN [At(h, mine[1].p, "lost") EXCEPT !.pq = SelectSeq(@, LAMBDA q : q # mine[1])]
        ELSE FoldLeft(Release, g, mine)

-----------------------------------------------------------------------------
(* The interface queue. *)

(* Not blocked: the packet at the head goes to the link. *)
Pump(h) ==
    IF h.blocked \/ h.ifq = <<>> THEN h
    ELSE [At(h, Head(h.ifq), "mac") EXCEPT !.ifq = Tail(@), !.blocked = TRUE]

(* DropTail::enque as the agent meets it. *)
Queue_recv(h, p) ==
    Pump(IF Len(h.ifq) + 1 >= qlim THEN drop(h, p)
         ELSE [At(h, p, "ifq") EXCEPT !.ifq = Append(@, p)])

recvHighPriority_tail(h, p) ==
    LET g == [At(h, p, "ifq") EXCEPT !.ifq = Append(@, p)]
        last == Last(g.ifq)
    IN  Pump(IF Len(g.ifq) >= qlim THEN [drop(g, last) EXCEPT !.ifq = Front(@)] ELSE g)

(* At the head; over the limit the last packet of the queue is dropped.    *)
recvHighPriority(h, p) ==
    LET g == [At(h, p, "ifq") EXCEPT !.ifq = <<p>> \o @]
        last == Last(g.ifq)
    IN  Pump(IF Len(g.ifq) >= qlim THEN [drop(g, last) EXCEPT !.ifq = Front(@)] ELSE g)

(* The packets with this next hop, and the queue without them.             *)
filter(h, addr) ==
    [taken |-> SelectSeq(h.ifq, LAMBDA p : h.pkt[p].hop = addr),
     rest |-> [h EXCEPT !.ifq = SelectSeq(@, LAMBDA p : h.pkt[p].hop # addr)]]

(* IFQ_DROP_BY_DEST takes packets out of the queue and frees none of them. *)
interfaceQueue(h, addr, action) ==
    LET f == filter(h, addr)
        byDest == SelectSeq(h.ifq, LAMBDA p : h.pkt[p].dst = addr)
    IN  CASE action = "IFQ_DROP" -> FoldLeft(LAMBDA a, p : drop(a, p), f.rest, f.taken)
          [] action = "IFQ_BUFFER" ->
                FoldLeft(LAMBDA a, p : packet_queue_add(a, p, a.pkt[p].dst), f.rest, f.taken)
          [] action = "IFQ_DROP_BY_DEST" ->
                FoldLeft(LAMBDA a, p : At(a, p, "lost"),
                         [h EXCEPT !.ifq = SelectSeq(@, LAMBDA p : h.pkt[p].dst # addr)], byDest)

-----------------------------------------------------------------------------
(* What the protocol does to routes, searches and packets. *)

seek_list_insert(h, d) == [h EXCEPT !.seek = @ \cup {d}]

seek_list_remove(h, d) == [h EXCEPT !.seek = @ \ {d}]

HasRoute(h, d) == d \in Dest /\ h.rt[d].state # "NONE"

Valid(h, d) == HasRoute(h, d) /\ h.rt[d].state = "VALID"

Flag(h, d, flag) == HasRoute(h, d) /\ flag \in h.rt[d].flags

(* The entry is marked and, were it a gateway, so are the Internet         *)
(* destinations behind it.                                                 *)
rt_table_invalidate(h, d) ==
    LET behind == {i \in Dest : /\ Flag(h, d, "GATEWAY") /\ Valid(h, i)
                                /\ Flag(h, i, "INET_DEST") /\ h.rt[i].next_hop = d}
        Down(e) == [e EXCEPT !.state = "INVALID",
                             !.timer = IF "REPAIR" \in e.flags THEN "repair" ELSE "delete"]
    IN  IF ~Valid(h, d) THEN h
        ELSE [h EXCEPT !.rt = [u \in Dest |->
                IF u \in {d} \cup behind THEN Down(h.rt[u]) ELSE h.rt[u]]]

(* Routes with precursors are reported in a RERR.                          *)
neighbor_link_break(h, n) ==
    LET g == rt_table_invalidate(h, n)
        users == {u \in Dest : Valid(g, u) /\ g.rt[u].next_hop = n /\ u # n}
        repair == {u \in users : Flag(g, n, "REPAIR") /\ g.rt[u].hcnt <= MAX_REPAIR_TTL}
        Mark(u, a) == IF u \in repair THEN [a EXCEPT !.rt[u].flags = @ \cup {"REPAIR"}] ELSE a
        broken == FoldSet(LAMBDA u, a : rt_table_invalidate(Mark(u, a), u), g, users)
    IN  IF h.rt[n].hcnt # 1 THEN h
        ELSE IF h.set.precursors /\ (users \ repair # {} \/ ~Flag(g, n, "REPAIR"))
        THEN aodv_socket_send(broken, AODV_BROADCAST) ELSE broken

rt_table_update_no_verdict(h, d, next_hop, hops, flags) ==
    LET fl == IF h.rt[d].state = "INVALID" THEN flags \ {"REPAIR"} ELSE flags
    IN  [h EXCEPT !.seek = @ \ {d},
                  !.rt[d] = [state |-> "VALID", next_hop |-> next_hop, hcnt |-> hops,
                             flags |-> fl, timer |-> "expire"]]

(* seek_list_remove(seek_list_find()): whoever waited is sent on the route. *)
found(h, d) ==
    IF d \in h.seek
    THEN packet_queue_set_verdict(seek_list_remove(h, d), d,
            IF Flag(h, d, "INET_DEST") THEN "PQ_ENC_SEND" ELSE "PQ_SEND")
    ELSE h

(* A neighbour that moved further away is a broken link. *)
entered(h, d, next_hop, hops, flags) ==
    LET fl == IF h.rt[d].state = "INVALID" THEN flags \ {"REPAIR"} ELSE flags
        g == IF hops > 1 /\ h.rt[d].hcnt = 1 THEN neighbor_link_break(h, d) ELSE h
    IN  [g EXCEPT !.rt[d] = [state |-> "VALID", next_hop |-> next_hop, hcnt |-> hops,
                             flags |-> fl, timer |-> "expire"]]

(* Every Internet destination follows the gateway heard from last.         *)
rt_table_update_inet_rt(h, gw) ==
    FoldSet(LAMBDA i, a : found(entered(a, i, gw, h.rt[gw].hcnt, a.rt[i].flags), i), h,
            {i \in Dest : Valid(h, i) /\ Flag(h, i, "INET_DEST")})

(* A route becomes valid.  An entry that is new moves no Internet          *)
(* destination, even if it is a gateway's (rt_table_insert).               *)
rt_table_update(h, d, next_hop, hops, flags) ==
    LET new == entered(h, d, next_hop, hops, flags)
    IN  found(IF HasRoute(h, d) /\ Flag(new, d, "GATEWAY")
              THEN rt_table_update_inet_rt(new, d) ELSE new, d)

rreq_route_discovery(h, d) ==
    IF d \in h.seek THEN h ELSE seek_list_insert(aodv_socket_send(h, AODV_BROADCAST), d)

(* The entry's timer becomes an ordinary expiry.                           *)
rreq_local_repair(h, d) ==
    IF ~HasRoute(h, d) \/ d \in h.seek \/ ~Flag(h, d, "REPAIR") THEN h
    ELSE seek_list_insert([aodv_socket_send(h, AODV_BROADCAST) EXCEPT !.rt[d].timer = "expire"], d)

neighbor_add(h, n) == rt_table_update(h, n, n, 1, h.rt[n].flags)

-----------------------------------------------------------------------------
(* The data path. *)

(* Both callers of hello_start that run after the start. *)
hello_start(h) ==
    IF ~h.set.llfeedback /\ h.set.optimized_hellos
    THEN [h EXCEPT !.timers = @ \cup {"hello"}] ELSE h

(* There is a valid route; who sends data is to be heard by its neighbours. *)
SendOn(h, p, dst) == hello_start(sendPacket(h, p, h.rt[dst].next_hop))

(* No valid route to dst: the packet waits for a repair or a discovery, or *)
(* whoever sent it here is told.                                           *)
NoValidRoute(h, p, dst) ==
    LET k == h.pkt[p]
        rerr_dest == IF Valid(h, k.src) THEN h.rt[k.src].next_hop ELSE AODV_BROADCAST
    IN  IF Flag(h, dst, "REPAIR") THEN rreq_local_repair(packet_queue_add(h, p, dst), dst)
        ELSE IF k.dir = "UP"
        THEN [drop(aodv_socket_send(h, rerr_dest), p)
                EXCEPT !.timers = IF h.wait_on_reboot THEN @ \cup {"worb"} ELSE @]
        ELSE rreq_route_discovery(packet_queue_add(h, p, dst), dst)

processPacket_invalid_too(h, p) ==
    LET k == h.pkt[p]
        inet == Valid(h, k.dst) /\ Flag(h, k.dst, "INET_DEST")
        g == IF inet THEN pkt_encapsulate(h, p, h.rt[k.dst].next_hop) ELSE h
        dst == g.pkt[p].dst
    IN  IF k.dst = AODV_BROADCAST
        THEN IF k.dir = "DOWN" THEN sendPacket(h, p, k.dst) ELSE At(h, p, "gone")
        ELSE IF dst = Self THEN At(g, p, "gone")
        ELSE IF HasRoute(g, dst) /\ ~Flag(g, dst, "REPAIR")
             THEN SendOn(g, p, dst)
        ELSE NoValidRoute(g, p, dst)

processPacket(h, p) ==
    LET k == h.pkt[p]
        inet == Valid(h, k.dst) /\ Flag(h, k.dst, "INET_DEST")
        g == IF inet THEN pkt_encapsulate(h, p, h.rt[k.dst].next_hop) ELSE h
        dst == g.pkt[p].dst
    IN  IF k.dst = AODV_BROADCAST
        THEN IF k.dir = "DOWN" THEN sendPacket(h, p, k.dst) ELSE At(h, p, "gone")
        ELSE IF dst = Self THEN At(g, p, "gone")
        ELSE IF Valid(g, dst) THEN SendOn(g, p, dst)
        ELSE NoValidRoute(g, p, dst)

-----------------------------------------------------------------------------
(* The one timer of the simulator that stands for the timer queue. *)

Pending(h) ==
    h.timers # {} \/ h.seek # {} \/ \E d \in Dest : h.rt[d].timer # "none"

(* timer_age_queue() names the next timeout, if there is one. *)
scheduleNextEvent(h) == IF Pending(h) THEN [h EXCEPT !.armed = TRUE] ELSE h

startAODVUUAgent ==
    /\ ~agent.initialized
    /\ agent' = scheduleNextEvent(
        [agent EXCEPT !.initialized = TRUE,
            !.timers = @ \cup (IF agent.wait_on_reboot THEN {"worb"} ELSE {})
                         \cup (IF ~agent.set.llfeedback /\ ~agent.set.optimized_hellos
                               THEN {"hello"} ELSE {})])

(* The commands of the simulation script, which gives the agent its        *)
(* address and its neighbours in the node before it starts it.             *)
command(argv) ==
    \/ /\ argv \in {"addr", "if-queue", "add-ll"} \ agent.given
       /\ agent' = [agent EXCEPT !.given = @ \cup {argv}]
    \/ /\ argv = "start" /\ agent.given = {"addr", "if-queue", "add-ll"}
       /\ startAODVUUAgent

-----------------------------------------------------------------------------
(* Packets and messages come in. *)

(* A data packet from above or from the link.  One of our own that comes   *)
(* back has gone round in a loop.                                          *)
recv(p) ==
    LET k == agent.pkt[p]
        own == k.src = Self
        g == [agent EXCEPT !.pkt[p].dir = IF own THEN "DOWN" ELSE "UP"]
    IN  /\ agent.initialized /\ k.at = "new"
        /\ agent' = scheduleNextEvent(
            IF own /\ k.forwards # 0 THEN drop(agent, p)
            ELSE IF k.enc /\ agent.set.internet_gw_mode THEN At(pkt_decapsulate(g, p), p, "gone")
            ELSE processPacket(g, p))

(* A routing message from neighbour n is freed, and taken for a sign of    *)
(* life of n, before it is looked into.                                    *)
recvAODVUUPacket(n) == neighbor_add(agent, n)

RecvHello(n) ==
    /\ agent.initialized
    /\ agent' = scheduleNextEvent(neighbor_add(agent, n))

(* A RREQ that came along route r: a reverse route unless the one there is *)
(* fresher, and an answer, the request sent on, or neither.                *)
RecvRreq(r, newer, answer) ==
    \E h \in {recvAODVUUPacket(r.next_hop)} :
    \E g \in {IF HasRoute(h, r.dest) /\ ~newer THEN h
              ELSE rt_table_update(h, r.dest, r.next_hop, r.hcnt, h.rt[r.dest].flags)} :
        /\ agent.initialized
        /\ newer \/ (HasRoute(h, r.dest) /\ answer # "none")
        /\ agent' = scheduleNextEvent(
            CASE answer = "reply" /\ ~agent.wait_on_reboot -> aodv_socket_send(g, r.next_hop)
              [] answer = "forward" -> aodv_socket_send(g, AODV_BROADCAST)
              [] OTHER -> g)

(* A RREP with news of route r (without, it is no more than a sign of life *)
(* of the neighbour); inet: the Internet destinations it answers for;      *)
(* orig: whom it is for.                                                   *)
RecvRrep(r, inet, orig) ==
    \E h \in {recvAODVUUPacket(r.next_hop)} :
    LET was == h.rt[r.dest]
        gateway == IF inet # {} THEN {"GATEWAY"} ELSE {}
        AddInet(i, a) ==
            IF ~Valid(a, i) \/ r.hcnt < a.rt[i].hcnt
            THEN rt_table_update(a, i, r.dest, r.hcnt, a.rt[i].flags \cup {"INET_DEST"}) ELSE a
    IN
    \E g \in {rt_table_update(h, r.dest, r.next_hop, r.hcnt, was.flags \cup gateway)} :
    \E mine \in {FoldSet(AddInet, g, inet)} :
        /\ agent.initialized
        /\ agent' = scheduleNextEvent(
            hello_start(
            IF orig = Self
            THEN IF "REPAIR" \in was.flags /\ r.hcnt > was.hcnt /\ agent.set.precursors
                 THEN aodv_socket_send(mine, AODV_BROADCAST) ELSE mine
            ELSE IF Valid(g, orig) /\ ~agent.wait_on_reboot
                 THEN aodv_socket_send(g, g.rt[orig].next_hop) ELSE g))

(* A RERR of n about d.  The packets for d leave the interface queue even  *)
(* when the route is not to be deleted.                                    *)
RecvRerr(n, d, nodelete) ==
    \E h \in {recvAODVUUPacket(n)} :
    LET q == interfaceQueue(h, d, "IFQ_DROP_BY_DEST")
        g == IF nodelete THEN q ELSE rt_table_invalidate(q, d)
    IN  /\ agent.initialized
        /\ agent' = scheduleNextEvent(
            IF ~(Valid(h, d) /\ h.rt[d].next_hop = n) THEN h
            ELSE IF agent.set.precursors /\ ~Flag(h, d, "REPAIR")
                 THEN aodv_socket_send(g, AODV_BROADCAST) ELSE g)

-----------------------------------------------------------------------------
(* A timer of the queue goes off; the simulator's timer is set again.      *)
(* Handler t finds the timer gone from the queue.                          *)

Expire(h) == agent' = scheduleNextEvent([h EXCEPT !.armed = FALSE])

packet_queue_timeout_once ==
    /\ agent.armed /\ "gc" \in agent.timers
    /\ LET aged == [agent EXCEPT !.pq = [i \in DOMAIN @ |-> [@[i] EXCEPT !.age = @ + 1]]]
       IN  Expire([packet_queue_garbage_collect(aged) EXCEPT !.timers = @ \ {"gc"}])

packet_queue_timeout ==
    /\ agent.armed /\ "gc" \in agent.timers
    /\ LET aged == [agent EXCEPT !.pq = [i \in DOMAIN @ |-> [@[i] EXCEPT !.age = @ + 1]]]
       IN  Expire(packet_queue_garbage_collect(aged))

wait_on_reboot_timeout ==
    /\ agent.armed /\ "worb" \in agent.timers
    /\ Expire([agent EXCEPT !.wait_on_reboot = FALSE, !.timers = @ \ {"worb"}])

hello_send ==
    /\ agent.armed /\ "hello" \in agent.timers
    /\ \/ Expire(aodv_socket_send(agent, AODV_BROADCAST))
       \/ Expire(agent)         \* something was broadcast not long ago

local_repair_timeout(h, d) ==
    LET g == IF h.set.precursors THEN aodv_socket_send(h, AODV_BROADCAST) ELSE h
    IN  [g EXCEPT !.rt[d].flags = @ \ {"REPAIR"}, !.rt[d].timer = "delete"]

(* Another RREQ, or the search is given up. *)
route_discovery_timeout(d) ==
    LET g == packet_queue_set_verdict(seek_list_remove(agent, d), d, "PQ_DROP") IN
    /\ agent.armed /\ d \in agent.seek
    /\ \/ Expire(aodv_socket_send(agent, AODV_BROADCAST))
       \/ Expire(IF Flag(g, d, "REPAIR") THEN local_repair_timeout(g, d) ELSE g)

route_timeout(d) ==
    LET h == [agent EXCEPT !.rt[d].timer = "none"] IN
    /\ agent.armed /\ agent.rt[d].timer # "none"
    /\ Expire(CASE agent.rt[d].timer = "expire" ->
                    IF h.rt[d].hcnt = 1 THEN neighbor_link_break(h, d)
                    ELSE rt_table_invalidate(h, d)
                [] agent.rt[d].timer = "repair" -> local_repair_timeout(h, d)
                [] agent.rt[d].timer = "delete" -> [h EXCEPT !.rt[d] = NoRoute])

(* The timer is set by every HELLO and stopped when the neighbour is lost. *)
hello_timeout(n) ==
    LET mark == agent.set.local_repair /\ agent.rt[n].hcnt <= MAX_REPAIR_TTL
        h == [agent EXCEPT !.rt[n].flags = @ \cup {"REPAIR"}]
    IN  /\ agent.armed /\ ~agent.set.llfeedback
        /\ Valid(agent, n) /\ agent.rt[n].hcnt = 1
        /\ Expire(neighbor_link_break(
              IF mark THEN interfaceQueue(h, n, "IFQ_BUFFER") ELSE agent, n))

-----------------------------------------------------------------------------
(* The link. *)

(* The delay of sendPacket is over, and the packet meets the queue.        *)
PriQueue_recv(p) ==
    /\ agent.pkt[p].at = "ll"
    /\ agent' = IF p \in Control THEN recvHighPriority(agent, p) ELSE Queue_recv(agent, p)

(* The packet is out, and the next one may go. *)
Resume(h) == Pump([h EXCEPT !.blocked = FALSE])

Transmitted(p) ==
    /\ agent.pkt[p].at = "mac"
    /\ agent' = Resume(At(agent, p, "gone"))

packetFailed_forgets(h, p) ==
    LET k == h.pkt[p]
        q == interfaceQueue(packet_queue_add(h, p, k.dst), k.hop, "IFQ_BUFFER")
        repairing == neighbor_link_break([q EXCEPT !.rt[k.hop].flags = @ \cup {"REPAIR"}], k.hop)
    IN  IF p \in Control THEN drop(h, p)
        ELSE IF k.dst \in h.seek THEN packet_queue_add(h, p, k.dst)
        ELSE IF ~Valid(h, k.hop) \/ ~Valid(h, k.dst)
             THEN interfaceQueue(h, k.hop, "IFQ_DROP")
        ELSE IF h.rt[k.dst].next_hop # k.hop THEN drop(h, p)
        ELSE IF h.set.local_repair /\ h.rt[k.dst].hcnt <= MAX_REPAIR_TTL
             THEN rreq_local_repair(repairing, k.dst)
        ELSE interfaceQueue(drop(neighbor_link_break(h, k.hop), p), k.hop, "IFQ_DROP")

(* The link layer reports a unicast packet it could not deliver.           *)
packetFailed(h, p) ==
    LET k == h.pkt[p]
        q == interfaceQueue(packet_queue_add(h, p, k.dst), k.hop, "IFQ_BUFFER")
        repairing == neighbor_link_break([q EXCEPT !.rt[k.hop].flags = @ \cup {"REPAIR"}], k.hop)
    IN  IF p \in Control THEN drop(h, p)
        ELSE IF k.dst \in h.seek THEN packet_queue_add(h, p, k.dst)
        ELSE IF ~Valid(h, k.hop) \/ ~Valid(h, k.dst)
             THEN interfaceQueue(drop(h, p), k.hop, "IFQ_DROP")
        ELSE IF h.rt[k.dst].next_hop # k.hop THEN drop(h, p)
        ELSE IF h.set.local_repair /\ h.rt[k.dst].hcnt <= MAX_REPAIR_TTL
             THEN rreq_local_repair(repairing, k.dst)
        ELSE interfaceQueue(drop(neighbor_link_break(h, k.hop), p), k.hop, "IFQ_DROP")

(* Without the callback, or for a broadcast, the packet is simply lost.    *)
TransmitFailed(p) ==
    /\ agent.pkt[p].at = "mac"
    /\ agent' = Resume(IF agent.set.llfeedback /\ agent.pkt[p].hop # NULL
                       THEN scheduleNextEvent(packetFailed(agent, p)) ELSE drop(agent, p))

(* The queue is reset at the end of the simulation. *)
Terminate ==
    /\ agent.ifq # <<>>
    /\ agent' = FoldLeft(LAMBDA a, p : drop(a, p), [agent EXCEPT !.ifq = <<>>], agent.ifq)

-----------------------------------------------------------------------------
Next ==
    \/ \E argv \in {"addr", "if-queue", "add-ll", "start"} : command(argv)
    \/ \E p \in Data : recv(p)
    \/ \E n \in Addr : RecvHello(n)
    \/ \E r \in Routes, newer \in BOOLEAN, answer \in {"reply", "forward", "none"} :
            RecvRreq(r, newer, answer)
    \/ \E r \in Routes, inet \in SUBSET agent.set.inet, orig \in (Addr \cup {Self}) :
            orig # r.dest /\ RecvRrep(r, inet, orig)
    \/ \E r \in Routes, nodelete \in BOOLEAN :
            r.dest # r.next_hop /\ RecvRerr(r.next_hop, r.dest, nodelete)
    \/ packet_queue_timeout
    \/ wait_on_reboot_timeout
    \/ hello_send
    \/ \E d \in Dest : route_discovery_timeout(d) \/ route_timeout(d)
    \/ \E n \in Addr : hello_timeout(n)
    \/ \E p \in Packet : PriQueue_recv(p) \/ Transmitted(p) \/ TransmitFailed(p)
    \/ Terminate

(* The simulator runs a pending timer when its time has come: the garbage  *)
(* collector is not put off for ever.                                      *)
Spec == Init /\ [][Next]_agent /\ WF_agent(packet_queue_timeout)

-----------------------------------------------------------------------------
(* The agent's state is well formed: packets that waited too long are      *)
(* never in the buffer, and timers, routes and packets are what the        *)
(* handlers know.                                                          *)
TypeOK == agent \in AODVUU

Occurrences(seq, p) == {i \in DOMAIN seq : seq[i] = p}

(* A packet is in one place at a time: in the buffer or the interface      *)
(* queue exactly once, and never in both, however often a failed link      *)
(* sends it back from one to the other; the link carries one packet, while *)
(* the queue is blocked (packetFailed and interfaceQueue).  And PQ.len is  *)
(* the length of the list: the early returns of packet_queue_set_verdict,  *)
(* which take a packet off the list without counting it, are never taken.  *)
PacketsInOnePlace ==
    LET buffered == [i \in DOMAIN agent.pq |-> agent.pq[i].p] IN
    /\ \A p \in Packet :
        /\ Cardinality(Occurrences(buffered, p)) = IF agent.pkt[p].at = "buffer" THEN 1 ELSE 0
        /\ Cardinality(Occurrences(agent.ifq, p)) = IF agent.pkt[p].at = "ifq" THEN 1 ELSE 0
    /\ Cardinality({p \in Packet : agent.pkt[p].at = "mac"}) = IF agent.blocked THEN 1 ELSE 0
    /\ agent.len = Len(agent.pq) /\ agent.len <= MAX_QUEUE_LENGTH

(* In the interface queue every routing message is ahead of every data     *)
(* packet, so that repairs are not stuck behind what waits for them; and   *)
(* the queue stays below its limit (PriQueue::recvHighPriority).           *)
RoutingFirst ==
    /\ Len(agent.ifq) < qlim
    /\ \A i, j \in DOMAIN agent.ifq :
        agent.ifq[i] \in Control /\ agent.ifq[j] \in Data => i < j

(* A data packet is only handed to the link along a route that is valid    *)
(* once the handler is done, to the next hop of that route, and never with *)
(* its TTL used up, not even one that was taken back and is sent again     *)
(* (processPacket, packet_queue_set_verdict, sendPacket).                  *)
SentOnAValidRoute ==
    [][\A p \in Data :
        LET k == agent'.pkt[p] IN
        agent.pkt[p].at # "ll" /\ k.at = "ll" /\ k.dst # AODV_BROADCAST
            => Valid(agent', k.dst) /\ agent'.rt[k.dst].next_hop = k.hop /\ k.ttl >= 1]_agent

(* When a search ends, by a route or by giving up, no packet for that      *)
(* destination stays behind in the buffer (rt_table_update,                *)
(* route_discovery_timeout).                                               *)
SearchEndsCleanly ==
    [][\A d \in agent.seek \ agent'.seek :
        \A i \in DOMAIN agent'.pq : agent'.pq[i].dest # d]_agent

(* The agent's packet queue keeps the promise of every packet buffer.      *)
Buffer == INSTANCE PacketBuffer
            WITH line <- [i \in DOMAIN agent.pq |-> [id |-> agent.pq[i].p, dest |-> agent.pq[i].dest]]
BuffersInOrder == Buffer!Spec

(* Every packet leaves the buffer in the end, also one that was put there  *)
(* by a failed link with nobody searching for its destination: the garbage *)
(* collector finds it (packet_queue_timeout).                              *)
BufferDrains ==
    \A p \in Data : agent.pkt[p].at = "buffer" ~> agent.pkt[p].at # "buffer"
=============================================================================
