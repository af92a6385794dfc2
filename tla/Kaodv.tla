------------------------------- MODULE Kaodv --------------------------------
(***************************************************************************)
(* The legacy kernel module kaodv (src/kernel): the list of active routes  *)
(* (kaodv-expl.c), the queue of packets that wait for a route              *)
(* (kaodv-queue.c), the netfilter hook that decides about each packet      *)
(* (kaodv-mod.c) and the netlink socket to the daemon (kaodv-netlink.c).   *)
(*                                                                         *)
(* Packets pass the hook on several processors at once, while a daemon's   *)
(* message is handled and while the socket of another one is closed.  What *)
(* is done under one lock is one step, and what is done between two locks  *)
(* can be interleaved with anything.                                       *)
(***************************************************************************)
EXTENDS Integers, Sequences, FiniteSets, SequencesExt

CONSTANTS
    NULL,
    Packets,        \* the packets that pass the host, as model values
    Kinds,          \* what a packet can be: [hook, src, dst, proto, inner, dev]
    IfAddr,         \* the address of the host on its interface
    Broadcasts,     \* broadcast and multicast addresses
    ifname,         \* the interfaces the module is loaded for, in order
    Devices,        \* the interfaces that exist
    Daemons,        \* the process ids of daemons
    Messages,       \* what the daemons send
    MayFail,        \* {FALSE}, or BOOLEAN when allocation and set-up may fail
    EXPL_MAX_LEN,   \* places in the list of routes
    MaxLens,        \* values of queue_maxlen, the places in the queue
    MTU,            \* MTU of an interface before the module is loaded
    MIN_IP_ENCAP_SIZE,
    JIFFIES_MOD,    \* where the jiffies wrap around
    MaxTicks,       \* bound: ticks of the clock
    MaxMessages,    \* bound: messages the daemons send
    MaxLoads        \* bound: times the module is inserted

(* The hooks, in the order in which they are registered *)
kaodv_ops == <<"PRE_ROUTING", "LOCAL_OUT", "POST_ROUTING">>

(* Message types, from the daemon and to it.  KAODVM_ROUTE_UPDATE and      *)
(* KAODVM_DEBUG change nothing here; KAODVM_TIMEOUT is never sent.         *)
KAODVM == [from |-> {"ADDROUTE", "DELROUTE", "NOROUTE_FOUND", "CONFIG"},
           to |-> {"ROUTE_REQ", "REPAIR", "SEND_RERR"}]

(* struct kaodv_rt_msg and struct kaodv_conf_msg, from a daemon.  The      *)
(* module answers any other type with -EINVAL.                             *)
RtMsg(m) ==
    /\ m.type \in KAODVM.from \ {"CONFIG"}
    /\ m.type = "ADDROUTE" => m.flags \subseteq {"GW_ENCAP", "REPAIR"} /\ m.time \in Nat
ConfMsg(m) == m.type = "CONFIG" /\ m.active_route_timeout \in Nat /\ m.is_gateway \in BOOLEAN

ASSUME KaodvAssumption ==
    /\ \A m \in Messages : RtMsg(m) \/ ConfMsg(m)
    /\ EXPL_MAX_LEN \in Nat /\ MaxLens \subseteq Nat
    /\ MTU \in Nat /\ MIN_IP_ENCAP_SIZE \in 0 .. MTU
    /\ JIFFIES_MOD \in Nat \ {0}
    /\ \A k \in Kinds : k.hook \in ToSet(kaodv_ops)
    /\ ifname \in Seq(ToSet(ifname))
    /\ NULL \notin Packets \cup Daemons \cup {"accept", "classify", "encapsulate"}

VARIABLES
    expl,      \* [list |-> expl_head, len |-> expl_len]
    queue,     \* [list |-> queue_list from its tail, total |-> queue_total, maxlen]
    skb,       \* each packet, and the state of the hook that runs for it
    nl,        \* the handling of a daemon's message
    peer_pid,  \* the daemon the module listens to
    socks,     \* daemons with an open netlink socket
    closing,   \* what kaodv_netlink_rcv_nl_event() still has to flush for a daemon
    conf,      \* [active_route_timeout, is_gateway]
    module,    \* [phase, hooks, proc, ifi, mtu, named]: what is set up
    told,      \* history: [type, dst] of what was sent to the daemon, or {NULL}
               \* once the memory for a message could not be had
    ticks, messages, loads

vars == <<expl, queue, skb, nl, peer_pid, socks, closing, conf, module, told,
          ticks, messages, loads>>
bounds == <<ticks, messages, loads>>

(* queue_list, queue_total and queue_maxlen *)
EmptyQueue(n) == [list |-> <<>>, total |-> 0, maxlen |-> n]

(* The values a freshly inserted module starts with *)
InitialConf == [active_route_timeout |-> 1, is_gateway |-> TRUE]
Idle == [pc |-> "idle", pid |-> NULL, msg |-> NULL, entry |-> NULL]

Init ==
    /\ expl = [list |-> <<>>, len |-> 0]
    /\ \E n \in MaxLens : queue = EmptyQueue(n)
    /\ \E kind \in [Packets -> Kinds] :
         skb = [p \in Packets |->
                 [pc |-> "arrives", hook |-> kind[p].hook, src |-> kind[p].src,
                  dst |-> kind[p].dst, proto |-> kind[p].proto, inner |-> kind[p].inner,
                  dev |-> kind[p].dev, then |-> NULL, todo |-> <<>>, r |-> NULL, e |-> NULL]]
    /\ nl = Idle
    /\ peer_pid = NULL /\ socks = {} /\ closing = [d \in Daemons |-> "no"]
    /\ conf = InitialConf
    /\ module = [phase |-> "out", hooks |-> {}, proc |-> {}, ifi |-> <<>>,
                 mtu |-> [d \in ToSet(ifname) |-> MTU], named |-> 0]
    /\ told = {}
    /\ ticks = 0 /\ messages = 0 /\ loads = 0

-----------------------------------------------------------------------------
(* kaodv-expl.c: operators on the list of routes x = [list, len]           *)

jiffies == ticks % JIFFIES_MOD
Expires(time) == (jiffies + time) % JIFFIES_MOD

(* __kaodv_expl_find() *)
Place(x, daddr) == SelectInSeq(x.list, LAMBDA e : e.daddr = daddr)
HasRoute(x, daddr) == Place(x, daddr) # 0

(* kaodv_expl_get(): a copy of the entry, or NULL *)
kaodv_expl_get(daddr) == IF HasRoute(expl, daddr) THEN expl.list[Place(expl, daddr)] ELSE NULL

(* The bug of putting every entry first. *)
expl_insert_first(x, e) ==
    IF x.len >= EXPL_MAX_LEN THEN x ELSE [x EXCEPT !.list = <<e>> \o @]

(* __kaodv_expl_add(): before the first entry that expires later *)
expl_insert(x, e) ==
    LET later == SelectInSeq(x.list, LAMBDA f : f.expires > e.expires)
        i == IF later = 0 THEN Len(x.list) + 1 ELSE later
    IN  IF x.len >= EXPL_MAX_LEN THEN x ELSE [x EXCEPT !.list = InsertAt(@, i, e)]

(* The bug of a route that is not counted. *)
kaodv_expl_add_uncounted(x, e) == expl_insert(x, e)

(* kaodv_expl_add() from its lock on: a list that is full is counted, too *)
kaodv_expl_add(x, e) == [expl_insert(x, e) EXCEPT !.len = @ + 1]

(* kaodv_expl_del() *)
kaodv_expl_del(x, daddr) ==
    IF HasRoute(x, daddr)
    THEN [list |-> RemoveAt(x.list, Place(x, daddr)), len |-> x.len - 1]
    ELSE x

(* kaodv_expl_update(): out of the list, and in again if the count allows *)
kaodv_expl_update(x, e) ==
    IF HasRoute(x, e.daddr)
    THEN expl_insert([x EXCEPT !.list = RemoveAt(@, Place(x, e.daddr))], e)
    ELSE x

(* __kaodv_expl_flush() counts every entry down; the other one takes the   *)
(* lock for it.                                                            *)
expl_flush(x) == [list |-> <<>>, len |-> x.len - Len(x.list)]
kaodv_expl_flush(x) == expl_flush(x)

(* kaodv_expl_init() and kaodv_expl_fini() *)
kaodv_expl_init(x) == [x EXCEPT !.len = 0]
kaodv_expl_fini(x) == expl_flush(x)

(* kaodv_expl_print(): what /proc/net/kaodv_expl shows *)
kaodv_expl_print == [total |-> expl.len, addrs |-> [i \in DOMAIN expl.list |-> expl.list[i].daddr]]

-----------------------------------------------------------------------------
(* kaodv-queue.c: operators on the queue and on the packets                *)

(* kaodv_netlink_build_msg(), which may find no memory for the message *)
kaodv_netlink_build_msg(type, dst) ==
    {IF fails THEN NULL ELSE [type |-> type, dst |-> dst] : fails \in MayFail}

Told(m) == told' = IF NULL \in told \cup {m} THEN {NULL} ELSE told \cup {m}

(* kaodv_netlink_send_rt_msg() and kaodv_netlink_send_rerr_msg(): nobody   *)
(* learns of a message that was not built.                                 *)
kaodv_netlink_send_rt_msg(type, dst) ==
    \E m \in kaodv_netlink_build_msg(type, dst) : Told(m)
kaodv_netlink_send_rerr_msg(dst) ==
    \E m \in kaodv_netlink_build_msg("SEND_RERR", dst) : Told(m)

(* __kaodv_queue_find_entry() with dest_cmp(): the packet that waits longest *)
Waiting(daddr) == SelectInSeq(queue.list, LAMBDA p : skb[p].dst = daddr)

(* The bug of taking the wrong end of the list. *)
queue_enqueue_entry_front(p) ==
    IF queue.total >= queue.maxlen THEN queue
    ELSE [queue EXCEPT !.list = <<p>> \o @, !.total = @ + 1]

(* __kaodv_queue_enqueue_entry() *)
queue_enqueue_entry(p) ==
    IF queue.total >= queue.maxlen THEN queue
    ELSE [queue EXCEPT !.list = Append(@, p), !.total = @ + 1]

(* __kaodv_queue_find_dequeue_entry() *)
queue_dequeue_entry(i) == [queue EXCEPT !.list = RemoveAt(@, i), !.total = @ - 1]

(* The bug of an emptied list whose packets are not freed. *)
kaodv_queue_flush_leak ==
    /\ queue' = [queue EXCEPT !.list = <<>>, !.total = @ - Len(queue.list)]
    /\ UNCHANGED skb

(* kaodv_queue_flush(): every packet is freed. *)
kaodv_queue_flush ==
    /\ queue' = [queue EXCEPT !.list = <<>>, !.total = @ - Len(queue.list)]
    /\ skb' = [p \in Packets |-> IF p \in ToSet(queue.list) THEN [skb[p] EXCEPT !.pc = "freed"] ELSE skb[p]]

(* kaodv_queue_init(), and kaodv_queue_fini(), which waits for the packets *)
(* in flight and frees those that are queued.                              *)
kaodv_queue_init == queue' = [queue EXCEPT !.total = 0]
kaodv_queue_fini == kaodv_queue_flush

(* kaodv_queue_get_info(): what /proc/net/kaodv_queue shows *)
kaodv_queue_get_info == [length |-> queue.total, maxlen |-> queue.maxlen]

(* ip_pkt_encapsulate() and ip_pkt_decapsulate() *)
ip_pkt_encapsulate(s, gw) ==
    [s EXCEPT !.inner = [dst |-> s.dst, proto |-> s.proto], !.dst = gw, !.proto = "mipe"]
ip_pkt_decapsulate(s) == [s EXCEPT !.dst = s.inner.dst, !.proto = s.inner.proto, !.inner = NULL]

(* NF_ACCEPT, and okfn(): the packet is out of this hook's hands.  The next *)
(* hook on its way sees it as a packet of its own.                         *)
Accept(s) == [s EXCEPT !.pc = "passed", !.then = NULL, !.todo = <<>>, !.r = NULL, !.e = NULL]

-----------------------------------------------------------------------------
(* kaodv-mod.c: the hook, run for packet p                                 *)

(* if_info_from_ifindex() *)
KnownIf(dev) == \E i \in DOMAIN module.ifi : module.ifi[i].dev = dev

(* kaodv_update_route_timeouts() refreshes the routes to the destination   *)
(* and to the source, and after each the route to its next hop, if that is *)
(* another node.                                                           *)
Refresh(s, then) ==
    [s EXCEPT !.pc = "get", !.then = then,
              !.todo = <<[addr |-> s.dst, hop |-> FALSE], [addr |-> s.src, hop |-> FALSE]>>]

(* kaodv_hook() up to its first use of a lock, and its early returns *)
kaodv_hook(p) ==
    LET s == skb[p]
        known == KnownIf(s.dev)
        aodv == s.proto = "aodv"
        ignored == ~known \/ IF aodv THEN s.hook # "PRE_ROUTING" ELSE s.dst \in Broadcasts
    IN  /\ s.pc = "arrives" /\ s.hook \in module.hooks
        /\ skb' = [skb EXCEPT ![p] =
             IF ignored THEN Accept(s)
             ELSE CASE s.hook = "LOCAL_OUT" -> [s EXCEPT !.pc = "lookup"]
                    [] s.hook = "PRE_ROUTING" /\ ~aodv -> Refresh(s, "classify")
                    [] OTHER -> Refresh(s, "accept")]
        /\ UNCHANGED <<expl, queue, nl, peer_pid, socks, closing, conf, module, told, bounds>>

Continue(s, todo) ==
    CASE todo # <<>> -> [s EXCEPT !.pc = "get", !.todo = todo, !.r = NULL]
      [] todo = <<>> /\ s.then = "accept" -> Accept(s)
      [] OTHER -> [s EXCEPT !.pc = s.then, !.then = NULL, !.todo = <<>>, !.r = NULL]

(* kaodv_expl_get() of the next address to refresh, under the read lock *)
RefreshGet(p) ==
    LET s == skb[p]
        r == kaodv_expl_get(Head(s.todo).addr)
    IN  /\ s.pc = "get"
        /\ skb' = [skb EXCEPT ![p] = IF r = NULL THEN Continue(s, Tail(s.todo))
                                     ELSE [s EXCEPT !.pc = "update", !.r = r]]
        /\ UNCHANGED <<expl, queue, nl, peer_pid, socks, closing, conf, module, told, bounds>>

(* kaodv_expl_update() with that copy, under the write lock *)
RefreshUpdate(p) ==
    LET s == skb[p]
        hop == ~Head(s.todo).hop /\ s.r.nhop # s.r.daddr
    IN  /\ s.pc = "update"
        /\ expl' = kaodv_expl_update(expl,
                     [s.r EXCEPT !.expires = Expires(conf.active_route_timeout)])
        /\ skb' = [skb EXCEPT ![p] =
             Continue(s, (IF hop THEN <<[addr |-> s.r.nhop, hop |-> TRUE]>> ELSE <<>>)
                         \o Tail(s.todo))]
        /\ UNCHANGED <<queue, nl, peer_pid, socks, closing, conf, module, told, bounds>>

(* PRE_ROUTING: decapsulate, deliver, report, repair or let pass *)
Classify(p) ==
    LET s == skb[p]
        e == kaodv_expl_get(s.dst)
        decap == conf.is_gateway /\ s.proto = "mipe" /\ s.dst = IfAddr
        mine == IfAddr \in {s.src, s.dst}
        repair == e # NULL /\ "REPAIR" \in e.flags
    IN  /\ s.pc = "classify"
        /\ skb' = [skb EXCEPT ![p] = CASE decap -> Accept(ip_pkt_decapsulate(s))
                                       [] mine /\ ~decap -> Accept(s)
                                       [] ~mine /\ e = NULL -> [s EXCEPT !.pc = "dropped"]
                                       [] ~mine /\ repair -> [s EXCEPT !.pc = "enqueue"]
                                       [] OTHER -> Accept(s)]
        /\ CASE ~mine /\ e = NULL /\ ~decap -> kaodv_netlink_send_rerr_msg(s.dst)
             [] ~mine /\ repair -> kaodv_netlink_send_rt_msg("REPAIR", s.dst)
             [] OTHER -> UNCHANGED told
        /\ UNCHANGED <<expl, queue, nl, peer_pid, socks, closing, conf, module, bounds>>

(* LOCAL_OUT: the route of a packet of this host *)
LookUp(p) ==
    LET s == skb[p]
        e == kaodv_expl_get(s.dst)
    IN  /\ s.pc = "lookup"
        /\ skb' = [skb EXCEPT ![p] =
             CASE e = NULL -> [s EXCEPT !.pc = "find"]
               [] e # NULL /\ "REPAIR" \in e.flags -> [s EXCEPT !.pc = "find"]
               [] e # NULL /\ e.flags = {"GW_ENCAP"} -> Refresh([s EXCEPT !.e = e], "encapsulate")
               [] OTHER -> Accept(s)]
        /\ UNCHANGED <<expl, queue, nl, peer_pid, socks, closing, conf, module, told, bounds>>

(* The bug of the test inverted. *)
FindQueued_inverted(p) ==
    /\ skb[p].pc = "find"
    /\ skb' = [skb EXCEPT ![p].pc = "enqueue"]
    /\ IF Waiting(skb[p].dst) # 0 THEN kaodv_netlink_send_rt_msg("ROUTE_REQ", skb[p].dst) ELSE UNCHANGED told
    /\ UNCHANGED <<expl, queue, nl, peer_pid, socks, closing, conf, module, bounds>>

(* kaodv_queue_find(), and a request unless some packet waits already *)
FindQueued(p) ==
    /\ skb[p].pc = "find"
    /\ skb' = [skb EXCEPT ![p].pc = "enqueue"]
    /\ IF Waiting(skb[p].dst) = 0 THEN kaodv_netlink_send_rt_msg("ROUTE_REQ", skb[p].dst) ELSE UNCHANGED told
    /\ UNCHANGED <<expl, queue, nl, peer_pid, socks, closing, conf, module, bounds>>

(* kaodv_queue_enqueue_packet(), whose result kaodv_hook() does not use:   *)
(* it returns NF_STOLEN for a packet that nobody holds, too.               *)
kaodv_queue_enqueue_packet(p) ==
    /\ skb[p].pc = "enqueue"
    /\ \E fails \in MayFail :
         LET q == IF fails THEN queue ELSE queue_enqueue_entry(p) IN
         /\ queue' = q
         /\ skb' = [skb EXCEPT ![p].pc = IF q = queue THEN "lost" ELSE "held"]
    /\ UNCHANGED <<expl, nl, peer_pid, socks, closing, conf, module, told, bounds>>

(* LOCAL_OUT: ip_pkt_encapsulate(), which frees a packet it cannot copy *)
Encapsulate(p) ==
    /\ skb[p].pc = "encapsulate"
    /\ \E fails \in MayFail :
         skb' = [skb EXCEPT ![p] = IF fails THEN [@ EXCEPT !.pc = "freed"]
                                   ELSE Accept(ip_pkt_encapsulate(@, @.e.nhop))]
    /\ UNCHANGED <<expl, queue, nl, peer_pid, socks, closing, conf, module, told, bounds>>

HookStep(p) ==
    \/ kaodv_hook(p) \/ RefreshGet(p) \/ RefreshUpdate(p) \/ Classify(p)
    \/ LookUp(p) \/ FindQueued(p) \/ kaodv_queue_enqueue_packet(p) \/ Encapsulate(p)

-----------------------------------------------------------------------------
(* kaodv-netlink.c: the messages of a daemon                               *)

(* The bug of listening to everyone. *)
Refused_never(d) == FALSE

(* The test of kaodv_netlink_rcv_skb(): another daemon is the peer. *)
Refused(d) == peer_pid # NULL /\ peer_pid # d

(* kaodv_netlink_receive_peer() up to its first unlock *)
kaodv_netlink_receive_peer(d, m) ==
    /\ nl' = CASE m.type = "ADDROUTE" ->
                     [Idle EXCEPT !.pc = IF HasRoute(expl, m.dst) THEN "send" ELSE "add",
                                  !.pid = d, !.msg = m]
              [] m.type \in {"DELROUTE", "NOROUTE_FOUND"} ->
                     [Idle EXCEPT !.pc = "drop", !.pid = d, !.msg = m]
              [] m.type = "CONFIG" -> Idle
    /\ expl' = IF m.type = "DELROUTE" THEN kaodv_expl_del(expl, m.dst) ELSE expl
    /\ conf' = IF m.type = "CONFIG"
               THEN [active_route_timeout |-> m.active_route_timeout,
                     is_gateway |-> m.is_gateway]
               ELSE conf

(* kaodv_netlink_rcv_skb(): the first daemon that sends becomes the peer.  *)
(* One message is handled at a time.                                       *)
kaodv_netlink_rcv_skb(d, m) ==
    /\ d \in socks /\ nl = Idle /\ messages < MaxMessages
    /\ messages' = messages + 1
    /\ IF Refused(d) THEN UNCHANGED <<nl, peer_pid, expl, conf>>
       ELSE peer_pid' = d /\ kaodv_netlink_receive_peer(d, m)
    /\ UNCHANGED <<queue, skb, socks, closing, module, told, ticks, loads>>

(* The rest of kaodv_expl_add(): kmalloc(), and the write lock *)
AddRoute ==
    LET m == nl.msg IN
    /\ nl.pc = "add"
    /\ nl' = [nl EXCEPT !.pc = "send"]
    /\ \E fails \in MayFail :
         expl' = IF fails THEN expl
                 ELSE kaodv_expl_add(expl, [daddr |-> m.dst, nhop |-> m.nhop, flags |-> m.flags,
                                            expires |-> Expires(m.time)])
    /\ UNCHANGED <<queue, skb, peer_pid, socks, closing, conf, module, told, bounds>>

(* kaodv_queue_set_verdict(): one turn of the loop takes a packet out, and *)
(* KAODV_QUEUE_DROP frees it in the same turn.                             *)
VerdictDequeue ==
    LET i == Waiting(nl.msg.dst) IN
    /\ nl.pc \in {"send", "drop"}
    /\ IF i = 0 THEN nl' = Idle /\ UNCHANGED <<queue, skb>>
       ELSE /\ queue' = queue_dequeue_entry(i)
            /\ IF nl.pc = "send"
               THEN /\ nl' = [nl EXCEPT !.pc = "route", !.entry = queue.list[i]]
                    /\ skb' = [skb EXCEPT ![queue.list[i]].pc = "leaving"]
               ELSE /\ skb' = [skb EXCEPT ![queue.list[i]].pc = "freed"]
                    /\ UNCHANGED nl
    /\ UNCHANGED <<expl, peer_pid, socks, closing, conf, module, told, bounds>>

(* The rest of a turn for KAODV_QUEUE_SEND: the packet is freed without a  *)
(* route, encapsulated if its route says so, and injected.                 *)
VerdictSend ==
    LET p == nl.entry
        e == kaodv_expl_get(nl.msg.dst)
        encap == e # NULL /\ "GW_ENCAP" \in e.flags
    IN  /\ nl.pc = "route"
        /\ \E fails \in MayFail :
             skb' = [skb EXCEPT ![p] =
               CASE e = NULL \/ (encap /\ fails) -> [@ EXCEPT !.pc = "freed"]
                 [] encap /\ ~fails -> Accept(ip_pkt_encapsulate(@, e.nhop))
                 [] OTHER -> Accept(@)]
        /\ nl' = [nl EXCEPT !.pc = "send", !.entry = NULL]
        /\ UNCHANGED <<expl, queue, peer_pid, socks, closing, conf, module, told, bounds>>

(* A daemon opens its netlink socket: external, the daemon's part. *)
Open(d) ==
    /\ module.phase = "in"
    /\ d \notin socks /\ closing[d] = "no"
    /\ socks' = socks \cup {d}
    /\ UNCHANGED <<expl, queue, skb, nl, peer_pid, closing, conf, module, told, bounds>>

(* A daemon ends, and kaodv_netlink_rcv_nl_event() learns of it. *)
kaodv_netlink_rcv_nl_event(d) ==
    /\ d \in socks /\ nl.pid # d
    /\ socks' = socks \ {d}
    /\ IF d = peer_pid THEN peer_pid' = NULL /\ closing' = [closing EXCEPT ![d] = "expl"]
                       ELSE UNCHANGED <<peer_pid, closing>>
    /\ UNCHANGED <<expl, queue, skb, nl, conf, module, told, bounds>>

(* The rest of kaodv_netlink_rcv_nl_event(): the routes, then the packets *)
PeerFlushRoutes(d) ==
    /\ closing[d] = "expl"
    /\ closing' = [closing EXCEPT ![d] = "queue"]
    /\ expl' = kaodv_expl_flush(expl)
    /\ UNCHANGED <<queue, skb, nl, peer_pid, socks, conf, module, told, bounds>>
PeerFlushQueue(d) ==
    /\ closing[d] = "queue"
    /\ closing' = [closing EXCEPT ![d] = "no"]
    /\ kaodv_queue_flush
    /\ UNCHANGED <<expl, nl, peer_pid, socks, conf, module, told, bounds>>

-----------------------------------------------------------------------------
(* Inserting and removing the module                                       *)

(* The clean-up of kaodv_init(), from the step that failed: hooks, netlink *)
(* socket and queue are undone.  kaodv_expl_fini() is not called.          *)
LoadFailed ==
    /\ module' = [module EXCEPT !.phase = "out", !.hooks = {}, !.proc = @ \ {"kaodv_queue"}]
    /\ kaodv_queue_fini

(* kaodv_init() up to kaodv_queue_init(), which may fail *)
LoadTables ==
    /\ module.phase = "out" /\ loads < MaxLoads
    /\ loads' = loads + 1
    /\ expl' = kaodv_expl_init(expl)
    /\ kaodv_queue_init
    /\ conf' = InitialConf
    /\ \E fails \in MayFail :
         module' = IF fails THEN [module EXCEPT !.proc = @ \cup {"kaodv_expl"}]
                   ELSE [module EXCEPT !.phase = "tables", !.proc = @ \cup {"kaodv_expl", "kaodv_queue"}]
    /\ UNCHANGED <<skb, nl, peer_pid, socks, closing, told, ticks, messages>>

(* kaodv_netlink_init() *)
LoadNetlink ==
    /\ module.phase = "tables"
    /\ \E fails \in MayFail :
         IF fails THEN LoadFailed
         ELSE module' = [module EXCEPT !.phase = "netlink"] /\ UNCHANGED <<queue, skb>>
    /\ UNCHANGED <<expl, nl, peer_pid, socks, closing, conf, told, bounds>>

(* nf_register_hook() of the next of kaodv_ops *)
LoadHook ==
    LET n == Cardinality(module.hooks) + 1 IN
    /\ module.phase = "netlink"
    /\ \E fails \in MayFail :
         IF fails THEN LoadFailed
         ELSE /\ module' = [module EXCEPT !.hooks = @ \cup {kaodv_ops[n]},
                                          !.phase = IF n = 3 THEN "hooks" ELSE @]
              /\ UNCHANGED <<queue, skb>>
    /\ UNCHANGED <<expl, nl, peer_pid, socks, closing, conf, told, bounds>>

(* if_info_add(): room for the encapsulation header, and first in the list *)
if_info_add(m, dev) ==
    [m EXCEPT !.ifi = <<[dev |-> dev, orig_mtu |-> m.mtu[dev]]>> \o @,
              !.mtu[dev] = @ - MIN_IP_ENCAP_SIZE]

(* The next name of ifname, which is ignored if there is no such device,   *)
(* and after the last the entry kaodv in /proc                             *)
LoadInterface ==
    LET n == module.named + 1 IN
    /\ module.phase = "hooks"
    /\ IF n > Len(ifname)
       THEN module' = [module EXCEPT !.phase = "in", !.proc = @ \cup {"kaodv"}]
       ELSE module' = [(IF ifname[n] \in Devices THEN if_info_add(module, ifname[n]) ELSE module)
                       EXCEPT !.named = n]
    /\ UNCHANGED <<expl, queue, skb, nl, peer_pid, socks, closing, conf, told, bounds>>

(* The list emptied, and each interface with the MTU of its entry at[dev]. *)
Restored(m, at) ==
    [m EXCEPT !.ifi = <<>>, !.mtu = [dev \in DOMAIN @ |->
        IF at[dev] = 0 THEN @[dev] ELSE m.ifi[at[dev]].orig_mtu]]

(* The bug of a list walked from its other end. *)
if_info_purge_back(m) ==
    Restored(m, [dev \in DOMAIN m.mtu |-> SelectInSeq(m.ifi, LAMBDA i : i.dev = dev)])

(* if_info_purge() walks the list from its head and gives every interface  *)
(* the MTU of the entry: the last entry of an interface decides.           *)
if_info_purge(m) ==
    Restored(m, [dev \in DOMAIN m.mtu |-> SelectLastInSeq(m.ifi, LAMBDA i : i.dev = dev)])

(* kaodv_exit() first forgets the interfaces.  An open socket of a daemon  *)
(* keeps the module in the kernel.                                         *)
UnloadInterfaces ==
    /\ module.phase = "in" /\ socks = {} /\ \A d \in Daemons : closing[d] = "no"
    /\ module' = [if_info_purge(module) EXCEPT !.phase = "purged", !.named = 0]
    /\ UNCHANGED <<expl, queue, skb, nl, peer_pid, socks, closing, conf, told, bounds>>

InHook(p) == skb[p].pc \in {"get", "update", "classify", "lookup", "find", "enqueue", "encapsulate"}

(* nf_unregister_hook() waits for the hooks that are running. *)
UnloadHooks ==
    /\ module.phase = "purged" /\ ~\E p \in Packets : InHook(p)
    /\ module' = [module EXCEPT !.phase = "unhooked", !.hooks = {}, !.proc = @ \ {"kaodv"}]
    /\ UNCHANGED <<expl, queue, skb, nl, peer_pid, socks, closing, conf, told, bounds>>

(* kaodv_queue_fini(), kaodv_expl_fini() and kaodv_netlink_fini() *)
UnloadTables ==
    /\ module.phase = "unhooked"
    /\ module' = [module EXCEPT !.phase = "out", !.proc = @ \ {"kaodv_expl", "kaodv_queue"}]
    /\ kaodv_queue_fini
    /\ expl' = kaodv_expl_fini(expl)
    /\ UNCHANGED <<nl, peer_pid, socks, closing, conf, told, bounds>>

Tick ==
    /\ ticks < MaxTicks
    /\ ticks' = ticks + 1
    /\ UNCHANGED <<expl, queue, skb, nl, peer_pid, socks, closing, conf, module, told, messages, loads>>

Next ==
    \/ \E p \in Packets : HookStep(p)
    \/ \E d \in Daemons : \/ \E m \in Messages : kaodv_netlink_rcv_skb(d, m)
                          \/ Open(d) \/ kaodv_netlink_rcv_nl_event(d)
                          \/ PeerFlushRoutes(d) \/ PeerFlushQueue(d)
    \/ AddRoute \/ VerdictDequeue \/ VerdictSend
    \/ LoadTables \/ LoadNetlink \/ LoadHook \/ LoadInterface
    \/ UnloadInterfaces \/ UnloadHooks \/ UnloadTables
    \/ Tick

Spec == Init /\ [][Next]_vars

-----------------------------------------------------------------------------
(* Properties                                                              *)

(* __kaodv_expl_add() keeps the list in the order of its expiry times, as  *)
(* numbers of jiffies, which wrap around, and kaodv_expl_add(), which      *)
(* looks for the destination and allocates before it takes the lock, never *)
(* lists a destination twice, however the refreshes of passing packets,    *)
(* the deletions and the flush for a daemon that ended are interleaved     *)
(* with it.                                                                *)
RoutesInOrder ==
    \A i, j \in DOMAIN expl.list :
        i < j => /\ expl.list[i].expires <= expl.list[j].expires
                 /\ expl.list[i].daddr # expl.list[j].daddr

(* The counters never fall behind the lists they count: expl_len, which is *)
(* unsigned and is also counted up for a route that found no place and not *)
(* down for one that kaodv_expl_update() loses, never gets below the       *)
(* number of routes shown in /proc, and the queue length that /proc shows  *)
(* is the number of packets queued, never more than queue_maxlen allows.   *)
(* A counter below the length would wrap around at the next flush and      *)
(* close the list for ever.                                                *)
CountersCoverTheLists ==
    /\ Len(kaodv_expl_print.addrs) <= kaodv_expl_print.total
    /\ Len(kaodv_expl_print.addrs) <= EXPL_MAX_LEN
    /\ kaodv_queue_get_info.length = Len(queue.list)
    /\ Len(queue.list) <= queue.maxlen

(* A packet that the hook has put into the queue is in it, once, until the *)
(* verdict on its destination, the end of the daemon or the end of the     *)
(* module takes it out: no packet in the queue has been sent or freed.     *)
HeldIsQueued ==
    /\ \A p \in Packets : skb[p].pc = "held" <=> p \in ToSet(queue.list)
    /\ Cardinality(ToSet(queue.list)) = Len(queue.list)
    /\ \A p \in Packets : skb[p].pc = "leaving" <=> nl.entry = p

(* The daemon has been asked about the destination of every packet in the  *)
(* queue: a packet that kaodv_hook() queues without asking, because        *)
(* kaodv_queue_find() saw another one waiting, rests on the request or the *)
(* repair that was sent for that one.  It holds as long as every message   *)
(* could be built: after one that could not, packets are queued for a      *)
(* destination that nobody was asked about.                                *)
HeldWasAskedFor ==
    NULL \notin told =>
        \A p \in Packets : skb[p].pc = "held" =>
            \E m \in told : m.type \in {"ROUTE_REQ", "REPAIR"} /\ m.dst = skb[p].dst

(* When the module is out of the kernel, or its loading has failed, no     *)
(* hook is registered, no packet waits, no route is left, no packet is in  *)
(* the code of the hook, and every interface has its old MTU, also one     *)
(* that was named twice in ifname.                                         *)
GoneWithoutTrace ==
    module.phase = "out" =>
        /\ module.hooks = {} /\ queue.list = <<>> /\ expl.list = <<>>
        /\ \A p \in Packets : ~InHook(p) /\ skb[p].pc \notin {"held", "leaving"}
        /\ \A d \in ToSet(ifname) : module.mtu[d] = MTU

Routed(x) == {x.list[i].daddr : i \in DOMAIN x.list}

(* A daemon stays the peer as long as its socket is open, and routes come  *)
(* into the list only on the word of the peer, also when a second daemon   *)
(* starts while the first is running, or while the tables are flushed for  *)
(* the one that ended.                                                     *)
OnlyThePeerAdds ==
    [][/\ peer_pid # NULL /\ peer_pid \in socks' => peer_pid' = peer_pid
       /\ Routed(expl') \subseteq Routed(expl) \/ (peer_pid # NULL /\ nl.pid = peer_pid)]_vars

(* The queue of the module is a packet buffer. *)
Buffer == INSTANCE PacketBuffer WITH
    line <- [i \in DOMAIN queue.list |-> [id |-> queue.list[i], dest |-> skb[queue.list[i]].dst]]
BuffersInOrder == Buffer!Spec
=============================================================================
