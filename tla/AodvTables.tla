----------------------------- MODULE AodvTables -----------------------------
(***************************************************************************)
(* The state of one daemon and the functions that keep it: the routing     *)
(* table (routing_table.c), the seek list (seek_list.c), the packet buffer *)
(* (packet_queue.c), the requests to the kernel (nl.c, nfqueue.c) and the  *)
(* send half of the AODV socket (aodv_socket.c).                           *)
(*                                                                         *)
(* The daemon is one thread that runs one handler at a time to completion. *)
(* Each C function is an operator that takes the state h of the daemon and *)
(* returns the state the function leaves; a pointer to an entry of a table *)
(* is the address the entry is for.  Timers are the flags that say they    *)
(* are armed: how long they run is left open, so whatever may expire first *)
(* does so in some behaviour.                                              *)
(***************************************************************************)
EXTENDS Integers, FiniteSets

CONSTANTS Addr,              \* addresses of the nodes
          BROADCAST,         \* AODV_BROADCAST
          NULL,              \* a pointer to nothing
          PktId,             \* identifiers NFQUEUE gives to packets
          SEQNO_MAX,         \* largest sequence number, 0xFFFFFFFF in the code
          RREQ_ID_MAX,       \* largest RREQ identifier, 0xFFFFFFFF in the code
          HCNT_MAX,          \* largest hop count, 255 in the code
          MAX_QUEUE_LENGTH,  \* packets the buffer holds
          MAX_REPAIR_TTL     \* longest route that is repaired locally

ASSUME TablesAssumption ==
    /\ BROADCAST \notin Addr
    /\ NULL \notin Addr
    /\ SEQNO_MAX \in Nat \ {0}
    /\ RREQ_ID_MAX \in Nat
    /\ HCNT_MAX \in Nat \ {0}
    /\ MAX_QUEUE_LENGTH \in Nat \ {0}
    /\ MAX_REPAIR_TTL \in Nat

Seqno == 0 .. SEQNO_MAX
Hcnt == 0 .. HCNT_MAX

(* The bug of counting past the width of the number. *)
seqno_incr_wide(s) == s + 1

(* seqno_incr(): 0 means unknown and stays, the largest wraps to 1. *)
seqno_incr(s) == IF s = 0 THEN 0 ELSE IF s = SEQNO_MAX THEN 1 ELSE s + 1

(* (int32_t) s *)
int32(s) == IF s > SEQNO_MAX \div 2 THEN s - (SEQNO_MAX + 1) ELSE s

(* An assignment to a u_int8_t hop count. *)
u_int8(n) == n % (HCNT_MAX + 1)

(* struct rt_table *)
Entry == [state       : {"VALID", "INVALID"},
          flags       : SUBSET {"UNIDIR", "REPAIR"},
          hcnt        : Hcnt,
          dest_seqno  : Seqno,
          next_hop    : Addr,
          precursors  : SUBSET Addr,
          handler     : {"expire", "delete", "repair"},
          rt_timer    : BOOLEAN,
          ack_timer   : BOOLEAN,
          hello_timer : BOOLEAN,
          hello_cnt   : Nat]

(* struct seek_list; its timer is armed as long as the entry exists *)
Seek == [dest_seqno : Seqno, ttl : Nat, reqs : Nat, flags : SUBSET {"GRATUITOUS"}]

(* A pointer to nothing is no entry. *)
ASSUME NullAssumption == NULL \notin Entry \cup Seek

(* A buffered packet (struct q_pkt); n is its place in the list. *)
QPkt == [packet_id : PktId, dest_addr : Addr, n : Int]

(* A route of the kernel's main table. *)
KernelRoute == [dst : Addr, gw : Addr, metric : Hcnt]

(* The messages, less their lengths.  `neighbors' is the extension of a    *)
(* HELLO, which is a RREP; a lifetime is 1 unless it is 0.                 *)
RREQ == [type : {"RREQ"}, rreq_id : 0 .. RREQ_ID_MAX, dest_addr : Addr, dest_seqno : Seqno,
         orig_addr : Addr, orig_seqno : Seqno, hcnt : Hcnt, g : BOOLEAN, d : BOOLEAN]
RREP == [type : {"RREP"}, dest_addr : Addr, dest_seqno : Seqno, orig_addr : Addr,
         hcnt : Hcnt, lifetime : {0, 1}, a : BOOLEAN, neighbors : SUBSET Addr]
RERR == [type : {"RERR"}, n : BOOLEAN, udests : SUBSET [addr : Addr, seqno : Seqno]]
RREP_ack == [type : {"RREP_ACK"}]
Message == RREQ \cup RREP \cup RERR \cup RREP_ack

Verdict == [packet_id : PktId, dest_addr : Addr,
            verdict : {"ACCEPT", "DROP"}, routed : BOOLEAN]

(* The state of a daemon.  nfq holds the packets the kernel waits for a    *)
(* verdict on, fib the routes of the kernel.  buf, out and verdict live    *)
(* for one handler: the one send buffer, the messages sent, and the        *)
(* verdicts given.                                                         *)
Daemon == [self           : Addr,
           seqno          : Seqno,
           rreq_id        : 0 .. RREQ_ID_MAX,
           rt             : [Addr -> Entry \cup {NULL}],
           seek           : [Addr -> Seek \cup {NULL}],
           pq             : SUBSET QPkt,
           nfq            : SUBSET PktId,
           fib            : SUBSET KernelRoute,
           records        : SUBSET (Addr \X (0 .. RREQ_ID_MAX)),
           blacklist      : SUBSET Addr,
           wait_on_reboot : BOOLEAN,
           hello_timer    : BOOLEAN,
           buf            : Message \cup {NULL},
           out            : SUBSET [msg : Message, dst : Addr \cup {BROADCAST}, ttl : Int],
           verdict        : SUBSET Verdict]

Valid(h, d) == h.rt[d] # NULL /\ h.rt[d].state = "VALID"

-----------------------------------------------------------------------------
(* The bug of a route that does not get to the kernel. *)
nl_send_add_route_none(h, dest, next_hop, metric) == h

(* The kernel: rtnetlink replaces the route with the same destination and  *)
(* metric, and deletes the route that matches in all three.                *)
nl_send_add_route_msg(h, dest, next_hop, metric) ==
    [h EXCEPT !.fib = {r \in @ : ~ (r.dst = dest /\ r.metric = metric)}
                        \cup {[dst |-> dest, gw |-> next_hop, metric |-> metric]}]

nl_send_del_route_msg(h, dest, next_hop, metric) ==
    [h EXCEPT !.fib = @ \ {[dst |-> dest, gw |-> next_hop, metric |-> metric]}]

(* nfqueue_set_packet_verdict() for the packets in P.  `routed' records    *)
(* whether the route of the daemon and one of the kernel are in place.     *)
nfqueue_set_packet_verdict(h, P, v) ==
    [h EXCEPT !.nfq = @ \ {p.packet_id : p \in P},
              !.verdict = @ \cup
                 {[packet_id |-> p.packet_id, dest_addr |-> p.dest_addr, verdict |-> v,
                   routed |-> /\ Valid(h, p.dest_addr)
                              /\ \E r \in h.fib : r.dst = p.dest_addr] : p \in P}]

-----------------------------------------------------------------------------
(* The send buffer is shared by all messages: aodv_socket_new_msg() and    *)
(* aodv_socket_queue_msg() overwrite it, and aodv_socket_send() sends what *)
(* it holds by then.  out is what is handed to the rate limit, which is a  *)
(* module of its own.                                                      *)
aodv_socket_new_msg(h, msg) == [h EXCEPT !.buf = msg]

aodv_socket_send(h, dst, ttl) ==
    IF h.wait_on_reboot /\ h.buf.type = "RREP" THEN h
    ELSE [h EXCEPT !.out = @ \cup {[msg |-> h.buf, dst |-> dst, ttl |-> ttl]}]

(* rerr_create() and rerr_add_udest() for the destinations in U; the       *)
(* sequence number of a destination without an entry is 0.                 *)
rerr_create(h, nodelete, U) ==
    aodv_socket_new_msg(h,
        [type |-> "RERR", n |-> nodelete,
         udests |-> {[addr |-> u, seqno |-> IF h.rt[u] = NULL THEN 0 ELSE h.rt[u].dest_seqno]
                        : u \in U}])

(* The bug of an error nobody hears of. *)
rerr_send_none(h, nodelete, U, precursors) == h

(* A RERR goes to the one node that needs it, else to all. *)
rerr_dest(sole) == IF sole = {} THEN BROADCAST ELSE CHOOSE a \in sole : TRUE

(* The end of neighbor_link_break() and rerr_process(), for the            *)
(* destinations in U; precursors are their lists before they were          *)
(* destroyed.                                                              *)
rerr_send(h, nodelete, U, precursors) ==
    LET sole == {a \in Addr : \E u \in U : U = {u} /\ precursors[u] = {a} /\ h.rt[a] # NULL}
    IN  IF U = {} THEN h
        ELSE aodv_socket_send(rerr_create(h, nodelete, U), rerr_dest(sole), 1)

-----------------------------------------------------------------------------
(* The list PQ as a set: list_detach() moves the packets behind up. *)
Detached(Q, P) ==
    {[p EXCEPT !.n = Cardinality({q \in Q \ P : q.n <= p.n})] : p \in Q \ P}

(* The bug of a full buffer that drops a packet without a verdict. *)
packet_queue_add_forget(h, id, dest) ==
    LET old == IF Cardinality(h.pq) >= MAX_QUEUE_LENGTH THEN {p \in h.pq : p.n = 1} ELSE {}
        Q   == Detached(h.pq, old)
    IN  [h EXCEPT !.pq = Q \cup {[packet_id |-> id, dest_addr |-> dest,
                                  n |-> Cardinality(Q) + 1]}]

(* packet_queue_add(): a full buffer drops its oldest packet first. *)
packet_queue_add(h, id, dest) ==
    LET old == IF Cardinality(h.pq) >= MAX_QUEUE_LENGTH THEN {p \in h.pq : p.n = 1} ELSE {}
        g   == nfqueue_set_packet_verdict(h, old, "DROP")
        Q   == Detached(h.pq, old)
    IN  [g EXCEPT !.pq = Q \cup {[packet_id |-> id, dest_addr |-> dest,
                                  n |-> Cardinality(Q) + 1]}]

(* Take the packets in P off the list and give the verdict. *)
release(h, P, v) ==
    [nfqueue_set_packet_verdict(h, P, v) EXCEPT !.pq = Detached(h.pq, P)]

(* rt_table_update_timeout(): it may keep the longer of two timeouts, and  *)
(* leaves the timer armed in any case.                                     *)
rt_table_update_timeout(h, d) ==
    IF h.rt[d] = NULL THEN h ELSE [h EXCEPT !.rt[d].rt_timer = TRUE]

(* The bugs of sending, and of keeping, what has no route. *)
packet_queue_send_all(h, dest, v) == release(h, {p \in h.pq : p.dest_addr = dest}, "ACCEPT")
packet_queue_keep(h, dest, v) ==
    IF v = "DROP" THEN h ELSE release(h, {p \in h.pq : p.dest_addr = dest}, v)

(* packet_queue_set_verdict() *)
packet_queue_set_verdict(h, dest, v) ==
    LET g == release(h, {p \in h.pq : p.dest_addr = dest}, v)
        next == h.rt[dest].next_hop
        extended == rt_table_update_timeout(g, dest)
    IN  IF v = "DROP" THEN g
        ELSE IF h.rt[dest] = NULL THEN h
        ELSE IF ~ Valid(h, dest) THEN g
        ELSE IF Valid(h, next) /\ next # dest THEN rt_table_update_timeout(extended, next)
        ELSE extended

(* The bug of dropping the packets that came last. *)
packet_queue_garbage_collect_last(h, k) ==
    release(h, {p \in h.pq : p.n > Cardinality(h.pq) - k}, "DROP")

(* packet_queue_garbage_collect(): the packets that waited too long are    *)
(* the first k of the list, for some k.                                    *)
packet_queue_garbage_collect(h, k) == release(h, {p \in h.pq : p.n <= k}, "DROP")

(* packet_queue_destroy() *)
packet_queue_destroy(h) == release(h, h.pq, "DROP")

-----------------------------------------------------------------------------
(* The bugs of ending the discovery and keeping the packets, and of the    *)
(* other way round.                                                        *)
found_silent(h, d) == [h EXCEPT !.seek[d] = NULL]
found_seeking(h, d) ==
    IF h.seek[d] = NULL THEN h ELSE packet_queue_set_verdict(h, d, "ACCEPT")

(* seek_list_remove(seek_list_find(d)) in rt_table_insert() and            *)
(* rt_table_update(): when the destination was sought, its packets go.     *)
found(h, d) ==
    IF h.seek[d] = NULL THEN h
    ELSE packet_queue_set_verdict([h EXCEPT !.seek[d] = NULL], d, "ACCEPT")

(* rt_table_insert(); its callers know that there is no entry for d. *)
rt_table_insert(h, d, next, hops, seqno, life, state, flags) ==
    LET repair == state = "INVALID" /\ "REPAIR" \in flags
        entry ==
          [state |-> state, flags |-> flags, hcnt |-> u_int8(hops), dest_seqno |-> seqno,
           next_hop |-> next, precursors |-> {},
           handler |-> IF state = "VALID" THEN "expire"
                       ELSE IF repair THEN "repair" ELSE "delete",
           rt_timer |-> state = "INVALID" \/ life # 0,
           ack_timer |-> FALSE, hello_timer |-> FALSE, hello_cnt |-> 0]
        g == [h EXCEPT !.rt[d] = entry]
    IN  IF state = "INVALID" THEN g
        ELSE found(nl_send_add_route_msg(g, d, next, u_int8(hops)), d)

(* The bugs of an entry that stays in use, and of one without a timer. *)
invalidated_not(e) == e
invalidated_untimed(e) == [e EXCEPT !.state = "INVALID", !.rt_timer = FALSE]

(* What rt_table_invalidate() leaves of an entry. *)
invalidated(e) ==
    IF e.state = "INVALID" THEN e
    ELSE [e EXCEPT !.state = "INVALID", !.hello_cnt = 0, !.hello_timer = FALSE,
                   !.ack_timer = FALSE, !.dest_seqno = seqno_incr(@), !.rt_timer = TRUE,
                   !.handler = IF "REPAIR" \in e.flags THEN "repair" ELSE "delete"]

(* rt_table_invalidate() for the entries in U. *)
rt_table_invalidate(h, U) ==
    [h EXCEPT !.rt = [u \in Addr |-> IF u \in U THEN invalidated(h.rt[u]) ELSE h.rt[u]],
              !.fib = @ \ {[dst |-> u, gw |-> h.rt[u].next_hop, metric |-> h.rt[u].hcnt]
                              : u \in {a \in U : Valid(h, a)}}]

(* rt_table_delete() *)
rt_table_delete(h, d) ==
    LET g == IF Valid(h, d) THEN nl_send_del_route_msg(h, d, h.rt[d].next_hop, h.rt[d].hcnt)
             ELSE h
    IN  [g EXCEPT !.rt[d] = NULL]

precursor_add(h, d, addr) == [h EXCEPT !.rt[d].precursors = @ \cup {addr}]

precursor_list_destroy(h, U) ==
    [h EXCEPT !.rt = [u \in Addr |-> IF u \in U THEN [h.rt[u] EXCEPT !.precursors = {}]
                                     ELSE h.rt[u]]]

(* neighbor_link_break(): the neighbour d and all that is reached through  *)
(* it are lost.  When d is to be repaired, so are the near ones among the  *)
(* others, and nobody hears of these.                                      *)
neighbor_link_break(h, d) ==
    LET repair == "REPAIR" \in h.rt[d].flags
        users  == {u \in Addr \ {d} : Valid(h, u) /\ h.rt[u].next_hop = d}
        near   == {u \in users : repair /\ h.rt[u].hcnt <= MAX_REPAIR_TTL}
        lost   == (users \ near) \cup (IF repair THEN {} ELSE {d})
        marked == [h EXCEPT !.rt = [u \in Addr |->
                     IF u \in near THEN [h.rt[u] EXCEPT !.flags = @ \cup {"REPAIR"}]
                     ELSE h.rt[u]]]
        broken == precursor_list_destroy(rt_table_invalidate(marked, users \cup {d}), lost)
        told   == {u \in lost : h.rt[u].precursors # {}}
    IN  IF h.rt[d].hcnt # 1 THEN h
        ELSE rerr_send(broken, FALSE, told, [u \in told |-> h.rt[u].precursors])

(* What rt_table_update() leaves of the entry e; every caller makes the    *)
(* route VALID.                                                            *)
unheard(e) == [e EXCEPT !.hello_cnt = 0, !.hello_timer = FALSE]
updated(e, next, hops, seqno, flags) ==
    [e EXCEPT !.state = "VALID", !.flags = flags, !.hcnt = hops, !.dest_seqno = seqno,
              !.next_hop = next, !.handler = "expire", !.rt_timer = TRUE]

(* rt_table_update() *)
rt_table_update(h, d, next, hops, seqno, flags) ==
    LET e      == h.rt[d]
        revive == e.state = "INVALID"
        added  == IF revive \/ e.next_hop # next
                  THEN nl_send_add_route_msg(h, d, next, u_int8(hops)) ELSE h
        linked == IF u_int8(hops) > 1 /\ e.hcnt = 1
                  THEN neighbor_link_break([added EXCEPT !.rt[d] = unheard(@)], d) ELSE added
        kept   == IF revive /\ "REPAIR" \in e.flags THEN flags \ {"REPAIR"} ELSE flags
    IN  found([linked EXCEPT !.rt[d] = updated(@, next, u_int8(hops), seqno, kept)], d)
=============================================================================
