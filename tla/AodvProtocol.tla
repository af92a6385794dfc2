---------------------------- MODULE AodvProtocol ----------------------------
(***************************************************************************)
(* The handlers of the daemon: what it does on a message of another node   *)
(* (aodv_rreq.c, aodv_rrep.c, aodv_rerr.c, aodv_hello.c, aodv_neighbor.c), *)
(* on a packet of the kernel (packet_input.c) and on the end of a timer    *)
(* (aodv_timeout.c).  As in AodvTables, each function is an operator from  *)
(* the state of the daemon to the state it leaves.  The daemon has one     *)
(* network interface.                                                      *)
(***************************************************************************)
EXTENDS AodvTables

CONSTANTS unidir_hack,            \* options of the command line, main.c
          local_repair,
          rreq_gratuitous,
          expanding_ring_search,
          optimized_hellos,
          receive_n_hellos,
          TTL_START, TTL_INCREMENT, TTL_THRESHOLD, NET_DIAMETER,
          LOCAL_ADD_TTL, RREQ_RETRIES, MAXTTL

ASSUME ProtocolAssumption ==
    /\ {unidir_hack, local_repair, rreq_gratuitous,
        expanding_ring_search, optimized_hellos} \subseteq BOOLEAN
    /\ receive_n_hellos \in Nat
    /\ {TTL_START, TTL_INCREMENT, TTL_THRESHOLD, NET_DIAMETER,
        LOCAL_ADD_TTL, RREQ_RETRIES, MAXTTL} \subseteq Nat

-----------------------------------------------------------------------------
(* neighbor_add(): a message other than a HELLO came from src. *)
neighbor_add(h, src) ==
    IF h.rt[src] = NULL
    THEN rt_table_insert(h, src, src, 1, 0, 1, "VALID", {})
    ELSE IF "UNIDIR" \in h.rt[src].flags THEN h
    ELSE rt_table_update(h, src, src, 1, h.rt[src].dest_seqno, h.rt[src].flags)

-----------------------------------------------------------------------------
(* hello_send(), the handler of the daemon's hello timer.  `forwarded':    *)
(* the host took part in forwarding within ACTIVE_ROUTE_TIMEOUT; `silent': *)
(* it has not broadcast for HELLO_INTERVAL.  All neighbours are copied to  *)
(* the one place in the extension, so it tells of one of them, `told'.     *)
hello_neighbors(h) == {n \in Addr : h.rt[n] # NULL /\ h.rt[n].hello_timer}

hello_send(h, forwarded, silent, told) ==
    LET hello == [type |-> "RREP", dest_addr |-> h.self, dest_seqno |-> h.seqno,
                  orig_addr |-> h.self, hcnt |-> 0, lifetime |-> 1, a |-> FALSE,
                  neighbors |-> IF unidir_hack THEN told ELSE {}]
        sent  == aodv_socket_send(aodv_socket_new_msg(h, hello), BROADCAST, 1)
    IN  IF optimized_hellos /\ ~ forwarded THEN [h EXCEPT !.hello_timer = FALSE]
        ELSE [(IF silent THEN sent ELSE h) EXCEPT !.hello_timer = TRUE]

(* hello_start(): fwd_time is now. *)
hello_start(h, silent, told) ==
    IF h.hello_timer THEN h ELSE hello_send(h, TRUE, silent, told)

(* hello_process().  `recent': the last HELLO of this neighbour is at most *)
(* one and a half intervals old.                                           *)
hello_process(h, hello, recent) ==
    LET d     == hello.dest_addr
        known == IF h.rt[d] = NULL THEN {} ELSE h.rt[d].flags
        flags == IF unidir_hack /\ h.self \notin hello.neighbors THEN known \cup {"UNIDIR"}
                 ELSE IF h.self \in hello.neighbors THEN known \ {"UNIDIR"}
                 ELSE known
        state == IF receive_n_hellos > 0 THEN "INVALID" ELSE "VALID"
        heard(g) == [g EXCEPT !.rt[d].hello_timer = TRUE]
        inserted == rt_table_insert(h, d, d, 1, hello.dest_seqno, 1, state, flags)
    IN  IF h.rt[d] = NULL
        THEN heard([inserted EXCEPT !.rt[d].hello_cnt = 1])
        ELSE IF "UNIDIR" \in flags /\ Valid(h, d) /\ h.rt[d].hcnt > 1
        THEN heard(h)
        ELSE IF h.rt[d].hello_cnt < receive_n_hellos - 1
        THEN [h EXCEPT !.rt[d].hello_cnt = IF recent THEN @ + 1 ELSE 1]
        ELSE heard(rt_table_update(h, d, d, 1, hello.dest_seqno, flags))

-----------------------------------------------------------------------------
(* rreq_send(): every RREQ has a new identifier and sequence number. *)
rreq_send(h, dest, dest_seqno, ttl, flags) ==
    LET g == [h EXCEPT !.rreq_id = (@ + 1) % (RREQ_ID_MAX + 1), !.seqno = seqno_incr(@)]
        rreq == [type |-> "RREQ", rreq_id |-> h.rreq_id, dest_addr |-> dest,
                 dest_seqno |-> dest_seqno, orig_addr |-> h.self, orig_seqno |-> g.seqno,
                 hcnt |-> 0, g |-> rreq_gratuitous \/ "GRATUITOUS" \in flags, d |-> FALSE]
    IN  aodv_socket_send(aodv_socket_new_msg(g, rreq), BROADCAST, ttl)

(* seek_list_insert() *)
seek_list_insert(h, dest, dest_seqno, ttl, flags) ==
    [h EXCEPT !.seek[dest] = [dest_seqno |-> dest_seqno, ttl |-> ttl, reqs |-> 0,
                              flags |-> flags]]

(* rreq_route_discovery() *)
rreq_route_discovery(h, dest, flags) ==
    LET e      == h.rt[dest]
        seqno  == IF e = NULL THEN 0 ELSE e.dest_seqno
        ttl    == IF ~ expanding_ring_search THEN NET_DIAMETER
                  ELSE IF e = NULL THEN TTL_START ELSE e.hcnt + TTL_INCREMENT
    IN  IF h.seek[dest] # NULL THEN h
        ELSE seek_list_insert(rreq_send(rt_table_update_timeout(h, dest), dest, seqno, ttl, flags),
                              dest, seqno, ttl, flags)

(* rreq_local_repair() for the entry of dest, on a packet from src *)
rreq_local_repair(h, dest, src) ==
    LET e    == h.rt[dest]
        far  == IF h.rt[src] = NULL THEN 0 ELSE h.rt[src].hcnt \div 2
        ttl  == (IF far > e.hcnt THEN far ELSE e.hcnt) + LOCAL_ADD_TTL
        kept == [h EXCEPT !.rt[dest] = [@ EXCEPT !.handler = "expire", !.rt_timer = TRUE]]
    IN  IF h.seek[dest] # NULL \/ "REPAIR" \notin e.flags THEN h
        ELSE seek_list_insert(rreq_send(kept, dest, e.dest_seqno, ttl, {}),
                              dest, e.dest_seqno, ttl, {})

-----------------------------------------------------------------------------
(* rrep_create() without flags: the request for a RREP-ACK that            *)
(* rrep_send() decides on comes too late to be in the message.             *)
rrep_create(h, hcnt, dest, dest_seqno, orig, life) ==
    aodv_socket_new_msg(h, [type |-> "RREP", dest_addr |-> dest, dest_seqno |-> dest_seqno,
                            orig_addr |-> orig, hcnt |-> hcnt, lifetime |-> life,
                            a |-> FALSE, neighbors |-> {}])

(* The part of rrep_send() that waits for a RREP-ACK of the next hop to    *)
(* rev; breaking the link may leave a RERR in the buffer.                  *)
rrep_wait_ack(h, rev) ==
    LET e    == h.rt[rev]
        n    == e.next_hop
        ask  == /\ \/ Valid(h, rev) /\ "UNIDIR" \in e.flags
                   \/ e.hcnt = 1 /\ unidir_hack
                /\ Valid(h, n)
                /\ ~ h.rt[n].ack_timer
        deaf == [h.rt[n] EXCEPT !.flags = @ \cup {"UNIDIR"}, !.hello_timer = FALSE]
        cut  == neighbor_link_break([h EXCEPT !.rt[n] = deaf], n)
    IN  IF ask THEN [cut EXCEPT !.rt[n].ack_timer = TRUE] ELSE h

(* rrep_send() of the message in the buffer along the route to rev; fwd is *)
(* the destination replied for, or NULL when that is this host.            *)
rrep_send(h, rev, fwd, silent, told) ==
    LET n    == h.rt[rev].next_hop
        sent == aodv_socket_send(rrep_wait_ack(h, rev), n, MAXTTL)
        done == IF fwd = NULL THEN sent
                ELSE precursor_add(precursor_add(sent, fwd, n), rev, sent.rt[fwd].next_hop)
    IN  IF optimized_hellos THEN hello_start(done, silent, told) ELSE done

(* rrep_forward() *)
rrep_forward(h, rrep, rev, fwd, ttl) ==
    LET queued == aodv_socket_new_msg(h, [rrep EXCEPT !.hcnt = h.rt[fwd].hcnt])
        sent   == aodv_socket_send(queued, h.rt[rev].next_hop, ttl)
    IN  rt_table_update_timeout(
            precursor_add(precursor_add(sent, fwd, h.rt[rev].next_hop),
                          rev, h.rt[fwd].next_hop), rev)

(* rrep_ack_process() *)
rrep_ack_process(h, src) ==
    IF h.rt[src] = NULL THEN h ELSE [h EXCEPT !.rt[src].ack_timer = FALSE]

-----------------------------------------------------------------------------
(* The entry e gives way to a route with this sequence number and hop      *)
(* count: the tests of rreq_process() and rrep_process().                  *)
fresher(e, seqno, hops) ==
    \/ e.dest_seqno = 0
    \/ int32(seqno) > int32(e.dest_seqno)
    \/ seqno = e.dest_seqno /\ (e.state = "INVALID" \/ hops < e.hcnt)

(* The reverse route of rreq_process(), to the originator by way of src. *)
reverse_route(h, rreq, src) ==
    LET o == rreq.orig_addr
        hops == rreq.hcnt + 1
    IN  IF h.rt[o] = NULL
        THEN rt_table_insert(h, o, src, hops, rreq.orig_seqno, 1, "VALID", {})
        ELSE IF fresher(h.rt[o], rreq.orig_seqno, hops)
        THEN rt_table_update(h, o, src, hops, rreq.orig_seqno, h.rt[o].flags)
        ELSE h

(* rreq_process() where this host is the destination *)
rreq_reply(h, rreq, silent, told) ==
    LET s == rreq.dest_seqno
        seqno == IF s = 0 THEN h.seqno
                 ELSE IF int32(h.seqno) < int32(s) THEN s
                 ELSE IF h.seqno = s THEN seqno_incr(h.seqno)
                 ELSE h.seqno
        g == [h EXCEPT !.seqno = seqno]
    IN  rrep_send(rrep_create(g, 0, g.self, seqno, rreq.orig_addr, 1),
                  rreq.orig_addr, NULL, silent, told)

(* rreq_process() where this host has a route to the destination that is   *)
(* fresh enough; life is what is left of it.                               *)
rreq_intermediate_reply(h, rreq, life, silent, told) ==
    LET d == rreq.dest_addr
        o == rreq.orig_addr
        g == rrep_send(rrep_create(h, h.rt[d].hcnt, d, h.rt[d].dest_seqno, o, life),
                       o, d, silent, told)
    IN  IF rreq.g
        THEN rrep_send(rrep_create(g, g.rt[o].hcnt, o, g.rt[o].dest_seqno, d, life),
                       d, o, silent, told)
        ELSE g

(* rreq_forward() *)
rreq_forward(h, rreq, ttl) ==
    aodv_socket_send(aodv_socket_new_msg(h, [rreq EXCEPT !.hcnt = u_int8(@ + 1)]),
                     BROADCAST, ttl)

(* rreq_process() where the RREQ is passed on, with the larger of the two  *)
(* sequence numbers                                                        *)
rreq_pass_on(h, rreq, ttl) ==
    LET e == h.rt[rreq.dest_addr]
        seqno == IF e # NULL /\ int32(e.dest_seqno) > int32(rreq.dest_seqno)
                 THEN e.dest_seqno ELSE rreq.dest_seqno
    IN  IF ttl > 1 THEN rreq_forward(h, [rreq EXCEPT !.dest_seqno = seqno], ttl - 1) ELSE h

(* rreq_process() *)
rreq_process(h, rreq, src, ttl, life, silent, told) ==
    LET id == <<rreq.orig_addr, rreq.rreq_id>>
        d  == rreq.dest_addr
        g  == reverse_route([h EXCEPT !.records = @ \cup {id}], rreq, src)
    IN  IF \/ rreq.orig_addr = h.self
           \/ src \in h.blacklist
           \/ id \in h.records
        THEN h
        ELSE IF d = h.self THEN rreq_reply(g, rreq, silent, told)
        ELSE IF /\ Valid(g, d)
                /\ ~ rreq.d
                /\ g.rt[d].dest_seqno # 0
                /\ int32(g.rt[d].dest_seqno) >= int32(rreq.dest_seqno)
        THEN rreq_intermediate_reply(g, rreq, life, silent, told)
        ELSE rreq_pass_on(g, rreq, ttl)

-----------------------------------------------------------------------------
(* rrep_ack_create() *)
rrep_ack_create == [type |-> "RREP_ACK"]

(* The end of rrep_process(), with the forward route to d in place.  was   *)
(* is the entry before the RREP, or NULL.                                  *)
rrep_deliver(h, rrep, was, ttl, had_rev) ==
    LET d     == rrep.dest_addr
        o     == rrep.orig_addr
        ack   == IF rrep.a
                 THEN aodv_socket_send(aodv_socket_new_msg(h, rrep_ack_create),
                                       h.rt[d].next_hop, MAXTTL)
                 ELSE h
        longer == was # NULL /\ "REPAIR" \in was.flags /\ h.rt[d].hcnt > was.hcnt
    IN  IF o = h.self
        THEN IF longer /\ h.rt[d].precursors # {}
             THEN aodv_socket_send(rerr_create(ack, TRUE, {d}), BROADCAST, 1)
             ELSE ack
        ELSE IF had_rev /\ Valid(h, o)
        THEN rrep_forward(ack, [rrep EXCEPT !.a = FALSE], o, d, ttl - 1)
        ELSE ack

(* rrep_process() *)
rrep_process(h, rrep, src, ttl, silent, told) ==
    LET d    == rrep.dest_addr
        e    == h.rt[d]
        hops == rrep.hcnt + 1
        take == \/ fresher(e, rrep.dest_seqno, hops)
                \/ rrep.dest_seqno = e.dest_seqno /\ "UNIDIR" \in e.flags
        g    == IF e = NULL
                THEN rt_table_insert(h, d, src, hops, rrep.dest_seqno, rrep.lifetime, "VALID", {})
                ELSE rt_table_update(h, d, src, hops, rrep.dest_seqno, e.flags)
        done == rrep_deliver(g, rrep, e, ttl, h.rt[rrep.orig_addr] # NULL)
    IN  IF d = h.self \/ (e # NULL /\ ~ take) THEN h
        ELSE IF optimized_hellos THEN hello_start(done, silent, told)
        ELSE done

-----------------------------------------------------------------------------
(* rerr_process(), with one sequence number for each destination *)
rerr_process(h, rerr, src) ==
    LET U == {u \in Addr : /\ \E x \in rerr.udests : x.addr = u
                           /\ Valid(h, u)
                           /\ h.rt[u].next_hop = src}
        seqno(u) == (CHOOSE x \in rerr.udests : x.addr = u).seqno
        gone == IF rerr.n THEN h ELSE rt_table_invalidate(h, U)
        set  == [gone EXCEPT !.rt = [u \in Addr |->
                    IF u \in U THEN [gone.rt[u] EXCEPT !.dest_seqno = seqno(u)]
                    ELSE gone.rt[u]]]
        told == {u \in U : h.rt[u].precursors # {} /\ "REPAIR" \notin h.rt[u].flags}
        left == IF rerr.n THEN set ELSE precursor_list_destroy(set, U)
    IN  rerr_send(left, rerr.n, told, [u \in told |-> h.rt[u].precursors])

-----------------------------------------------------------------------------
(* aodv_socket_process_packet() for a message that is not a HELLO *)
aodv_socket_process_packet(h, m, src, ttl, life, silent, told) ==
    LET g == neighbor_add(h, src)
    IN  CASE m.type = "RREQ" -> rreq_process(g, m, src, ttl, life, silent, told)
          [] m.type = "RREP" -> rrep_process(g, m, src, ttl, silent, told)
          [] m.type = "RERR" -> rerr_process(g, m, src)
          [] m.type = "RREP_ACK" -> rrep_ack_process(g, src)

-----------------------------------------------------------------------------
(* local_repair_timeout() *)
local_repair_timeout(h, d) ==
    LET e    == h.rt[d]
        off  == nl_send_del_route_msg([h EXCEPT !.rt[d].flags = @ \ {"REPAIR"}],
                                      d, e.next_hop, e.hcnt)
        sole == {a \in Addr : e.precursors = {a}}
        sent == IF e.precursors = {} THEN off
                ELSE aodv_socket_send(rerr_create(off, FALSE, {d}), rerr_dest(sole), 1)
    IN  [sent EXCEPT !.rt[d] = [@ EXCEPT !.precursors = {}, !.handler = "delete",
                                         !.rt_timer = TRUE]]

(* route_expire_timeout() *)
route_expire_timeout(h, d) ==
    IF h.rt[d].hcnt = 1 THEN neighbor_link_break(h, d)
    ELSE precursor_list_destroy(rt_table_invalidate(h, {d}), {d})

(* The end of the timer of an entry, with the handler it has by now.       *)
(* timer_timeout() unlinks the timer before it calls the handler.          *)
rt_timeout(h, d) ==
    LET g == [h EXCEPT !.rt[d].rt_timer = FALSE]
    IN  CASE h.rt[d].handler = "expire" -> route_expire_timeout(g, d)
          [] h.rt[d].handler = "delete" -> rt_table_delete(g, d)
          [] h.rt[d].handler = "repair" -> local_repair_timeout(g, d)

(* route_discovery_timeout(): ask again, further out, or give up. *)
route_discovery_timeout(h, d) ==
    LET s     == h.seek[d]
        wider == expanding_ring_search /\ s.ttl < TTL_THRESHOLD
        again == [s EXCEPT !.ttl = IF ~ expanding_ring_search THEN @
                                   ELSE IF wider THEN @ + TTL_INCREMENT ELSE NET_DIAMETER,
                           !.reqs = IF wider THEN @ ELSE @ + 1]
        asked == rt_table_update_timeout([h EXCEPT !.seek[d] = again], d)
        none  == [packet_queue_set_verdict(h, d, "DROP") EXCEPT !.seek[d] = NULL]
    IN  IF s.reqs < RREQ_RETRIES
        THEN rreq_send(asked, d, again.dest_seqno, again.ttl, again.flags)
        ELSE IF h.rt[d] # NULL /\ "REPAIR" \in h.rt[d].flags
        THEN local_repair_timeout(none, d)
        ELSE none

(* hello_timeout() *)
hello_timeout(h, d) ==
    LET g == [h EXCEPT !.rt[d].hello_timer = FALSE]
        marked == IF local_repair /\ h.rt[d].hcnt <= MAX_REPAIR_TTL
                  THEN [g EXCEPT !.rt[d].flags = @ \cup {"REPAIR"}] ELSE g
    IN  IF Valid(h, d) /\ "UNIDIR" \notin h.rt[d].flags
        THEN neighbor_link_break(marked, d) ELSE g

(* rrep_ack_timeout(): the neighbour goes to the blacklist. *)
rrep_ack_timeout(h, d) ==
    [h EXCEPT !.rt[d].ack_timer = FALSE, !.blacklist = @ \cup {d}]

-----------------------------------------------------------------------------
(* rt_table_update_route_timeouts() for one of the two entries *)
touch(h, d) ==
    LET e    == h.rt[d]
        next == e.next_hop
        g    == IF e.hcnt # 1 \/ e.hello_timer THEN rt_table_update_timeout(h, d) ELSE h
    IN  IF ~ Valid(h, d) THEN h
        ELSE IF Valid(h, next) /\ next # d /\ e.hello_timer THEN rt_table_update_timeout(g, next)
        ELSE g

(* send_rerr_for_unknown_dest(); the timer of wait_on_reboot starts over. *)
send_rerr_for_unknown_dest(h, src, dest) ==
    aodv_socket_send(rerr_create(rt_table_update_timeout(h, dest), FALSE, {dest}),
                     IF Valid(h, src) THEN h.rt[src].next_hop ELSE BROADCAST, 1)

(* packet_input_handle_packet() and the verdict nfqueue_packet_cb() gives  *)
(* on the packet when it is not buffered.  `exempt': the destination is    *)
(* local, a broadcast or on a subnet of the host, or the packet is one of  *)
(* AODV.  `forward': it came through the FORWARD hook.                     *)
packet_input_handle_packet(h, p, src, dest, forward, exempt, flags) ==
    LET g       == touch(touch(h, dest), src)
        e       == g.rt[dest]
        repair  == e # NULL /\ "REPAIR" \in e.flags
        noroute == ~ Valid(g, dest) \/ (e.hcnt = 1 /\ "UNIDIR" \in e.flags)
        pkt     == [packet_id |-> p, dest_addr |-> dest, n |-> 0]
        queued  == packet_queue_add(g, p, dest)
    IN  IF exempt THEN [h EXCEPT !.nfq = @ \ {p}]
        ELSE IF ~ noroute THEN nfqueue_set_packet_verdict(g, {pkt}, "ACCEPT")
        ELSE IF repair THEN rreq_local_repair(queued, dest, src)
        ELSE IF forward
        THEN nfqueue_set_packet_verdict(send_rerr_for_unknown_dest(g, src, dest), {pkt}, "DROP")
        ELSE rreq_route_discovery(queued, dest, flags)
=============================================================================
