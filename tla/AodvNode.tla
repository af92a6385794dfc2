------------------------------ MODULE AodvNode ------------------------------
(***************************************************************************)
(* One daemon in an environment that sends it any message of a given set,  *)
(* passes it packets, and lets armed timers expire in any order.  Each     *)
(* action is one callback of the main loop (main.c), run to completion.    *)
(***************************************************************************)
EXTENDS AodvProtocol

CONSTANTS Self,            \* the address of this host
          WaitOnReboot,    \* wait_on_reboot at start, cleared by -D
          Received,        \* messages other than HELLOs that may arrive
          Hellos,          \* HELLO messages that may arrive
          Packets,         \* packets that may come from the kernel
          Lifetimes,       \* what may be left of the lifetime of a route
          MayRestart       \* whether the daemon may stop and start again

ASSUME NodeAssumption ==
    /\ Self \in Addr
    /\ WaitOnReboot \in BOOLEAN
    /\ MayRestart \in BOOLEAN
    /\ Lifetimes \subseteq {0, 1}
    /\ Received \subseteq [src : Addr \ {Self}, ttl : Nat, msg : Message]
    /\ Hellos \subseteq {m \in RREP : m.dest_addr # Self}
    /\ Packets \subseteq [src : Addr, dest : Addr \ {Self}, forward : BOOLEAN,
                          exempt : BOOLEAN, flags : SUBSET {"GRATUITOUS"}]

(* Who sends the messages is AODV too: the hop count of a message starts   *)
(* at 0 with the node it is about, grows by one with each node that passes *)
(* it on, and NET_DIAMETER keeps it from its limit.                        *)
ASSUME HopCountAssumption ==
    \A r \in Received :
        /\ r.msg.type = "RREQ" => /\ r.msg.hcnt < HCNT_MAX
                                  /\ r.msg.hcnt = 0 <=> r.src = r.msg.orig_addr
        /\ r.msg.type = "RREP" => /\ r.msg.hcnt < HCNT_MAX
                                  /\ r.msg.hcnt = 0 <=> r.src = r.msg.dest_addr

VARIABLE node

(* What the extension of a HELLO may tell of the neighbours. *)
Told(h) == IF hello_neighbors(h) = {} THEN {{}} ELSE {{n} : n \in hello_neighbors(h)}

(* What hello_start() depends on beside the state, when it may be called:  *)
(* whether the host has been silent, and what the HELLO tells.             *)
HelloChoice(h) == IF optimized_hellos THEN BOOLEAN \X Told(h) ELSE {<<TRUE, {}>>}

(* host_init() and the rest of main() up to the loop; the routes of the    *)
(* kernel and the packets in NFQUEUE are those of h.                       *)
Boot(h) ==
    LET fresh == [self |-> Self, seqno |-> 1, rreq_id |-> 0,
                  rt |-> [d \in Addr |-> NULL], seek |-> [d \in Addr |-> NULL],
                  pq |-> {}, nfq |-> h.nfq, fib |-> h.fib, records |-> {}, blacklist |-> {},
                  wait_on_reboot |-> WaitOnReboot, hello_timer |-> FALSE,
                  buf |-> NULL, out |-> {}, verdict |-> {}]
    IN  IF optimized_hellos THEN fresh ELSE hello_start(fresh, TRUE, {})

(* A callback starts with nothing sent and no verdict given, and what it   *)
(* leaves in the send buffer is never read.                                *)
Idle(h) == [h EXCEPT !.buf = NULL, !.out = {}, !.verdict = {}]
Returned(h) == [h EXCEPT !.buf = NULL]

Init == node = Returned(Boot([nfq |-> {}, fib |-> {}]))

(* aodv_socket_read() *)
Receive ==
    \E r \in Received, life \in Lifetimes, x \in HelloChoice(node) :
        node' = Returned(aodv_socket_process_packet(Idle(node), r.msg, r.src, r.ttl,
                                                    life, x[1], x[2]))

(* aodv_socket_process_packet() for a HELLO *)
ReceiveHello ==
    \E m \in Hellos, recent \in BOOLEAN :
        node' = Returned(hello_process(Idle(node), m, recent))

(* nfqueue_packet_cb() *)
PacketIn ==
    \E p \in PktId \ node.nfq, k \in Packets :
        node' = Returned(packet_input_handle_packet(
                            [Idle(node) EXCEPT !.nfq = @ \cup {p}], p,
                            k.src, k.dest, k.forward, k.exempt, k.flags))

RtTimeout(d) ==
    /\ node.rt[d] # NULL
    /\ node.rt[d].rt_timer
    /\ node' = Returned(rt_timeout(Idle(node), d))

SeekTimeout(d) ==
    /\ node.seek[d] # NULL
    /\ node' = Returned(route_discovery_timeout(Idle(node), d))

HelloTimeout(d) ==
    /\ node.rt[d] # NULL
    /\ node.rt[d].hello_timer
    /\ node' = Returned(hello_timeout(Idle(node), d))

AckTimeout(d) ==
    /\ node.rt[d] # NULL
    /\ node.rt[d].ack_timer
    /\ node' = Returned(rrep_ack_timeout(Idle(node), d))

SendHello ==
    /\ node.hello_timer
    /\ \E forwarded \in BOOLEAN, silent \in BOOLEAN, told \in Told(node) :
          node' = Returned(hello_send([Idle(node) EXCEPT !.hello_timer = FALSE],
                                      forwarded, silent, told))

(* rreq_record_timeout() *)
RecordTimeout == \E r \in node.records : node' = [Idle(node) EXCEPT !.records = @ \ {r}]

(* rreq_blacklist_timeout() *)
BlacklistTimeout == \E a \in node.blacklist : node' = [Idle(node) EXCEPT !.blacklist = @ \ {a}]

(* wait_on_reboot_timeout() *)
RebootTimeout ==
    /\ node.wait_on_reboot
    /\ node' = [Idle(node) EXCEPT !.wait_on_reboot = FALSE]

(* packet_queue_timeout() *)
GarbageCollect ==
    \E k \in 1 .. MAX_QUEUE_LENGTH :
        /\ k <= Cardinality(node.pq)
        /\ node' = packet_queue_garbage_collect(Idle(node), k)

(* cleanup() on a signal, and a new start *)
rt_table_destroy(h) ==
    [h EXCEPT !.rt = [d \in Addr |-> NULL],
              !.fib = @ \ {[dst |-> d, gw |-> h.rt[d].next_hop, metric |-> h.rt[d].hcnt]
                              : d \in {a \in Addr : Valid(h, a)}}]

Restart ==
    /\ MayRestart
    /\ node' = Returned(Boot(packet_queue_destroy(rt_table_destroy(Idle(node)))))

(* The process is killed: the kernel drops what is in NFQUEUE and keeps    *)
(* its routes.                                                             *)
Crash ==
    /\ MayRestart
    /\ node' = Returned(Boot([node EXCEPT !.nfq = {}]))

Next ==
    \/ Receive
    \/ ReceiveHello
    \/ PacketIn
    \/ \E d \in Addr : RtTimeout(d)
    \/ \E d \in Addr : SeekTimeout(d)
    \/ \E d \in Addr : HelloTimeout(d)
    \/ \E d \in Addr : AckTimeout(d)
    \/ SendHello
    \/ RecordTimeout
    \/ BlacklistTimeout
    \/ RebootTimeout
    \/ GarbageCollect
    \/ Restart
    \/ Crash

Spec == Init /\ [][Next]_node

(* A seek timer is set again only by its own handler, so it does expire. *)
FairSpec == Spec /\ \A d \in Addr : WF_node(SeekTimeout(d))

-----------------------------------------------------------------------------
(* The state of the daemon has its type. *)
TypeOK == node \in Daemon

(* Every packet that waits in the buffer waits for a route discovery that  *)
(* is under way, so that some timeout or route lets go of it.              *)
BufferedAreSought == \A p \in node.pq : node.seek[p.dest_addr] # NULL

(* The packets the kernel holds for the daemon are those in the buffer,    *)
(* each of them once: none is forgotten, none gets two verdicts.           *)
EachPacketHeldOnce ==
    /\ node.nfq = {p.packet_id : p \in node.pq}
    /\ \A p, q \in node.pq : p.packet_id = q.packet_id => p = q

(* The packets of the buffer in their order, as PacketBuffer has them. *)
Line(Q) ==
    [i \in 1 .. Cardinality(Q) |->
        LET p == CHOOSE p \in Q : p.n = i IN [id |-> p.packet_id, dest |-> p.dest_addr]]

(* The packet queue of the daemon keeps what PacketBuffer promises: with   *)
(* the eviction of packet_queue_add(), the verdicts on a whole destination *)
(* and packet_queue_garbage_collect(), no packet overtakes an earlier one  *)
(* to the same destination.                                                *)
Buffer == INSTANCE PacketBuffer WITH line <- Line(node.pq)
BuffersInOrder == Buffer!Spec

(* A destination is not sought while a usable route to it is known.        *)
SoughtHasNoRoute ==
    \A d \in Addr : node.seek[d] # NULL /\ Valid(node, d) =>
                       "UNIDIR" \in node.rt[d].flags /\ node.rt[d].hcnt = 1

(* A packet is let through only with its route in the daemon's table and   *)
(* in that of the kernel.                                                  *)
AcceptedAreRouted == \A v \in node.verdict : v.verdict = "ACCEPT" => v.routed

(* A valid route is known to the kernel. *)
ValidIsInKernel == \A d \in Addr : Valid(node, d) => \E r \in node.fib : r.dst = d

(* Every entry will go: its timer runs, or a discovery does that sets it.  *)
NoImmortalEntry ==
    \A d \in Addr : node.rt[d] # NULL => node.rt[d].rt_timer \/ node.seek[d] # NULL

(* A route that is marked for repair is not in use. *)
RepairIsInvalid ==
    \A d \in Addr : node.rt[d] # NULL /\ "REPAIR" \in node.rt[d].flags => ~ Valid(node, d)

(* "Route should already be invalidated." (aodv_timeout.c): whenever       *)
(* local_repair_timeout() may be called next, the route is not in use.     *)
RepairEndsInvalid ==
    \A d \in Addr :
        /\ node.rt[d] # NULL
        /\ \/ node.rt[d].handler = "repair" /\ node.rt[d].rt_timer
           \/ /\ "REPAIR" \in node.rt[d].flags
              /\ node.seek[d] # NULL
              /\ node.seek[d].reqs >= RREQ_RETRIES
        => ~ Valid(node, d)

(* The routes of the kernel are those of the daemon. *)
KernelInSync ==
    node.fib = {[dst |-> d, gw |-> node.rt[d].next_hop, metric |-> node.rt[d].hcnt]
                   : d \in {a \in Addr : Valid(node, a)}}

(* Whoever uses a route hears of its loss: when a valid route with         *)
(* precursors breaks and is not kept for repair, a RERR about it goes to   *)
(* each of them.  A route of several hops that expires unused is no loss.  *)
LostIn(d) ==
    /\ Valid(node, d)
    /\ node'.rt[d] # NULL
    /\ node'.rt[d].state = "INVALID"
    /\ "REPAIR" \notin node'.rt[d].flags
    /\ ~ (node.rt[d].hcnt # 1 /\ RtTimeout(d))

PrecursorsAreTold ==
    [][\A d \in Addr : LostIn(d) =>
          \A a \in node.rt[d].precursors : \E o \in node'.out :
              /\ o.msg.type = "RERR"
              /\ \E u \in o.msg.udests : u = [addr |-> d, seqno |-> node'.rt[d].dest_seqno]
              /\ o.dst \in {a, BROADCAST}]_node

(* "Better request a RREP-ack" (rrep_send()): whoever is waited for has    *)
(* been asked, so that only a silent neighbour goes to the blacklist.      *)
AwaitedAreAsked ==
    [][\A a \in Addr :
          /\ node'.rt[a] # NULL /\ node'.rt[a].ack_timer
          /\ ~ (node.rt[a] # NULL /\ node.rt[a].ack_timer)
          => \E o \in node'.out : o.dst = a /\ o.msg.type = "RREP" /\ o.msg.a]_node

(* The host's own sequence number never goes back: the difference, taken   *)
(* as a signed number (RFC 3561, 6.1), is not negative.                    *)
OwnSeqnoNeverGoesBack ==
    [][Restart \/ Crash \/ int32((node'.seqno - node.seqno) % (SEQNO_MAX + 1)) >= 0]_node

(* A packet in the buffer gets its verdict. *)
EveryPacketIsReleased == \A p \in PktId : p \in node.nfq ~> p \notin node.nfq
=============================================================================
