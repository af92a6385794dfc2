----------------------------- MODULE KaodvProofs ----------------------------
(***************************************************************************)
(* Proofs about the kernel module kaodv: the messages of a daemon, loading *)
(* and unloading keep its invariant too; what follows of its routes, its   *)
(* queue and what it leaves behind; and its queue is a packet buffer.      *)
(***************************************************************************)
EXTENDS KaodvHookProofs, FiniteSetTheorems

(* How long the provers may take for a step. *)
USE ZenonT(20), SMTT(30)

-----------------------------------------------------------------------------
(* kaodv-netlink.c                                                         *)

(* A step that leaves the packets, the queue and the module alone.         *)
LEMMA NetlinkStep ==
    ASSUME KInv, ExplOK(expl'), NlOK', nl'.entry = nl.entry, conf'.active_route_timeout \in Nat,
           closing' \in [Daemons -> {"no", "expl", "queue"}],
           expl'.list # <<>> => expl.list # <<>> \/ module.phase = "in",
           socks' # {} => module.phase = "in",
           \A d \in Daemons : closing'[d] # "no" => module.phase = "in",
           UNCHANGED <<queue, skb, module, told, ticks>>
    PROVE  KInv'
<1>1. Places' /\ AllAsked' /\ ModuleOK'
  BY SMTT(30) DEF KInv, Places, Queued, AllAsked, Asked, ModuleOK, MtuOK
<1>2. PhaseOK'
  BY DEF KInv, PhaseOK, InHook
<1>. QED
  BY <1>1, <1>2 DEF KInv

LEMMA RcvSkbKeeps ==
    ASSUME KInv, NEW d \in Daemons, NEW m \in Messages, kaodv_netlink_rcv_skb(d, m)
    PROVE  KInv'
<1>1. /\ d \in socks /\ nl = Idle /\ module.phase = "in" /\ nl.entry = NULL /\ nl.pc = "idle"
      /\ UNCHANGED <<queue, skb, socks, closing, module, told, ticks>>
  BY DEF kaodv_netlink_rcv_skb, KInv, PhaseOK, Idle
<1>2. CASE Refused(d)
  <2>1. UNCHANGED <<nl, peer_pid, expl, conf>>
    BY <1>2 DEF kaodv_netlink_rcv_skb
  <2>2. ExplOK(expl') /\ NlOK'
    BY <1>1, <2>1 DEF KInv, NlOK, Idle
  <2>. QED
    BY <1>1, <2>1, <2>2, NetlinkStep DEF KInv, PhaseOK
<1>3. CASE ~Refused(d)
  <2>1. peer_pid' = d /\ kaodv_netlink_receive_peer(d, m)
    BY <1>3 DEF kaodv_netlink_rcv_skb
  <2>2. ExplOK(expl') /\ NoNew(expl, expl')
    <3>1. expl' = kaodv_expl_del(expl, m.dst) \/ expl' = expl
      BY <2>1 DEF kaodv_netlink_receive_peer
    <3>. QED
      BY <3>1, DelKeeps DEF KInv, NoNew
  <2>3. m.type \in {"ADDROUTE", "DELROUTE", "NOROUTE_FOUND", "CONFIG"}
        /\ (m.type = "CONFIG" => m.active_route_timeout \in Nat)
    BY KaodvAssumption DEF RtMsg, ConfMsg, KAODVM
  <2>4. conf'.active_route_timeout \in Nat
    BY <2>1, <2>3 DEF kaodv_netlink_receive_peer, KInv
  <2>5. nl'.entry = NULL /\ NlOK'
    <3>1. CASE m.type = "ADDROUTE"
      <4>1. nl' = [Idle EXCEPT !.pc = IF HasRoute(expl, m.dst) THEN "send" ELSE "add", !.pid = d, !.msg = m]
            /\ expl' = expl
        BY <2>1, <3>1 DEF kaodv_netlink_receive_peer
      <4>2. nl' = [pc |-> IF HasRoute(expl, m.dst) THEN "send" ELSE "add", pid |-> d, msg |-> m, entry |-> NULL]
        BY <4>1 DEF Idle
      <4>. QED
        BY <1>1, <2>1, <3>1, <4>1, <4>2 DEF KInv, NlOK, AddMessages
    <3>2. CASE m.type \in {"DELROUTE", "NOROUTE_FOUND"}
      <4>1. nl' = [Idle EXCEPT !.pc = "drop", !.pid = d, !.msg = m]
        BY <2>1, <3>2 DEF kaodv_netlink_receive_peer
      <4>2. nl' = [pc |-> "drop", pid |-> d, msg |-> m, entry |-> NULL]
        BY <4>1 DEF Idle
      <4>. QED
        BY <1>1, <2>1, <4>2 DEF KInv, NlOK
    <3>3. CASE m.type = "CONFIG"
      <4>1. nl' = Idle
        BY <2>1, <3>3 DEF kaodv_netlink_receive_peer
      <4>. QED
        BY <1>1, <2>1, <4>1 DEF KInv, NlOK, Idle
    <3>. QED
      BY <2>3, <3>1, <3>2, <3>3
  <2>. QED
    BY <1>1, <2>2, <2>4, <2>5, NetlinkStep DEF KInv, PhaseOK
<1>. QED
  BY <1>2, <1>3

(* Nobody else has listed the destination since it was looked for.         *)
LEMMA AddRouteKeeps ==
    ASSUME KInv, AddRoute
    PROVE  KInv'
<1>. DEFINE m == nl.msg
            e == [daddr |-> m.dst, nhop |-> m.nhop, flags |-> m.flags, expires |-> Expires(m.time)]
<1>1. /\ nl.pc = "add" /\ m \in AddMessages /\ ~HasRoute(expl, m.dst)
      /\ nl.pid = peer_pid /\ nl.pid \in Daemons /\ nl.entry = NULL /\ m \in Messages /\ peer_pid # NULL
      /\ nl \in [pc : {"idle", "add", "send", "drop", "route"}, pid : Daemons \cup {NULL},
                 msg : Messages \cup {NULL}, entry : Packets \cup {NULL}]
  BY KaodvAssumption DEF AddRoute, KInv, NlOK
<1>2. /\ nl' = [nl EXCEPT !.pc = "send"]
      /\ UNCHANGED <<queue, skb, peer_pid, socks, closing, conf, module, told, ticks>>
      /\ expl' = expl \/ expl' = kaodv_expl_add(expl, e)
  BY DEF AddRoute, bounds
<1>3. m.time \in Nat
  BY <1>1, KaodvAssumption DEF AddMessages, RtMsg, ConfMsg
<1>4. Expires(m.time) \in Nat
  BY SMTT(30), <1>3, KaodvAssumption DEF Expires, jiffies, KInv
<1>5. e \in Entries /\ e.daddr = m.dst
  BY <1>1, <1>4 DEF Entries
<1>. HIDE DEF e
<1>6. ExplOK(expl')
  BY SMTT(30), <1>1, <1>2, <1>5, AddKeeps DEF KInv
<1>7. module.phase = "in"
  BY <1>1 DEF KInv, NlOK, PhaseOK
<1>8. nl'.pc = "send" /\ nl'.entry = NULL /\ nl'.pid = nl.pid /\ nl'.msg = nl.msg
      /\ nl' \in [pc : {"idle", "add", "send", "drop", "route"}, pid : Daemons \cup {NULL},
                  msg : Messages \cup {NULL}, entry : Packets \cup {NULL}]
  BY <1>1, <1>2
<1>9. NlOK'
  BY <1>1, <1>2, <1>8 DEF KInv, NlOK
<1>. QED
  BY <1>1, <1>2, <1>6, <1>7, <1>8, <1>9, NetlinkStep DEF KInv

LEMMA OpenKeeps ==
    ASSUME KInv, NEW d \in Daemons, Open(d)
    PROVE  KInv'
<1>1. /\ module.phase = "in" /\ socks' = socks \cup {d}
      /\ UNCHANGED <<expl, queue, skb, nl, peer_pid, closing, conf, module, told, ticks>>
  BY DEF Open, bounds
<1>2. ExplOK(expl') /\ NlOK'
  BY <1>1 DEF KInv, NlOK, Idle
<1>. QED
  BY <1>1, <1>2, NetlinkStep DEF KInv

LEMMA NlEventKeeps ==
    ASSUME KInv, NEW d \in Daemons, kaodv_netlink_rcv_nl_event(d)
    PROVE  KInv'
<1>1. /\ d \in socks /\ nl.pid # d /\ socks' = socks \ {d} /\ module.phase = "in"
      /\ UNCHANGED <<expl, queue, skb, nl, conf, module, told, ticks>>
  BY DEF kaodv_netlink_rcv_nl_event, bounds, KInv, PhaseOK
<1>2. closing' \in [Daemons -> {"no", "expl", "queue"}]
  BY DEF kaodv_netlink_rcv_nl_event, KInv
<1>3. NlOK'
  <2>1. CASE d = peer_pid
    <3>1. peer_pid' = NULL /\ nl.pc = "idle" /\ nl = Idle
      BY <1>1, <2>1 DEF kaodv_netlink_rcv_nl_event, KInv, NlOK
    <3>. QED
      BY <1>1, <3>1 DEF KInv, NlOK, Idle
  <2>2. CASE d # peer_pid
    <3>1. peer_pid' = peer_pid
      BY <2>2 DEF kaodv_netlink_rcv_nl_event
    <3>. QED
      BY <1>1, <2>2, <3>1 DEF KInv, NlOK, Idle
  <2>. QED
    BY <2>1, <2>2
<1>4. ExplOK(expl')
  BY <1>1 DEF KInv
<1>. QED
  BY <1>1, <1>2, <1>3, <1>4, NetlinkStep DEF KInv

LEMMA PeerFlushRoutesKeeps ==
    ASSUME KInv, NEW d \in Daemons, PeerFlushRoutes(d)
    PROVE  KInv'
<1>1. /\ closing[d] = "expl" /\ closing' = [closing EXCEPT ![d] = "queue"] /\ expl' = expl_flush(expl)
      /\ UNCHANGED <<queue, skb, nl, peer_pid, socks, conf, module, told, ticks>>
  BY DEF PeerFlushRoutes, bounds, kaodv_expl_flush
<1>2. closing' \in [Daemons -> {"no", "expl", "queue"}] /\ module.phase = "in"
  BY <1>1 DEF KInv, PhaseOK
<1>3. ExplOK(expl') /\ NoNew(expl, expl') /\ expl'.list = <<>>
  BY <1>1, FlushKeeps DEF KInv
<1>4. NlOK'
  BY <1>1, <1>3 DEF KInv, NlOK, NoNew, Idle
<1>. QED
  BY <1>1, <1>2, <1>3, <1>4, NetlinkStep DEF KInv

LEMMA PeerFlushQueueKeeps ==
    ASSUME KInv, NEW d \in Daemons, PeerFlushQueue(d)
    PROVE  KInv'
<1>1. /\ closing[d] = "queue" /\ closing' = [closing EXCEPT ![d] = "no"] /\ kaodv_queue_flush
      /\ UNCHANGED <<expl, nl, peer_pid, socks, conf, module, told, ticks>>
  BY DEF PeerFlushQueue, bounds
<1>2. closing' \in [Daemons -> {"no", "expl", "queue"}] /\ module.phase = "in"
  BY <1>1 DEF KInv, PhaseOK
<1>3. /\ DOMAIN skb' = Packets /\ skb' = [p \in Packets |-> skb'[p]]
      /\ \A p \in Packets : HookOK(skb'[p]) /\ (InHook(p)' => InHook(p))
      /\ QueueOK(queue') /\ queue'.list = <<>> /\ Places' /\ AllAsked'
  BY <1>1, FlushQueueOK
<1>4. NlOK' /\ ModuleOK' /\ ExplOK(expl')
  BY <1>1 DEF KInv, NlOK, Idle, ModuleOK, MtuOK
<1>5. PhaseOK'
  BY <1>1, <1>2, <1>3 DEF KInv, PhaseOK
<1>. QED
  BY <1>1, <1>2, <1>3, <1>4, <1>5 DEF KInv

-----------------------------------------------------------------------------
(* Inserting and removing the module                                       *)

LEMMA ModuleParts ==
    ASSUME NEW phase \in Phases, NEW hooks \in SUBSET Hooks, NEW proc \in SUBSET Procs,
           NEW ifi \in Seq(Interfaces), NEW mtu \in [ToSet(ifname) -> Int], NEW named \in Nat
    PROVE  LET m == [phase |-> phase, hooks |-> hooks, proc |-> proc, ifi |-> ifi, mtu |-> mtu, named |-> named]
           IN  /\ m \in Module /\ m.phase = phase /\ m.hooks = hooks /\ m.ifi = ifi /\ m.mtu = mtu
               /\ m.named = named
  BY DEF Module

(* A step of the module's life that leaves the interfaces alone, before or *)
(* after the time in which there are daemons and interfaces.               *)
LEMMA LifeStep ==
    ASSUME KInv, module' \in Module, module'.ifi = module.ifi, module'.mtu = module.mtu,
           module'.phase \in {"out", "tables", "netlink", "hooks", "unhooked"},
           module.phase \notin {"in", "hooks"},
           module'.hooks # {} => module'.phase \in {"netlink", "hooks"},
           module'.phase = "netlink" =>
             module'.hooks \in {{}, {"PRE_ROUTING"}, {"PRE_ROUTING", "LOCAL_OUT"}},
           DOMAIN skb' = Packets, skb' = [p \in Packets |-> skb'[p]],
           \A p \in Packets : HookOK(skb'[p]), \A p \in Packets : InHook(p)' => InHook(p),
           \A p \in Packets : InHook(p)' => module'.phase = "hooks",
           QueueOK(queue'), Places', AllAsked', ExplOK(expl'), NoNew(expl, expl'),
           queue'.list # <<>> => module'.phase \in {"hooks", "unhooked"},
           expl'.list # <<>> => module'.phase = "unhooked",
           conf'.active_route_timeout \in Nat, UNCHANGED <<nl, peer_pid, socks, closing, ticks>>
    PROVE  KInv'
<1>1. module.ifi = <<>> /\ socks = {} /\ \A d \in Daemons : closing[d] = "no"
  BY DEF KInv, PhaseOK
<1>2. PhaseOK'
  BY <1>1 DEF KInv, PhaseOK
<1>3. NlOK'
  BY DEF KInv, NlOK, NoNew, Idle
<1>4. MtuOK(module)'
  BY DEF KInv, ModuleOK, MtuOK
<1>5. ModuleOK'
  BY <1>4 DEF ModuleOK
<1>. QED
  BY <1>2, <1>3, <1>5 DEF KInv

LEMMA LoadFailedKeeps ==
    ASSUME KInv, LoadFailed, module.phase \in {"tables", "netlink"},
           UNCHANGED <<expl, nl, peer_pid, socks, closing, conf, told, ticks>>
    PROVE  KInv'
<1>1. module \in Module
  BY DEF KInv, ModuleOK
<1>2. module' = [module EXCEPT !.phase = "out", !.hooks = {}, !.proc = @ \ {"kaodv_queue"}] /\ kaodv_queue_flush
  BY DEF LoadFailed, kaodv_queue_fini
<1>3. module' \in Module /\ module'.ifi = module.ifi /\ module'.mtu = module.mtu
      /\ module'.phase = "out" /\ module'.hooks = {}
  <2>1. module.phase \in Phases /\ module.hooks \in SUBSET Hooks /\ module.proc \in SUBSET Procs
        /\ module.ifi \in Seq(Interfaces) /\ module.mtu \in [ToSet(ifname) -> Int] /\ module.named \in Nat
    BY <1>1 DEF Module
  <2>2. module' = [phase |-> "out", hooks |-> {}, proc |-> module.proc \ {"kaodv_queue"},
                   ifi |-> module.ifi, mtu |-> module.mtu, named |-> module.named]
    BY <1>1, <1>2 DEF Module
  <2>. QED
    BY <2>1, <2>2, ModuleParts DEF Phases, Hooks, Procs
<1>4. /\ DOMAIN skb' = Packets /\ skb' = [p \in Packets |-> skb'[p]]
      /\ \A p \in Packets : HookOK(skb'[p]) /\ (InHook(p)' => InHook(p))
      /\ QueueOK(queue') /\ queue'.list = <<>> /\ Places' /\ AllAsked'
  BY <1>2, FlushQueueOK
<1>5. expl'.list = <<>> /\ \A p \in Packets : ~InHook(p)
  BY DEF KInv, PhaseOK
<1>6. ExplOK(expl') /\ NoNew(expl, expl') /\ conf'.active_route_timeout \in Nat
  BY DEF KInv, NoNew
<1>. QED
  BY <1>3, <1>4, <1>5, <1>6, LifeStep

(* kaodv_expl_init() and kaodv_queue_init() find both lists empty.         *)
LEMMA LoadTablesKeeps ==
    ASSUME KInv, LoadTables
    PROVE  KInv'
<1>1. module \in Module
  BY DEF KInv, ModuleOK
<1>2. /\ module.phase = "out" /\ expl' = [expl EXCEPT !.len = 0] /\ queue' = [queue EXCEPT !.total = 0]
      /\ conf' = InitialConf /\ UNCHANGED <<skb, nl, peer_pid, socks, closing, told, ticks>>
      /\ \/ module' = [module EXCEPT !.proc = @ \cup {"kaodv_expl"}]
         \/ module' = [module EXCEPT !.phase = "tables", !.proc = @ \cup {"kaodv_expl", "kaodv_queue"}]
  BY DEF LoadTables, kaodv_expl_init, kaodv_queue_init
<1>3. expl.list = <<>> /\ queue.list = <<>> /\ module.hooks = {} /\ \A p \in Packets : ~InHook(p)
  BY <1>2 DEF KInv, PhaseOK
<1>4. module' \in Module /\ module'.ifi = module.ifi /\ module'.mtu = module.mtu
      /\ module'.phase \in {"out", "tables"} /\ module'.hooks = {}
  <2>1. module.phase \in Phases /\ module.hooks \in SUBSET Hooks /\ module.proc \in SUBSET Procs
        /\ module.ifi \in Seq(Interfaces) /\ module.mtu \in [ToSet(ifname) -> Int] /\ module.named \in Nat
    BY <1>1 DEF Module
  <2>2. PICK phase \in {"out", "tables"}, proc \in SUBSET {"kaodv_expl", "kaodv_queue"} :
          module' = [phase |-> phase, hooks |-> module.hooks, proc |-> module.proc \cup proc,
                     ifi |-> module.ifi, mtu |-> module.mtu, named |-> module.named]
    <3>1. CASE module' = [module EXCEPT !.proc = @ \cup {"kaodv_expl"}]
      <4>1. module' = [phase |-> "out", hooks |-> module.hooks, proc |-> module.proc \cup {"kaodv_expl"},
                       ifi |-> module.ifi, mtu |-> module.mtu, named |-> module.named]
        BY <1>1, <1>2, <3>1 DEF Module
      <4>. QED
        BY <4>1
    <3>2. CASE module' = [module EXCEPT !.phase = "tables", !.proc = @ \cup {"kaodv_expl", "kaodv_queue"}]
      <4>1. module' = [phase |-> "tables", hooks |-> module.hooks,
                       proc |-> module.proc \cup {"kaodv_expl", "kaodv_queue"},
                       ifi |-> module.ifi, mtu |-> module.mtu, named |-> module.named]
        BY <1>1, <3>2 DEF Module
      <4>. QED
        BY <4>1
    <3>. QED
      BY <1>2, <3>1, <3>2
  <2>. QED
    <3>1. phase \in Phases /\ module.proc \cup proc \in SUBSET Procs
      BY <2>1 DEF Phases, Procs
    <3>. QED
      BY <1>3, <2>1, <2>2, <3>1, ModuleParts
<1>5. ExplOK(expl') /\ expl'.list = expl.list
  BY SMTT(30), <1>2, <1>3 DEF KInv, ExplOK
<1>6. NoNew(expl, expl')
  BY <1>5 DEF NoNew, HasRoute, Place
<1>7. QueueOK(queue') /\ queue'.list = queue.list
  BY <1>2, <1>3 DEF KInv, QueueOK
<1>8. Places' /\ AllAsked' /\ \A p \in Packets : ~InHook(p)'
  BY SMTT(30), <1>2, <1>3, <1>7 DEF KInv, Places, Queued, AllAsked, Asked, InHook
<1>9. conf'.active_route_timeout \in Nat
  BY <1>2 DEF InitialConf
<1>10. DOMAIN skb' = Packets /\ skb' = [p \in Packets |-> skb'[p]] /\ \A p \in Packets : HookOK(skb'[p])
  BY <1>2 DEF KInv
<1>. QED
  BY <1>2, <1>3, <1>4, <1>5, <1>6, <1>7, <1>8, <1>9, <1>10, LifeStep

(* The packets and the tables, in a step that does not touch them *)
LEMMA Untouched ==
    ASSUME KInv, UNCHANGED <<expl, queue, skb, nl, conf, told>>
    PROVE  /\ DOMAIN skb' = Packets /\ skb' = [p \in Packets |-> skb'[p]]
           /\ \A p \in Packets : HookOK(skb'[p]) /\ (InHook(p)' <=> InHook(p))
           /\ QueueOK(queue') /\ Places' /\ AllAsked' /\ ExplOK(expl') /\ NoNew(expl, expl')
           /\ conf'.active_route_timeout \in Nat
  BY SMTT(30) DEF KInv, Places, Queued, AllAsked, Asked, InHook, NoNew

LEMMA LoadNetlinkKeeps ==
    ASSUME KInv, LoadNetlink
    PROVE  KInv'
<1>1. module \in Module
  BY DEF KInv, ModuleOK
<1>2. module.phase = "tables" /\ UNCHANGED <<expl, nl, peer_pid, socks, closing, conf, told, ticks>>
  BY DEF LoadNetlink, bounds
<1>3. CASE LoadFailed
  BY <1>2, <1>3, LoadFailedKeeps
<1>4. CASE module' = [module EXCEPT !.phase = "netlink"] /\ UNCHANGED <<queue, skb>>
  <2>1. module' \in Module /\ module'.ifi = module.ifi /\ module'.mtu = module.mtu
        /\ module'.phase = "netlink" /\ module'.hooks = module.hooks
    <3>1. module.phase \in Phases /\ module.hooks \in SUBSET Hooks /\ module.proc \in SUBSET Procs
          /\ module.ifi \in Seq(Interfaces) /\ module.mtu \in [ToSet(ifname) -> Int] /\ module.named \in Nat
      BY <1>1 DEF Module
    <3>2. module' = [phase |-> "netlink", hooks |-> module.hooks, proc |-> module.proc,
                     ifi |-> module.ifi, mtu |-> module.mtu, named |-> module.named]
      BY <1>1, <1>4 DEF Module
    <3>. QED
      BY <3>1, <3>2, ModuleParts DEF Phases
  <2>2. expl.list = <<>> /\ queue.list = <<>> /\ module.hooks = {} /\ \A p \in Packets : ~InHook(p)
    BY <1>2 DEF KInv, PhaseOK
  <2>. QED
    BY <1>2, <1>4, <2>1, <2>2, LifeStep, Untouched
<1>. QED
  BY <1>3, <1>4 DEF LoadNetlink

(* nf_register_hook() of the next of kaodv_ops                             *)
LEMMA LoadHookKeeps ==
    ASSUME KInv, LoadHook
    PROVE  KInv'
<1>. DEFINE n == Cardinality(module.hooks) + 1
<1>1. module \in Module
  BY DEF KInv, ModuleOK
<1>2. module.phase = "netlink" /\ UNCHANGED <<expl, nl, peer_pid, socks, closing, conf, told, ticks>>
  BY DEF LoadHook, bounds
<1>3. CASE LoadFailed
  BY <1>2, <1>3, LoadFailedKeeps
<1>4. CASE /\ module' = [module EXCEPT !.hooks = @ \cup {kaodv_ops[n]}, !.phase = IF n = 3 THEN "hooks" ELSE @]
           /\ UNCHANGED <<queue, skb>>
  <2>1. module.hooks \in {{}, {"PRE_ROUTING"}, {"PRE_ROUTING", "LOCAL_OUT"}}
    BY <1>2 DEF KInv, PhaseOK
  <2>2. Cardinality({}) = 0 /\ Cardinality({"PRE_ROUTING"}) = 1 /\ Cardinality({"PRE_ROUTING", "LOCAL_OUT"}) = 2
    <3>1. Cardinality({}) = 0 /\ Cardinality({"PRE_ROUTING"}) = 1 /\ IsFiniteSet({"PRE_ROUTING"})
      BY FS_EmptySet, FS_Singleton
    <3>2. "LOCAL_OUT" \notin {"PRE_ROUTING"}
      OBVIOUS
    <3>3. Cardinality({"PRE_ROUTING"} \cup {"LOCAL_OUT"}) = Cardinality({"PRE_ROUTING"}) + 1
      BY <3>1, <3>2, FS_AddElement
    <3>4. {"PRE_ROUTING"} \cup {"LOCAL_OUT"} = {"PRE_ROUTING", "LOCAL_OUT"}
      OBVIOUS
    <3>. QED
      BY SMTT(30), <3>1, <3>3, <3>4
  <2>3. \/ module.hooks = {} /\ n = 1
        \/ module.hooks = {"PRE_ROUTING"} /\ n = 2
        \/ module.hooks = {"PRE_ROUTING", "LOCAL_OUT"} /\ n = 3
    BY SMTT(30), <2>1, <2>2
  <2>4. kaodv_ops[1] = "PRE_ROUTING" /\ kaodv_ops[2] = "LOCAL_OUT" /\ kaodv_ops[3] = "POST_ROUTING"
    BY DEF kaodv_ops
  <2>. HIDE DEF n
  <2>5. kaodv_ops[n] \in Hooks
    BY <2>3, <2>4 DEF Hooks
  <2>6. module' \in Module /\ module'.ifi = module.ifi /\ module'.mtu = module.mtu
        /\ module'.phase = (IF n = 3 THEN "hooks" ELSE "netlink") /\ module'.hooks = module.hooks \cup {kaodv_ops[n]}
    <3>1. module.phase \in Phases /\ module.hooks \in SUBSET Hooks /\ module.proc \in SUBSET Procs
          /\ module.ifi \in Seq(Interfaces) /\ module.mtu \in [ToSet(ifname) -> Int] /\ module.named \in Nat
      BY <1>1 DEF Module
    <3>. DEFINE ph == IF n = 3 THEN "hooks" ELSE "netlink"  h == module.hooks \cup {kaodv_ops[n]}
    <3>2. module' = [module EXCEPT !.hooks = h, !.phase = ph]
      BY <1>2, <1>4
    <3>3. ph \in Phases /\ h \in SUBSET Hooks
      BY <2>5, <3>1 DEF Phases
    <3>. HIDE DEF ph, h
    <3>4. module' = [phase |-> ph, hooks |-> h, proc |-> module.proc, ifi |-> module.ifi,
                     mtu |-> module.mtu, named |-> module.named]
      BY <1>1, <3>2 DEF Module
    <3>5. module' \in Module /\ module'.ifi = module.ifi /\ module'.mtu = module.mtu
          /\ module'.phase = ph /\ module'.hooks = h
      BY <3>1, <3>3, <3>4, ModuleParts
    <3>. QED
      BY <3>5 DEF ph, h
  <2>7. /\ module'.phase \in {"netlink", "hooks"}
        /\ module'.phase = "netlink" => module'.hooks \in {{}, {"PRE_ROUTING"}, {"PRE_ROUTING", "LOCAL_OUT"}}
    BY <2>3, <2>4, <2>6
  <2>8. expl.list = <<>> /\ queue.list = <<>> /\ \A p \in Packets : ~InHook(p)
    BY <1>2 DEF KInv, PhaseOK
  <2>. QED
    BY <1>2, <1>4, <2>6, <2>7, <2>8, LifeStep, Untouched
<1>. QED
  BY <1>3, <1>4 DEF LoadHook

(* if_info_add() puts an entry in front: the last entry of an interface    *)
(* stays the one that was made when it had its old MTU.                    *)
LEMMA IfInfoAdd ==
    ASSUME NEW m \in Module, MtuOK(m), NEW dev \in ToSet(ifname)
    PROVE  LET z == if_info_add(m, dev) IN
           /\ z \in Module /\ MtuOK(z) /\ z.phase = m.phase /\ z.hooks = m.hooks
<1>. DEFINE f == [dev |-> dev, orig_mtu |-> m.mtu[dev]]
            ifi == <<f>> \o m.ifi
            mtu == [m.mtu EXCEPT ![dev] = @ - MIN_IP_ENCAP_SIZE]
            z == if_info_add(m, dev)
<1>1. m.phase \in Phases /\ m.hooks \in SUBSET Hooks /\ m.proc \in SUBSET Procs
      /\ m.ifi \in Seq(Interfaces) /\ m.mtu \in [ToSet(ifname) -> Int] /\ m.named \in Nat
  BY DEF Module
<1>2. f \in Interfaces /\ f.dev = dev /\ f.orig_mtu = m.mtu[dev]
  BY <1>1 DEF Interfaces
<1>. HIDE DEF f
<1>3. /\ ifi \in Seq(Interfaces) /\ Len(ifi) = Len(m.ifi) + 1 /\ ifi[1] = f
      /\ \A k \in 1 .. Len(m.ifi) : ifi[k + 1] = m.ifi[k]
  BY SMTT(30), <1>1, <1>2
<1>4. mtu \in [ToSet(ifname) -> Int] /\ \A e \in ToSet(ifname) : e # dev => mtu[e] = m.mtu[e]
  BY SMTT(30), <1>1, KaodvAssumption
<1>5. z = [m EXCEPT !.ifi = ifi, !.mtu = mtu]
  <2>1. z = [m EXCEPT !.ifi = ifi, !.mtu[dev] = @ - MIN_IP_ENCAP_SIZE]
    BY DEF if_info_add, f
  <2>. HIDE DEF ifi
  <2>. QED
    BY <2>1 DEF Module
<1>. HIDE DEF ifi, mtu, z
<1>6. z = [phase |-> m.phase, hooks |-> m.hooks, proc |-> m.proc, ifi |-> ifi, mtu |-> mtu, named |-> m.named]
  BY <1>5 DEF Module
<1>7. z \in Module /\ z.phase = m.phase /\ z.hooks = m.hooks /\ z.ifi = ifi /\ z.mtu = mtu
  BY <1>1, <1>3, <1>4, <1>6, ModuleParts
<1>8. Len(m.ifi) \in Nat
  BY SMTT(30), <1>1
<1>9. ASSUME NEW e \in ToSet(ifname), \A k \in 1 .. Len(ifi) : ifi[k].dev # e
      PROVE  mtu[e] = MTU
  <2>1. e # dev
    BY SMTT(30), <1>2, <1>3, <1>8, <1>9
  <2>2. \A k \in 1 .. Len(m.ifi) : m.ifi[k].dev # e
    <3>. TAKE k \in 1 .. Len(m.ifi)
    <3>1. k + 1 \in 1 .. Len(ifi) /\ ifi[k + 1] = m.ifi[k]
      BY SMTT(30), <1>3, <1>8
    <3>. QED
      BY <1>9, <3>1
  <2>. QED
    BY <1>4, <2>1, <2>2 DEF MtuOK
<1>10. ASSUME NEW k \in 1 .. Len(ifi), \A j \in k + 1 .. Len(ifi) : ifi[j].dev # ifi[k].dev
       PROVE  ifi[k].orig_mtu = MTU
  <2>1. CASE k = 1
    <3>1. \A j \in 1 .. Len(m.ifi) : m.ifi[j].dev # dev
      <4>. TAKE j \in 1 .. Len(m.ifi)
      <4>1. j + 1 \in k + 1 .. Len(ifi) /\ ifi[j + 1] = m.ifi[j]
        BY SMTT(30), <1>3, <1>8, <2>1
      <4>. QED
        BY <1>2, <1>3, <1>10, <2>1, <4>1
    <3>2. m.mtu[dev] = MTU
      BY <3>1 DEF MtuOK
    <3>. QED
      BY <1>2, <1>3, <2>1, <3>2
  <2>2. CASE k # 1
    <3>. DEFINE i == k - 1
    <3>1. i \in 1 .. Len(m.ifi) /\ k = i + 1
      BY SMTT(30), <1>3, <1>8, <2>2
    <3>. HIDE DEF i
    <3>2. ifi[k] = m.ifi[i]
      BY <1>3, <3>1
    <3>3. \A j \in i + 1 .. Len(m.ifi) : m.ifi[j].dev # m.ifi[i].dev
      <4>. TAKE j \in i + 1 .. Len(m.ifi)
      <4>1. j \in 1 .. Len(m.ifi) /\ j + 1 \in k + 1 .. Len(ifi)
        BY SMTT(30), <1>3, <1>8, <3>1
      <4>2. ifi[j + 1] = m.ifi[j]
        BY <1>3, <4>1
      <4>. QED
        BY <1>10, <3>2, <4>1, <4>2
    <3>4. m.ifi[i].orig_mtu = MTU
      BY <3>1, <3>3 DEF MtuOK
    <3>. QED
      BY <3>2, <3>4
  <2>. QED
    BY <2>1, <2>2
<1>11. MtuOK(z)
  BY <1>7, <1>9, <1>10 DEF MtuOK
<1>. QED
  BY <1>7, <1>11 DEF z

(* if_info_purge() gives every interface its old MTU, also one that was    *)
(* named more than once.                                                   *)
LEMMA IfInfoPurge ==
    ASSUME NEW m \in Module, MtuOK(m)
    PROVE  if_info_purge(m) = [m EXCEPT !.ifi = <<>>, !.mtu = [dev \in ToSet(ifname) |-> MTU]]
<1>. DEFINE Of(dev) == SelectLastInSeq(m.ifi, LAMBDA i : i.dev = dev)
            I(dev) == {i \in 1 .. Len(m.ifi) : m.ifi[i].dev = dev}
            old == [dev \in DOMAIN m.mtu |-> IF Of(dev) = 0 THEN m.mtu[dev] ELSE m.ifi[Of(dev)].orig_mtu]
<1>1. m.ifi \in Seq(Interfaces) /\ DOMAIN m.mtu = ToSet(ifname) /\ Len(m.ifi) \in Nat
  BY SMTT(30) DEF Module
<1>2. if_info_purge(m) = [m EXCEPT !.ifi = <<>>, !.mtu = old]
  <2>. DEFINE at == [dev \in DOMAIN m.mtu |-> Of(dev)]
  <2>1. if_info_purge(m) = Restored(m, at)
    BY DEF if_info_purge
  <2>2. \A dev \in DOMAIN m.mtu : at[dev] = Of(dev)
    OBVIOUS
  <2>. HIDE DEF at, Of
  <2>3. old = [dev \in DOMAIN m.mtu |-> IF at[dev] = 0 THEN m.mtu[dev] ELSE m.ifi[at[dev]].orig_mtu]
    BY <2>2
  <2>. QED
    BY <2>1, <2>3 DEF Restored
<1>3. ASSUME NEW dev \in ToSet(ifname)
      PROVE  (IF Of(dev) = 0 THEN m.mtu[dev] ELSE m.ifi[Of(dev)].orig_mtu) = MTU
  <2>1. Of(dev) = IF I(dev) # {} THEN Max(I(dev)) ELSE 0
    BY DEF SelectLastInSeq
  <2>2. I(dev) \in SUBSET (0 .. Len(m.ifi))
    BY SMTT(30)
  <2>. HIDE DEF Of
  <2>3. CASE I(dev) = {}
    BY <2>1, <2>3 DEF MtuOK
  <2>4. CASE I(dev) # {}
    <3>. HIDE DEF I
    <3>1. Of(dev) \in I(dev) /\ \A i \in I(dev) : i <= Of(dev)
      BY <1>1, <2>1, <2>2, <2>4, MaxIsGreatest
    <3>2. Of(dev) \in 1 .. Len(m.ifi) /\ m.ifi[Of(dev)].dev = dev
      BY <3>1 DEF I
    <3>3. \A j \in Of(dev) + 1 .. Len(m.ifi) : m.ifi[j].dev # m.ifi[Of(dev)].dev
      <4>. TAKE j \in Of(dev) + 1 .. Len(m.ifi)
      <4>1. j \in 1 .. Len(m.ifi) /\ ~(j <= Of(dev))
        BY SMTT(30), <1>1, <3>2
      <4>2. j \notin I(dev)
        BY <3>1, <4>1
      <4>. QED
        BY <3>2, <4>1, <4>2 DEF I
    <3>4. m.ifi[Of(dev)].orig_mtu = MTU
      BY <3>2, <3>3 DEF MtuOK
    <3>5. Of(dev) # 0
      BY SMTT(30), <3>2
    <3>. QED
      BY <3>4, <3>5
  <2>. QED
    BY <2>3, <2>4
<1>. HIDE DEF Of
<1>4. old = [dev \in ToSet(ifname) |-> MTU]
  BY <1>1, <1>3
<1>. QED
  BY <1>2, <1>4

LEMMA LoadInterfaceKeeps ==
    ASSUME KInv, LoadInterface
    PROVE  KInv'
<1>. DEFINE n == module.named + 1
<1>1. module \in Module /\ MtuOK(module)
  BY DEF KInv, ModuleOK
<1>2. module.phase \in Phases /\ module.hooks \in SUBSET Hooks /\ module.proc \in SUBSET Procs
      /\ module.ifi \in Seq(Interfaces) /\ module.mtu \in [ToSet(ifname) -> Int] /\ module.named \in Nat
  BY <1>1 DEF Module
<1>3. /\ module.phase = "hooks"
      /\ UNCHANGED <<expl, queue, skb, nl, peer_pid, socks, closing, conf, told, ticks>>
  BY DEF LoadInterface, bounds
<1>4. module' \in Module /\ MtuOK(module') /\ module'.phase \in {"hooks", "in"}
  <2>1. CASE n > Len(ifname)
    <3>1. module' = [module EXCEPT !.phase = "in", !.proc = @ \cup {"kaodv"}]
      BY <2>1 DEF LoadInterface
    <3>2. module' = [phase |-> "in", hooks |-> module.hooks, proc |-> module.proc \cup {"kaodv"},
                     ifi |-> module.ifi, mtu |-> module.mtu, named |-> module.named]
      BY <1>1, <3>1 DEF Module
    <3>3. "in" \in Phases /\ module.proc \cup {"kaodv"} \in SUBSET Procs
      BY <1>2 DEF Phases, Procs
    <3>4. module' \in Module /\ module'.phase = "in" /\ module'.ifi = module.ifi /\ module'.mtu = module.mtu
      BY <1>2, <3>2, <3>3, ModuleParts
    <3>. QED
      BY <1>1, <3>4 DEF MtuOK
  <2>2. CASE ~(n > Len(ifname))
    <3>1. ifname[n] \in ToSet(ifname)
      <4>1. n \in 1 .. Len(ifname)
        BY SMTT(30), <1>2, <2>2, KaodvAssumption
      <4>. QED
        BY SMTT(30), <4>1, KaodvAssumption DEF ToSet
    <3>. DEFINE y == IF ifname[n] \in Devices THEN if_info_add(module, ifname[n]) ELSE module
    <3>2. module' = [y EXCEPT !.named = n]
      BY <2>2 DEF LoadInterface
    <3>3. y \in Module /\ MtuOK(y) /\ y.phase = "hooks"
      BY <1>1, <1>3, <3>1, IfInfoAdd
    <3>4. n \in Nat
      BY SMTT(30), <1>2
    <3>. HIDE DEF y, n
    <3>5. module' \in Module /\ module'.phase = "hooks" /\ module'.ifi = y.ifi /\ module'.mtu = y.mtu
      <4>1. y.phase \in Phases /\ y.hooks \in SUBSET Hooks /\ y.proc \in SUBSET Procs
            /\ y.ifi \in Seq(Interfaces) /\ y.mtu \in [ToSet(ifname) -> Int]
        BY <3>3 DEF Module
      <4>2. module' = [phase |-> y.phase, hooks |-> y.hooks, proc |-> y.proc, ifi |-> y.ifi, mtu |-> y.mtu,
                       named |-> n]
        BY <3>2, <3>3 DEF Module
      <4>. QED
        BY <3>3, <3>4, <4>1, <4>2, ModuleParts
    <3>. QED
      BY <3>3, <3>5 DEF MtuOK
  <2>. QED
    BY <2>1, <2>2
<1>5. ModuleOK'
  BY <1>4 DEF ModuleOK, MtuOK
<1>6. PhaseOK'
  BY <1>3, <1>4, Untouched DEF KInv, PhaseOK
<1>7. NlOK'
  BY <1>3 DEF KInv, NlOK, Idle
<1>. QED
  BY <1>3, <1>5, <1>6, <1>7, Untouched DEF KInv

LEMMA UnloadInterfacesKeeps ==
    ASSUME KInv, UnloadInterfaces
    PROVE  KInv'
<1>. DEFINE mtu == [dev \in ToSet(ifname) |-> MTU]
<1>1. module \in Module /\ MtuOK(module)
  BY DEF KInv, ModuleOK
<1>2. module.phase \in Phases /\ module.hooks \in SUBSET Hooks /\ module.proc \in SUBSET Procs
      /\ module.ifi \in Seq(Interfaces) /\ module.mtu \in [ToSet(ifname) -> Int] /\ module.named \in Nat
  BY <1>1 DEF Module
<1>3. /\ module.phase = "in" /\ socks = {} /\ \A d \in Daemons : closing[d] = "no"
      /\ module' = [if_info_purge(module) EXCEPT !.phase = "purged", !.named = 0]
      /\ UNCHANGED <<expl, queue, skb, nl, peer_pid, socks, closing, conf, told, ticks>>
  BY DEF UnloadInterfaces, bounds
<1>4. if_info_purge(module) = [module EXCEPT !.ifi = <<>>, !.mtu = mtu]
  BY <1>1, IfInfoPurge
<1>5. mtu \in [ToSet(ifname) -> Int] /\ \A dev \in ToSet(ifname) : mtu[dev] = MTU
  BY SMTT(30), KaodvAssumption
<1>. HIDE DEF mtu
<1>6. module' = [phase |-> "purged", hooks |-> module.hooks, proc |-> module.proc, ifi |-> <<>>,
                 mtu |-> mtu, named |-> 0]
  BY <1>1, <1>3, <1>4 DEF Module
<1>7. "purged" \in Phases /\ <<>> \in Seq(Interfaces)
  BY SMTT(30) DEF Phases
<1>8. module' \in Module /\ module'.phase = "purged" /\ module'.hooks = module.hooks /\ module'.ifi = <<>>
      /\ module'.mtu = mtu
  BY <1>2, <1>5, <1>6, <1>7, ModuleParts
<1>9. ModuleOK'
  BY SMTT(30), <1>5, <1>8 DEF ModuleOK, MtuOK
<1>10. PhaseOK'
  BY <1>3, <1>8, Untouched DEF KInv, PhaseOK
<1>11. NlOK'
  BY <1>3 DEF KInv, NlOK, Idle
<1>. QED
  BY <1>3, <1>9, <1>10, <1>11, Untouched DEF KInv

LEMMA UnloadHooksKeeps ==
    ASSUME KInv, UnloadHooks
    PROVE  KInv'
<1>1. module \in Module
  BY DEF KInv, ModuleOK
<1>2. module.phase \in Phases /\ module.hooks \in SUBSET Hooks /\ module.proc \in SUBSET Procs
      /\ module.ifi \in Seq(Interfaces) /\ module.mtu \in [ToSet(ifname) -> Int] /\ module.named \in Nat
  BY <1>1 DEF Module
<1>3. /\ module.phase = "purged" /\ \A p \in Packets : ~InHook(p)
      /\ module' = [module EXCEPT !.phase = "unhooked", !.hooks = {}, !.proc = @ \ {"kaodv"}]
      /\ UNCHANGED <<expl, queue, skb, nl, peer_pid, socks, closing, conf, told, ticks>>
  BY DEF UnloadHooks, bounds
<1>4. module' = [phase |-> "unhooked", hooks |-> {}, proc |-> module.proc \ {"kaodv"},
                 ifi |-> module.ifi, mtu |-> module.mtu, named |-> module.named]
  BY <1>1, <1>3 DEF Module
<1>5. "unhooked" \in Phases /\ {} \in SUBSET Hooks /\ module.proc \ {"kaodv"} \in SUBSET Procs
  BY <1>2 DEF Phases
<1>6. module' \in Module /\ module'.phase = "unhooked" /\ module'.hooks = {} /\ module'.ifi = module.ifi
      /\ module'.mtu = module.mtu
  BY <1>2, <1>4, <1>5, ModuleParts
<1>. QED
  BY <1>3, <1>6, Untouched, LifeStep

LEMMA UnloadTablesKeeps ==
    ASSUME KInv, UnloadTables
    PROVE  KInv'
<1>1. module \in Module
  BY DEF KInv, ModuleOK
<1>2. module.phase \in Phases /\ module.hooks \in SUBSET Hooks /\ module.proc \in SUBSET Procs
      /\ module.ifi \in Seq(Interfaces) /\ module.mtu \in [ToSet(ifname) -> Int] /\ module.named \in Nat
  BY <1>1 DEF Module
<1>3. /\ module.phase = "unhooked" /\ kaodv_queue_flush /\ expl' = expl_flush(expl)
      /\ module' = [module EXCEPT !.phase = "out", !.proc = @ \ {"kaodv_expl", "kaodv_queue"}]
      /\ UNCHANGED <<nl, peer_pid, socks, closing, conf, told, ticks>>
  BY DEF UnloadTables, bounds, kaodv_queue_fini, kaodv_expl_fini
<1>4. module' = [phase |-> "out", hooks |-> module.hooks, proc |-> module.proc \ {"kaodv_expl", "kaodv_queue"},
                 ifi |-> module.ifi, mtu |-> module.mtu, named |-> module.named]
  BY <1>1, <1>3 DEF Module
<1>5. "out" \in Phases /\ module.proc \ {"kaodv_expl", "kaodv_queue"} \in SUBSET Procs
  BY <1>2 DEF Phases
<1>6. module' \in Module /\ module'.phase = "out" /\ module'.hooks = module.hooks /\ module'.ifi = module.ifi
      /\ module'.mtu = module.mtu
  BY <1>2, <1>4, <1>5, ModuleParts
<1>7. module.hooks = {} /\ \A p \in Packets : ~InHook(p)
  BY <1>3 DEF KInv, PhaseOK
<1>8. /\ DOMAIN skb' = Packets /\ skb' = [p \in Packets |-> skb'[p]]
      /\ \A p \in Packets : HookOK(skb'[p]) /\ (InHook(p)' => InHook(p))
      /\ QueueOK(queue') /\ queue'.list = <<>> /\ Places' /\ AllAsked'
  BY <1>3, FlushQueueOK
<1>9. ExplOK(expl') /\ NoNew(expl, expl') /\ expl'.list = <<>>
  BY <1>3, FlushKeeps DEF KInv
<1>10. conf'.active_route_timeout \in Nat
  BY <1>3 DEF KInv
<1>. QED
  BY <1>3, <1>6, <1>7, <1>8, <1>9, <1>10, LifeStep

(* A tick of the clock, or a step of something else                        *)
LEMMA TickKeeps ==
    ASSUME KInv, ticks' \in Nat,
           UNCHANGED <<expl, queue, skb, nl, peer_pid, socks, closing, conf, module, told>>
    PROVE  KInv'
<1>1. NlOK' /\ ModuleOK' /\ PhaseOK'
  BY DEF KInv, NlOK, Idle, ModuleOK, MtuOK, PhaseOK, InHook
<1>. QED
  BY <1>1, Untouched DEF KInv

-----------------------------------------------------------------------------
(* The invariant                                                           *)

LEMMA InitKInv == Init => KInv
<1>. SUFFICES ASSUME Init PROVE KInv
  OBVIOUS
<1>1. PICK kind \in [Packets -> Kinds] :
         skb = [p \in Packets |->
                 [pc |-> "arrives", hook |-> kind[p].hook, src |-> kind[p].src,
                  dst |-> kind[p].dst, proto |-> kind[p].proto, inner |-> kind[p].inner,
                  dev |-> kind[p].dev, then |-> NULL, todo |-> <<>>, r |-> NULL, e |-> NULL]]
  BY DEF Init
<1>2. ASSUME NEW p \in Packets PROVE HookOK(skb[p]) /\ skb[p].pc = "arrives"
  <2>. DEFINE k == kind[p]  s == skb[p]
  <2>1. k \in Kinds
    OBVIOUS
  <2>2. s = [pc |-> "arrives", hook |-> k.hook, src |-> k.src, dst |-> k.dst, proto |-> k.proto,
             inner |-> k.inner, dev |-> k.dev, then |-> NULL, todo |-> <<>>, r |-> NULL, e |-> NULL]
    BY <1>1
  <2>3. k.src \in Addrs /\ k.dst \in Addrs /\ k.proto \in Protos /\ <<>> \in Seq(Todo)
        /\ k.inner \in {NULL} \cup {i.inner : i \in Kinds} \cup [dst : Addrs, proto : Protos]
    BY SMTT(30), <2>1 DEF Addrs, Protos
  <2>4. k.proto = "mipe" => k.inner.dst \in Addrs /\ k.inner.proto \in Protos
    BY <2>1 DEF Addrs, Protos, Tunnelled
  <2>. HIDE DEF s, k
  <2>5. s \in Skbs
    BY <2>1, <2>2, <2>3 DEF Skbs
  <2>6. s.pc = "arrives" /\ s.then = NULL /\ s.proto = k.proto /\ s.inner = k.inner
    BY <2>2
  <2>7. HookOK(s)
    BY <2>4, <2>5, <2>6, KaodvAssumption DEF HookOK
  <2>. QED
    BY <2>6, <2>7 DEF s
<1>3. DOMAIN skb = Packets /\ skb = [p \in Packets |-> skb[p]]
  BY <1>1
<1>4. ExplOK(expl) /\ expl.list = <<>>
  BY SMTT(30), KaodvAssumption DEF Init, ExplOK, InOrder
<1>5. QueueOK(queue) /\ queue.list = <<>>
  BY SMTT(30), KaodvAssumption DEF Init, EmptyQueue, QueueOK
<1>6. NlOK /\ nl.entry = NULL
  BY DEF Init, Idle, NlOK
<1>7. Places
  BY SMTT(30), <1>2, <1>5, <1>6, KaodvAssumption DEF Places, Queued
<1>8. AllAsked
  BY <1>2 DEF AllAsked
<1>9. PhaseOK
  BY <1>2, <1>4, <1>5 DEF PhaseOK, InHook, Init
<1>10. ModuleOK
  <2>1. module = [phase |-> "out", hooks |-> {}, proc |-> {}, ifi |-> <<>>,
                  mtu |-> [d \in ToSet(ifname) |-> MTU], named |-> 0]
    BY DEF Init
  <2>2. [d \in ToSet(ifname) |-> MTU] \in [ToSet(ifname) -> Int] /\ "out" \in Phases
        /\ {} \in SUBSET Hooks /\ {} \in SUBSET Procs /\ <<>> \in Seq(Interfaces) /\ 0 \in Nat
    BY SMTT(30), KaodvAssumption DEF Phases
  <2>3. module \in Module /\ module.ifi = <<>> /\ module.mtu = [d \in ToSet(ifname) |-> MTU]
    BY <2>1, <2>2, ModuleParts
  <2>. QED
    BY SMTT(30), <2>3 DEF ModuleOK, MtuOK
<1>11. ticks \in Nat /\ conf.active_route_timeout \in Nat /\ closing \in [Daemons -> {"no", "expl", "queue"}]
  BY DEF Init, InitialConf
<1>. QED
  BY <1>2, <1>3, <1>4, <1>5, <1>6, <1>7, <1>8, <1>9, <1>10, <1>11 DEF KInv

LEMMA NextKInv == KInv /\ [Next]_vars => KInv'
<1>. SUFFICES ASSUME KInv, [Next]_vars PROVE KInv'
  OBVIOUS
<1>1. ASSUME NEW p \in Packets, HookStep(p) PROVE KInv'
  BY <1>1, HookKeeps, RefreshGetKeeps, RefreshUpdateKeeps, ClassifyKeeps, LookUpKeeps,
     FindQueuedKeeps, EnqueueKeeps, EncapsulateKeeps DEF HookStep
<1>2. ASSUME NEW d \in Daemons, NEW m \in Messages, kaodv_netlink_rcv_skb(d, m) PROVE KInv'
  BY <1>2, RcvSkbKeeps
<1>3. ASSUME NEW d \in Daemons,
             Open(d) \/ kaodv_netlink_rcv_nl_event(d) \/ PeerFlushRoutes(d) \/ PeerFlushQueue(d)
      PROVE  KInv'
  BY <1>3, OpenKeeps, NlEventKeeps, PeerFlushRoutesKeeps, PeerFlushQueueKeeps
<1>4. CASE AddRoute \/ VerdictDequeue \/ VerdictSend
  BY <1>4, AddRouteKeeps, VerdictDequeueKeeps, VerdictSendKeeps
<1>5. CASE LoadTables \/ LoadNetlink \/ LoadHook \/ LoadInterface
  BY <1>5, LoadTablesKeeps, LoadNetlinkKeeps, LoadHookKeeps, LoadInterfaceKeeps
<1>6. CASE UnloadInterfaces \/ UnloadHooks \/ UnloadTables
  BY <1>6, UnloadInterfacesKeeps, UnloadHooksKeeps, UnloadTablesKeeps
<1>7. CASE Tick
  <2>1. ticks' \in Nat
    BY SMTT(30), <1>7 DEF Tick, KInv
  <2>. QED
    BY <1>7, <2>1, TickKeeps DEF Tick
<1>8. CASE UNCHANGED vars
  <2>1. ticks' \in Nat
    BY <1>8 DEF vars, KInv
  <2>. QED
    BY <1>8, <2>1, TickKeeps DEF vars
<1>. QED
  BY <1>1, <1>2, <1>3, <1>4, <1>5, <1>6, <1>7, <1>8 DEF Next

(* The invariant of the kernel module holds in every state: what is in its *)
(* tables, where each packet is, and what may be there in which phase of   *)
(* its life.                                                               *)
THEOREM KaodvInvariant == Spec => []KInv
<1>. QED
  BY InitKInv, NextKInv, PTL DEF Spec

(* The list of routes stays in the order of the expiry times, and lists no *)
(* destination twice.                                                      *)
THEOREM RoutesStayInOrder == Spec => []RoutesInOrder
<1>1. KInv => RoutesInOrder
  <2>. SUFFICES ASSUME KInv PROVE RoutesInOrder
    OBVIOUS
  <2>1. expl.list \in Seq(Entries) /\ InOrder(expl.list)
    BY DEF KInv, ExplOK
  <2>. QED
    BY SMTT(30), <2>1 DEF RoutesInOrder, InOrder
<1>. QED
  BY <1>1, KaodvInvariant, PTL

(* expl_len never falls behind the list of routes, which never outgrows    *)
(* EXPL_MAX_LEN, and the length of the queue that /proc shows is exact and *)
(* within queue_maxlen.                                                    *)
THEOREM CountersCover == Spec => []CountersCoverTheLists
<1>1. KInv => CountersCoverTheLists
  <2>. SUFFICES ASSUME KInv PROVE CountersCoverTheLists
    OBVIOUS
  <2>. DEFINE addrs == [i \in DOMAIN expl.list |-> expl.list[i].daddr]
  <2>1. /\ expl.list \in Seq(Entries) /\ Len(expl.list) <= expl.len /\ Len(expl.list) <= EXPL_MAX_LEN
        /\ queue.total = Len(queue.list) /\ Len(queue.list) <= queue.maxlen
    BY DEF KInv, ExplOK, QueueOK
  <2>2. Len(addrs) = Len(expl.list)
    BY SMTT(30), <2>1
  <2>3. kaodv_expl_print.total = expl.len /\ kaodv_expl_print.addrs = addrs
        /\ kaodv_queue_get_info.length = queue.total
    BY DEF kaodv_expl_print, kaodv_queue_get_info
  <2>. QED
    BY <2>1, <2>2, <2>3 DEF CountersCoverTheLists
<1>. QED
  BY <1>1, KaodvInvariant, PTL

(* The elements of a list that lists nothing twice are as many as its      *)
(* length.                                                                 *)
LEMMA DistinctCount ==
    ASSUME NEW S, NEW q \in Seq(S), \A i, j \in 1 .. Len(q) : q[i] = q[j] => i = j
    PROVE  IsFiniteSet(ToSet(q)) /\ Cardinality(ToSet(q)) = Len(q)
<1>1. Len(q) \in Nat /\ DOMAIN q = 1 .. Len(q)
  OBVIOUS
<1>2. q \in Bijection(1 .. Len(q), ToSet(q))
  <2>1. q \in [1 .. Len(q) -> ToSet(q)]
    BY <1>1 DEF ToSet
  <2>. QED
    BY <1>1, <2>1 DEF Bijection, Injection, IsInjective, Surjection, ToSet
<1>3. ExistsBijection(1 .. Len(q), ToSet(q))
  BY <1>2 DEF ExistsBijection
<1>4. IsFiniteSet(ToSet(q))
  BY <1>1, <1>3, FS_NatBijection
<1>. QED
  BY <1>1, <1>3, <1>4, FS_CountingElements

(* A packet is held if and only if it is in the queue, once, and on its    *)
(* way out if and only if kaodv_queue_set_verdict() has it.                *)
THEOREM HeldPacketsAreQueued == Spec => []HeldIsQueued
<1>1. KInv => HeldIsQueued
  <2>. SUFFICES ASSUME KInv PROVE HeldIsQueued
    OBVIOUS
  <2>1. queue.list \in Seq(Packets) /\ \A i, j \in 1 .. Len(queue.list) : queue.list[i] = queue.list[j] => i = j
    BY DEF KInv, QueueOK
  <2>2. \A p : p \in ToSet(queue.list) <=> Queued(queue, p)
    BY SMTT(30), <2>1 DEF ToSet, Queued
  <2>3. Cardinality(ToSet(queue.list)) = Len(queue.list)
    BY <2>1, DistinctCount
  <2>. QED
    BY <2>2, <2>3 DEF KInv, Places, HeldIsQueued
<1>. QED
  BY <1>1, KaodvInvariant, PTL

(* The daemon has been asked about the destination of every packet in the  *)
(* queue, as long as every message could be built.                         *)
THEOREM HeldPacketsWereAskedFor == Spec => []HeldWasAskedFor
<1>1. KInv => HeldWasAskedFor
  BY DEF KInv, AllAsked, Asked, HeldWasAskedFor
<1>. QED
  BY <1>1, KaodvInvariant, PTL

(* A module that is not in the kernel leaves no hook, no packet, no route  *)
(* and no changed MTU behind.                                              *)
THEOREM NothingIsLeftBehind == Spec => []GoneWithoutTrace
<1>1. KInv => GoneWithoutTrace
  <2>. SUFFICES ASSUME KInv, module.phase = "out"
                PROVE  /\ module.hooks = {} /\ queue.list = <<>> /\ expl.list = <<>>
                       /\ \A p \in Packets : ~InHook(p) /\ skb[p].pc \notin {"held", "leaving"}
                       /\ \A d \in ToSet(ifname) : module.mtu[d] = MTU
    BY DEF GoneWithoutTrace
  <2>1. /\ module.hooks = {} /\ queue.list = <<>> /\ expl.list = <<>> /\ module.ifi = <<>> /\ socks = {}
        /\ \A p \in Packets : ~InHook(p)
    BY DEF KInv, PhaseOK
  <2>2. nl.entry = NULL
    BY <2>1, KaodvAssumption DEF KInv, NlOK, Idle
  <2>3. \A p \in Packets : skb[p].pc \notin {"held", "leaving"}
    BY SMTT(30), <2>1, <2>2, KaodvAssumption DEF KInv, Places, Queued
  <2>4. \A d \in ToSet(ifname) : module.mtu[d] = MTU
    BY SMTT(30), <2>1 DEF KInv, ModuleOK, MtuOK
  <2>. QED
    BY <2>1, <2>3, <2>4
<1>. QED
  BY <1>1, KaodvInvariant, PTL

-----------------------------------------------------------------------------
(* Whose word counts                                                       *)

LEMMA NoNewRouted ==
    ASSUME NEW x, NEW y, ExplOK(x), ExplOK(y), NoNew(x, y)
    PROVE  Routed(y) \subseteq Routed(x)
<1>1. x.list \in Seq(Entries) /\ y.list \in Seq(Entries)
  BY DEF ExplOK
<1>. SUFFICES ASSUME NEW j \in 1 .. Len(y.list)
              PROVE  \E i \in 1 .. Len(x.list) : x.list[i].daddr = y.list[j].daddr
  BY SMTT(30), <1>1 DEF Routed
<1>2. HasRoute(y, y.list[j].daddr)
  BY <1>1, FindRoute
<1>3. HasRoute(x, y.list[j].daddr)
  BY <1>2 DEF NoNew
<1>. QED
  BY SMTT(30), <1>1, <1>3, FindRoute

(* What is done to the list of routes by the actions that write it: only   *)
(* AddRoute brings a destination in.                                       *)
LEMMA NoOtherAdds ==
    ASSUME KInv, [Next]_vars, ~AddRoute
    PROVE  NoNew(expl, expl')
<1>1. ASSUME expl' = expl PROVE NoNew(expl, expl')
  BY <1>1 DEF NoNew
<1>2. ASSUME expl'.list = <<>> PROVE NoNew(expl, expl')
  <2>1. expl'.list \in Seq(Entries) /\ ~\E i \in 1 .. Len(expl'.list) : TRUE
    BY SMTT(30), <1>2
  <2>2. \A a : ~HasRoute(expl', a)
    BY <2>1, FindRoute
  <2>. QED
    BY <2>2 DEF NoNew
<1>3. ExplOK(expl)
  BY DEF KInv
<1>4. ASSUME NEW p \in Packets, RefreshUpdate(p) PROVE NoNew(expl, expl')
  <2>. DEFINE e == [skb[p].r EXCEPT !.expires = Expires(conf.active_route_timeout)]
  <2>1. skb[p].r \in Entries
    BY <1>4 DEF RefreshUpdate, KInv, HookOK
  <2>2. Expires(conf.active_route_timeout) \in Nat
    BY SMTT(30), KaodvAssumption DEF KInv, Expires, jiffies
  <2>3. e \in Entries
    BY <2>1, <2>2 DEF Entries
  <2>4. expl' = kaodv_expl_update(expl, e)
    BY <1>4 DEF RefreshUpdate
  <2>. QED
    BY <1>3, <2>3, <2>4, UpdateKeeps
<1>5. ASSUME NEW p \in Packets, HookStep(p), ~RefreshUpdate(p) PROVE expl' = expl
  BY <1>5 DEF HookStep, kaodv_hook, RefreshGet, Classify, LookUp, FindQueued,
              kaodv_queue_enqueue_packet, Encapsulate
<1>6. ASSUME NEW d \in Daemons, NEW m \in Messages, kaodv_netlink_rcv_skb(d, m)
      PROVE  NoNew(expl, expl')
  <2>1. expl' = expl \/ expl' = kaodv_expl_del(expl, m.dst)
    BY <1>6 DEF kaodv_netlink_rcv_skb, kaodv_netlink_receive_peer
  <2>. QED
    BY <1>1, <1>3, <2>1, DelKeeps
<1>7. ASSUME NEW d \in Daemons, Open(d) \/ kaodv_netlink_rcv_nl_event(d) \/ PeerFlushQueue(d)
      PROVE  expl' = expl
  BY <1>7 DEF Open, kaodv_netlink_rcv_nl_event, PeerFlushQueue
<1>8. ASSUME NEW d \in Daemons, PeerFlushRoutes(d) PROVE NoNew(expl, expl')
  BY <1>2, <1>8 DEF PeerFlushRoutes, kaodv_expl_flush, expl_flush
<1>9. CASE LoadTables
  <2>1. expl' = [expl EXCEPT !.len = 0]
    BY <1>9 DEF LoadTables, kaodv_expl_init
  <2>2. expl \in [list : Seq(Entries), len : Nat]
    BY <1>3 DEF ExplOK
  <2>3. expl'.list = expl.list
    BY <2>1, <2>2
  <2>. QED
    BY <2>3 DEF NoNew, HasRoute, Place
<1>10. CASE UnloadTables
  BY <1>2, <1>10 DEF UnloadTables, kaodv_expl_fini, expl_flush
<1>11. CASE VerdictDequeue \/ VerdictSend \/ LoadNetlink \/ LoadHook \/ LoadInterface
            \/ UnloadInterfaces \/ UnloadHooks \/ Tick \/ UNCHANGED vars
  BY <1>1, <1>11 DEF VerdictDequeue, VerdictSend, LoadNetlink, LoadHook, LoadInterface,
                     UnloadInterfaces, UnloadHooks, Tick, vars
<1>. QED
  BY <1>1, <1>4, <1>5, <1>6, <1>7, <1>8, <1>9, <1>10, <1>11 DEF Next

(* A step changes the peer only when there was none, or when its socket is *)
(* closed.                                                                 *)
LEMMA PeerStays ==
    ASSUME KInv, [Next]_vars, peer_pid # NULL, peer_pid \in socks'
    PROVE  peer_pid' = peer_pid
<1>1. ASSUME NEW p \in Packets, HookStep(p) PROVE peer_pid' = peer_pid
  BY <1>1 DEF HookStep, kaodv_hook, RefreshGet, RefreshUpdate, Classify, LookUp, FindQueued,
              kaodv_queue_enqueue_packet, Encapsulate
<1>2. ASSUME NEW d \in Daemons, NEW m \in Messages, kaodv_netlink_rcv_skb(d, m)
      PROVE  peer_pid' = peer_pid
  BY <1>2 DEF kaodv_netlink_rcv_skb, Refused
<1>3. ASSUME NEW d \in Daemons, kaodv_netlink_rcv_nl_event(d) PROVE peer_pid' = peer_pid
  BY <1>3 DEF kaodv_netlink_rcv_nl_event
<1>4. ASSUME NEW d \in Daemons, Open(d) \/ PeerFlushRoutes(d) \/ PeerFlushQueue(d)
      PROVE  peer_pid' = peer_pid
  BY <1>4 DEF Open, PeerFlushRoutes, PeerFlushQueue
<1>5. CASE AddRoute \/ VerdictDequeue \/ VerdictSend \/ LoadTables \/ LoadNetlink \/ LoadHook
           \/ LoadInterface \/ UnloadInterfaces \/ UnloadHooks \/ UnloadTables \/ Tick
           \/ UNCHANGED vars
  BY <1>5 DEF AddRoute, VerdictDequeue, VerdictSend, LoadTables, LoadNetlink, LoadHook, LoadInterface,
              UnloadInterfaces, UnloadHooks, UnloadTables, Tick, vars
<1>. QED
  BY <1>1, <1>2, <1>3, <1>4, <1>5 DEF Next

(* A daemon stays the peer as long as its socket is open, and only the     *)
(* handling of a message of the peer brings a destination into the list.   *)
THEOREM RoutesComeFromThePeer == Spec => OnlyThePeerAdds
<1>. DEFINE Steps == /\ peer_pid # NULL /\ peer_pid \in socks' => peer_pid' = peer_pid
                     /\ Routed(expl') \subseteq Routed(expl) \/ (peer_pid # NULL /\ nl.pid = peer_pid)
<1>1. KInv /\ KInv' /\ [Next]_vars => [Steps]_vars
  <2>. SUFFICES ASSUME KInv, KInv', [Next]_vars PROVE Steps
    OBVIOUS
  <2>1. CASE AddRoute
    BY SMTT(30), <2>1, PeerStays, KaodvAssumption DEF AddRoute, KInv, NlOK
  <2>2. CASE ~AddRoute
    BY <2>2, NoOtherAdds, NoNewRouted, PeerStays DEF KInv
  <2>. QED
    BY <2>1, <2>2
<1>2. [][Steps]_vars => OnlyThePeerAdds
  BY PTL DEF OnlyThePeerAdds
<1>. QED
  BY <1>1, <1>2, KaodvInvariant, PTL DEF Spec

-----------------------------------------------------------------------------
(* The queue is a packet buffer                                            *)

(* The four things that happen to the queue. *)
SameDst == \A i \in 1 .. Len(queue.list) : skb'[queue.list[i]].dst = skb[queue.list[i]].dst
QueueStays == queue'.list = queue.list /\ SameDst
QueueGrows == \E p \in Packets : ~Queued(queue, p) /\ queue'.list = Append(queue.list, p) /\ SameDst
QueueYields ==
    \E i \in 1 .. Len(queue.list) :
        /\ queue'.list = RemoveAt(queue.list, i) /\ SameDst
        /\ \A j \in 1 .. i - 1 : skb[queue.list[j]].dst # skb[queue.list[i]].dst
QueueEmpties == queue'.list = <<>>
QueueStep == QueueStays \/ QueueGrows \/ QueueYields \/ QueueEmpties

(* A step of a packet that is not in the queue leaves those in it alone. *)
LEMMA OthersKeepDst ==
    ASSUME KInv, NEW p \in Packets, skb[p].pc # "held", NEW t, skb' = [skb EXCEPT ![p] = t]
    PROVE  SameDst
<1>. SUFFICES ASSUME NEW i \in 1 .. Len(queue.list)
              PROVE  skb'[queue.list[i]].dst = skb[queue.list[i]].dst
  BY DEF SameDst
<1>1. queue.list[i] \in Packets
  BY SMTT(30) DEF KInv, QueueOK
<1>2. skb[queue.list[i]].pc = "held"
  BY <1>1 DEF KInv, Places, Queued
<1>. QED
  BY <1>1, <1>2 DEF KInv

LEMMA HookQueueStep ==
    ASSUME KInv, NEW p \in Packets, HookStep(p)
    PROVE  QueueStep
<1>1. CASE kaodv_queue_enqueue_packet(p)
  <2>1. HookOK(skb[p]) /\ skb[p].pc = "enqueue"
    BY <1>1 DEF KInv, kaodv_queue_enqueue_packet
  <2>2. ~Queued(queue, p)
    BY <2>1 DEF KInv, Places
  <2>3. PICK pc : skb' = [skb EXCEPT ![p] = SetPc(skb[p], pc)]
    BY <1>1 DEF kaodv_queue_enqueue_packet, SetPc, KInv
  <2>4. SameDst
    BY <2>1, <2>3, OthersKeepDst
  <2>5. queue' = queue \/ queue' = [queue EXCEPT !.list = Append(@, p), !.total = @ + 1]
    BY <1>1 DEF kaodv_queue_enqueue_packet, queue_enqueue_entry
  <2>6. queue \in [list : Seq(Packets), total : Nat, maxlen : Nat]
    BY DEF KInv, QueueOK
  <2>7. queue'.list = queue.list \/ queue'.list = Append(queue.list, p)
    BY <2>5, <2>6
  <2>. QED
    BY <2>2, <2>4, <2>7 DEF QueueStep, QueueStays, QueueGrows
<1>2. CASE ~kaodv_queue_enqueue_packet(p)
  <2>1. queue' = queue
    BY <1>2 DEF HookStep, kaodv_hook, RefreshGet, RefreshUpdate, Classify, LookUp, FindQueued, Encapsulate
  <2>2. skb[p].pc # "held"
    BY <1>2 DEF HookStep, kaodv_hook, RefreshGet, RefreshUpdate, Classify, LookUp, FindQueued, Encapsulate
  <2>3. \E t : skb' = [skb EXCEPT ![p] = t]
    BY <1>2 DEF HookStep, kaodv_hook, RefreshGet, RefreshUpdate, Classify, LookUp, FindQueued, Encapsulate
  <2>4. SameDst
    BY <2>2, <2>3, OthersKeepDst
  <2>. QED
    BY <2>1, <2>4 DEF QueueStep, QueueStays
<1>. QED
  BY <1>1, <1>2

LEMMA VerdictQueueStep ==
    ASSUME KInv, VerdictDequeue \/ VerdictSend
    PROVE  QueueStep
<1>1. CASE VerdictSend
  <2>1. nl.pc = "route" /\ nl.entry \in Packets /\ queue' = queue
    BY <1>1 DEF VerdictSend, KInv, NlOK
  <2>2. skb[nl.entry].pc = "leaving"
    BY <2>1 DEF KInv, Places
  <2>3. \E t : skb' = [skb EXCEPT ![nl.entry] = t]
    BY <1>1 DEF VerdictSend
  <2>4. SameDst
    BY <2>1, <2>2, <2>3, OthersKeepDst
  <2>. QED
    BY <2>1, <2>4 DEF QueueStep, QueueStays
<1>2. CASE VerdictDequeue
  <2>. DEFINE i == Waiting(nl.msg.dst)  p == queue.list[i]
  <2>1. /\ QueueOK(queue) /\ queue.list \in Seq(Packets) /\ Len(queue.list) \in Nat /\ i \in 0 .. Len(queue.list)
        /\ i # 0 => skb[queue.list[i]].dst = nl.msg.dst
        /\ \A j \in 1 .. Len(queue.list) : j < i => skb[queue.list[j]].dst # nl.msg.dst
    BY FindWaiting DEF KInv, QueueOK
  <2>2. CASE i = 0
    BY <1>2, <2>2 DEF VerdictDequeue, QueueStep, QueueStays, SameDst
  <2>3. CASE i # 0
    <3>1. queue' = queue_dequeue_entry(i)
      BY <1>2, <2>3 DEF VerdictDequeue
    <3>2. i \in 1 .. Len(queue.list)
      BY SMTT(30), <2>1, <2>3
    <3>3. queue'.list = RemoveAt(queue.list, i)
      BY <2>1, <3>1, <3>2, DequeueOK
    <3>4. PICK pc : skb' = [skb EXCEPT ![p] = SetPc(skb[p], pc)]
      BY <1>2, <2>3 DEF VerdictDequeue, SetPc
    <3>5. p \in Packets
      BY SMTT(30), <2>1, <3>2
    <3>6. skb[p] \in Skbs
      BY <3>5 DEF KInv, HookOK
    <3>7. SetPc(skb[p], pc).dst = skb[p].dst
      BY <3>6 DEF SetPc, Skbs
    <3>8. SameDst
      <4>1. \A q \in Packets : skb'[q].dst = skb[q].dst
        BY <3>4, <3>5, <3>7 DEF KInv
      <4>. QED
        BY SMTT(30), <2>1, <4>1 DEF SameDst
    <3>9. \A j \in 1 .. i - 1 : skb[queue.list[j]].dst # skb[queue.list[i]].dst
      BY SMTT(30), <2>1, <3>2
    <3>. HIDE DEF i
    <3>. QED
      BY <3>2, <3>3, <3>8, <3>9 DEF QueueStep, QueueYields
  <2>. QED
    BY <2>2, <2>3
<1>. QED
  BY <1>1, <1>2

LEMMA FlushQueueStep ==
    ASSUME KInv, kaodv_queue_flush
    PROVE  QueueStep
<1>1. queue \in [list : Seq(Packets), total : Nat, maxlen : Nat]
  BY DEF KInv, QueueOK
<1>2. queue'.list = <<>>
  BY <1>1 DEF kaodv_queue_flush
<1>. QED
  BY <1>2 DEF QueueStep, QueueEmpties

LEMMA EveryQueueStep ==
    ASSUME KInv, [Next]_vars
    PROVE  QueueStep
<1>1. ASSUME UNCHANGED <<queue, skb>> PROVE QueueStep
  BY <1>1 DEF QueueStep, QueueStays, SameDst
<1>2. ASSUME NEW p \in Packets, HookStep(p) PROVE QueueStep
  BY <1>2, HookQueueStep
<1>3. ASSUME NEW d \in Daemons, NEW m \in Messages, kaodv_netlink_rcv_skb(d, m) PROVE QueueStep
  BY <1>1, <1>3 DEF kaodv_netlink_rcv_skb
<1>4. ASSUME NEW d \in Daemons, Open(d) \/ kaodv_netlink_rcv_nl_event(d) \/ PeerFlushRoutes(d)
      PROVE  QueueStep
  BY <1>1, <1>4 DEF Open, kaodv_netlink_rcv_nl_event, PeerFlushRoutes
<1>5. ASSUME NEW d \in Daemons, PeerFlushQueue(d) PROVE QueueStep
  BY <1>5, FlushQueueStep DEF PeerFlushQueue
<1>6. CASE VerdictDequeue \/ VerdictSend
  BY <1>6, VerdictQueueStep
<1>7. CASE LoadTables
  <2>1. queue' = [queue EXCEPT !.total = 0] /\ skb' = skb
    BY <1>7 DEF LoadTables, kaodv_queue_init
  <2>2. queue \in [list : Seq(Packets), total : Nat, maxlen : Nat]
    BY DEF KInv, QueueOK
  <2>3. queue'.list = queue.list
    BY <2>1, <2>2
  <2>. QED
    BY <2>1, <2>3 DEF QueueStep, QueueStays, SameDst
<1>8. CASE LoadNetlink \/ LoadHook
  <2>1. kaodv_queue_flush \/ UNCHANGED <<queue, skb>>
    BY <1>8 DEF LoadNetlink, LoadHook, LoadFailed, kaodv_queue_fini
  <2>. QED
    BY <1>1, <2>1, FlushQueueStep
<1>9. CASE UnloadTables
  BY <1>9, FlushQueueStep DEF UnloadTables, kaodv_queue_fini
<1>10. CASE AddRoute \/ LoadInterface \/ UnloadInterfaces \/ UnloadHooks \/ Tick \/ UNCHANGED vars
  BY <1>1, <1>10 DEF AddRoute, LoadInterface, UnloadInterfaces, UnloadHooks, Tick, vars
<1>. QED
  BY <1>2, <1>3, <1>4, <1>5, <1>6, <1>7, <1>8, <1>9, <1>10 DEF Next

(* The line of the packets in q with the destinations that s gives them. *)
Line(q, s) == [i \in DOMAIN q |-> [id |-> q[i], dest |-> s[q[i]].dst]]
Waiters == [id : Packets, dest : Addrs]

LEMMA LineParts ==
    ASSUME NEW q \in Seq(Packets), NEW s, \A p \in Packets : s[p].dst \in Addrs
    PROVE  /\ Line(q, s) \in Seq(Waiters) /\ Len(Line(q, s)) = Len(q)
           /\ \A i \in 1 .. Len(q) : /\ Line(q, s)[i] = [id |-> q[i], dest |-> s[q[i]].dst]
                                    /\ Line(q, s)[i].id = q[i]
                                    /\ Line(q, s)[i].dest = s[q[i]].dst
<1>1. \A i \in 1 .. Len(q) : q[i] \in Packets
  BY SMTT(30)
<1>2. \A i \in 1 .. Len(q) : [id |-> q[i], dest |-> s[q[i]].dst] \in Waiters
  BY <1>1 DEF Waiters
<1>. QED
  BY SMTT(30), <1>2 DEF Line

LEMMA SameLine ==
    ASSUME NEW q \in Seq(Packets), NEW s, NEW t, \A i \in 1 .. Len(q) : t[q[i]].dst = s[q[i]].dst
    PROVE  Line(q, t) = Line(q, s)
  BY SMTT(30) DEF Line

LEMMA LongerLine ==
    ASSUME NEW q \in Seq(Packets), \A i, j \in 1 .. Len(q) : q[i] = q[j] => i = j,
           NEW p \in Packets, \A i \in 1 .. Len(q) : q[i] # p,
           NEW s, \A x \in Packets : s[x].dst \in Addrs,
           NEW t, \A x \in Packets : t[x].dst \in Addrs,
           \A i \in 1 .. Len(q) : t[q[i]].dst = s[q[i]].dst
    PROVE  \E n, was : Buffered(Line(q, s), Line(Append(q, p), t), n, was)
<1>. DEFINE r == Append(q, p)  l == Line(q, s)  m == Line(r, t)
<1>1. r \in Seq(Packets) /\ Len(q) \in Nat /\ Len(r) = Len(q) + 1 /\ r[Len(q) + 1] = p
      /\ \A i \in 1 .. Len(q) : r[i] = q[i]
  BY SMTT(30)
<1>. HIDE DEF r, l, m
<1>2. /\ l \in Seq(Waiters) /\ Len(l) = Len(q)
      /\ \A i \in 1 .. Len(q) : l[i] = [id |-> q[i], dest |-> s[q[i]].dst] /\ l[i].id = q[i]
  BY SMTT(30), LineParts DEF l
<1>3. /\ m \in Seq(Waiters) /\ Len(m) = Len(r)
      /\ \A i \in 1 .. Len(r) : m[i] = [id |-> r[i], dest |-> t[r[i]].dst] /\ m[i].id = r[i]
  BY SMTT(30), <1>1, LineParts DEF m
<1>4. \A i \in 1 .. Len(l) : m[i] = l[i]
  BY SMTT(30), <1>1, <1>2, <1>3
<1>5. Len(m) = Len(l) + 1 /\ m[Len(m)].id = p
  BY SMTT(30), <1>1, <1>2, <1>3
<1>6. Len(l) = Len(q) /\ \A i \in 1 .. Len(q) : l[i].id = q[i]
  BY <1>2
<1>7. \A i, j \in 1 .. Len(l) : i # j => l[i].id # l[j].id
  BY SMTT(30), <1>6
<1>8. \A i \in 1 .. Len(l) : l[i].id # m[Len(m)].id
  BY <1>6, <1>5
<1>9. \E n, was : Buffered(l, m, n, was)
  BY <1>2, <1>3, <1>4, <1>5, <1>7, <1>8, LineGrows
<1>. QED
  BY <1>9 DEF l, m, r

LEMMA ShorterLine ==
    ASSUME NEW q \in Seq(Packets), \A i, j \in 1 .. Len(q) : q[i] = q[j] => i = j,
           NEW k \in 1 .. Len(q),
           NEW s, \A x \in Packets : s[x].dst \in Addrs,
           NEW t, \A x \in Packets : t[x].dst \in Addrs,
           \A i \in 1 .. Len(q) : t[q[i]].dst = s[q[i]].dst,
           \A j \in 1 .. k - 1 : s[q[j]].dst # s[q[k]].dst
    PROVE  \E n, was : Buffered(Line(q, s), Line(RemoveAt(q, k), t), n, was)
<1>. DEFINE r == RemoveAt(q, k)  l == Line(q, s)  m == Line(r, t)  x == RemoveAt(l, k)
            at(i) == IF i < k THEN i ELSE i + 1
<1>1. /\ r \in Seq(Packets) /\ Len(q) - 1 \in Nat /\ Len(r) = Len(q) - 1
      /\ \A i \in 1 .. (Len(q) - 1) : r[i] = q[at(i)]
  BY SMTT(30), RemoveAtElements
<1>2. \A i \in 1 .. (Len(q) - 1) : at(i) \in 1 .. Len(q)
  BY SMTT(30)
<1>. HIDE DEF r, l, m, x
<1>3. /\ l \in Seq(Waiters) /\ Len(l) = Len(q)
      /\ \A i \in 1 .. Len(q) : /\ l[i] = [id |-> q[i], dest |-> s[q[i]].dst]
                               /\ l[i].id = q[i] /\ l[i].dest = s[q[i]].dst
  BY SMTT(30), LineParts DEF l
<1>4. /\ m \in Seq(Waiters) /\ Len(m) = Len(r)
      /\ \A i \in 1 .. Len(r) : m[i] = [id |-> r[i], dest |-> t[r[i]].dst]
  BY SMTT(30), <1>1, LineParts DEF m
<1>5. k \in 1 .. Len(l)
  BY <1>3
<1>6. /\ x \in Seq(Waiters) /\ Len(x) = Len(q) - 1
      /\ \A i \in 1 .. (Len(q) - 1) : x[i] = l[at(i)]
  BY SMTT(30), <1>3, <1>5, RemoveAtElements DEF x
<1>. HIDE DEF at
<1>7. ASSUME NEW i \in 1 .. (Len(q) - 1) PROVE m[i] = x[i]
  <2>1. at(i) \in 1 .. Len(q) /\ r[i] = q[at(i)] /\ x[i] = l[at(i)] /\ i \in 1 .. Len(r)
    BY <1>1, <1>2, <1>6
  <2>2. t[q[at(i)]].dst = s[q[at(i)]].dst
    BY <2>1
  <2>3. l[at(i)] = [id |-> q[at(i)], dest |-> s[q[at(i)]].dst]
    BY <1>3, <2>1
  <2>4. m[i] = [id |-> r[i], dest |-> t[r[i]].dst]
    BY <1>4, <2>1
  <2>. QED
    BY <2>1, <2>2, <2>3, <2>4
<1>8. m = x
  <2>1. Len(m) = Len(x) /\ \A i \in 1 .. Len(m) : m[i] = x[i]
    BY <1>1, <1>4, <1>6, <1>7
  <2>. QED
    BY SMTT(30), <1>4, <1>6, <2>1
<1>9. Len(l) = Len(q) /\ \A i \in 1 .. Len(q) : l[i].id = q[i] /\ l[i].dest = s[q[i]].dst
  BY <1>3
<1>10. \A j \in 1 .. Len(l) : j < k => l[j].dest # l[k].dest
  BY SMTT(30), <1>9
<1>11. \A i, j \in 1 .. Len(l) : i # j => l[i].id # l[j].id
  BY SMTT(30), <1>9
<1>12. \E n, was : Buffered(l, x, n, was)
  BY <1>3, <1>5, <1>10, <1>11, LineYields DEF x
<1>. QED
  BY <1>8, <1>12 DEF l, m, r

(* The queue of the kernel module is a packet buffer: a packet joins       *)
(* behind those that wait, keeps its destination, and leaves with or after *)
(* every earlier packet for it, however many packets are in the hook and   *)
(* whenever the verdict, the end of the daemon or of the module comes.     *)
THEOREM KernelQueueIsABuffer == Spec => BuffersInOrder
<1>1. Init => Buffer!Init
  <2>. SUFFICES ASSUME Init PROVE Buffer!Init
    OBVIOUS
  <2>1. queue.list = <<>>
    BY SMTT(30) DEF Init, EmptyQueue
  <2>. QED
    BY SMTT(30), <2>1 DEF Buffer!Init
<1>2. KInv /\ KInv' /\ [Next]_vars => [Buffer!Step]_(Line(queue.list, skb))
  <2>. SUFFICES ASSUME KInv, KInv', [Next]_vars PROVE Buffer!Step \/ UNCHANGED Line(queue.list, skb)
    OBVIOUS
  <2>. DEFINE q == queue.list
  <2>1. q \in Seq(Packets) /\ \A i, j \in 1 .. Len(q) : q[i] = q[j] => i = j
    BY DEF KInv, QueueOK
  <2>2. \A p \in Packets : skb[p].dst \in Addrs
    BY DEF KInv, HookOK, Skbs
  <2>3. \A p \in Packets : skb'[p].dst \in Addrs
    BY DEF KInv, HookOK, Skbs
  <2>4. ASSUME NEW n, NEW was, Buffered(Line(q, skb), Line(queue'.list, skb'), n, was) PROVE Buffer!Step
    BY <2>4 DEF Buffered, Line, Buffer!Step, Buffer!MayStay
  <2>5. CASE QueueStays
    <3>1. queue'.list = q /\ \A i \in 1 .. Len(q) : skb'[q[i]].dst = skb[q[i]].dst
      BY <2>5 DEF QueueStays, SameDst
    <3>2. Line(q, skb') = Line(q, skb)
      BY <2>1, <3>1, SameLine
    <3>. QED
      BY <3>1, <3>2
  <2>6. CASE QueueGrows
    <3>1. PICK p \in Packets : ~Queued(queue, p) /\ queue'.list = Append(q, p) /\ SameDst
      BY <2>6 DEF QueueGrows
    <3>2. (\A i \in 1 .. Len(q) : q[i] # p) /\ \A i \in 1 .. Len(q) : skb'[q[i]].dst = skb[q[i]].dst
      BY <3>1 DEF Queued, SameDst
    <3>3. \E n, was : Buffered(Line(q, skb), Line(Append(q, p), skb'), n, was)
      BY <2>1, <2>2, <2>3, <3>2, LongerLine
    <3>. QED
      BY <2>4, <3>1, <3>3
  <2>7. CASE QueueYields
    <3>1. PICK k \in 1 .. Len(q) :
             /\ queue'.list = RemoveAt(q, k) /\ SameDst
             /\ \A j \in 1 .. k - 1 : skb[q[j]].dst # skb[q[k]].dst
      BY <2>7 DEF QueueYields
    <3>2. \A i \in 1 .. Len(q) : skb'[q[i]].dst = skb[q[i]].dst
      BY <3>1 DEF SameDst
    <3>3. \E n, was : Buffered(Line(q, skb), Line(RemoveAt(q, k), skb'), n, was)
      BY <2>1, <2>2, <2>3, <3>1, <3>2, ShorterLine
    <3>. QED
      BY <2>4, <3>1, <3>3
  <2>8. CASE QueueEmpties
    <3>1. Line(queue'.list, skb') = <<>>
      BY SMTT(30), <2>8 DEF QueueEmpties, Line
    <3>2. \E n, was : Buffered(Line(q, skb), Line(queue'.list, skb'), n, was)
      BY <3>1, LineEmpties
    <3>. QED
      BY <2>4, <3>2
  <2>. QED
    BY <2>5, <2>6, <2>7, <2>8, EveryQueueStep DEF QueueStep
<1>. QED
  BY <1>1, <1>2, KaodvInvariant, PTL DEF Spec, BuffersInOrder, Buffer!Spec, Line
=============================================================================
