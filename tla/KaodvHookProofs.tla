--------------------------- MODULE KaodvHookProofs --------------------------
(***************************************************************************)
(* The invariant of the kernel module kaodv, for any number of packets in  *)
(* the hook at once, of daemons and of messages, and for tables of any     *)
(* size, and the proofs that its operations on the tables, the hook and    *)
(* the verdict on the packets that wait keep it.                           *)
(***************************************************************************)
EXTENDS Kaodv, SequenceLemmas

(* How long the provers may take for a step. *)
USE ZenonT(20), SMTT(30)

(* What a route can be: the daemon's messages say. *)
AddMessages == {m \in Messages : m.type = "ADDROUTE"}
Entries == [daddr : {m.dst : m \in AddMessages}, nhop : {m.nhop : m \in AddMessages},
            flags : {m.flags : m \in AddMessages}, expires : Nat]

(* What a packet can be: it starts as one of Kinds, is encapsulated for a  *)
(* next hop, and decapsulated to what it was.                              *)
Tunnelled == {k.inner : k \in {k \in Kinds : k.proto = "mipe"}}
Addrs == {k.src : k \in Kinds} \cup {k.dst : k \in Kinds} \cup {i.dst : i \in Tunnelled}
         \cup {m.nhop : m \in AddMessages}
Protos == {"mipe"} \cup {k.proto : k \in Kinds} \cup {i.proto : i \in Tunnelled}
Todo == [addr : Addrs, hop : BOOLEAN]
Skbs == [pc : {"arrives", "get", "update", "classify", "lookup", "find", "enqueue", "encapsulate",
               "held", "leaving", "passed", "dropped", "freed", "lost"},
         hook : {k.hook : k \in Kinds}, src : Addrs, dst : Addrs, proto : Protos,
         inner : {NULL} \cup {k.inner : k \in Kinds} \cup [dst : Addrs, proto : Protos],
         dev : {k.dev : k \in Kinds},
         then : {NULL, "accept", "classify", "encapsulate"},
         todo : Seq(Todo),
         r : Entries \cup {NULL}, e : Entries \cup {NULL}]

(* The state of the hook for a packet: while routes are refreshed there is *)
(* one to refresh, its copy is at hand for the update, and the packet that *)
(* will be encapsulated has the route that says so.                        *)
HookOK(s) ==
    /\ s \in Skbs
    /\ s.pc \in {"get", "update"} => s.todo # <<>> /\ s.then # NULL
    /\ s.pc = "update" => s.r \in Entries
    /\ s.pc # "passed" /\ s.proto = "mipe" => s.inner.dst \in Addrs /\ s.inner.proto \in Protos
    /\ s.pc = "encapsulate" \/ s.then = "encapsulate" => s.e \in Entries

(* The list of routes is ordered, lists no destination twice, and has no   *)
(* more entries than expl_len says and EXPL_MAX_LEN allows.                *)
InOrder(list) ==
    \A i, j \in 1 .. Len(list) :
        i < j => list[i].expires <= list[j].expires /\ list[i].daddr # list[j].daddr
ExplOK(x) ==
    /\ x \in [list : Seq(Entries), len : Nat]
    /\ InOrder(x.list)
    /\ Len(x.list) <= x.len /\ Len(x.list) <= EXPL_MAX_LEN

(* The queue lists packets, none twice, and counts them. *)
QueueOK(q) ==
    /\ q \in [list : Seq(Packets), total : Nat, maxlen : Nat]
    /\ \A i, j \in 1 .. Len(q.list) : q.list[i] = q.list[j] => i = j
    /\ q.total = Len(q.list) /\ Len(q.list) <= q.maxlen

(* A message is being handled for the peer, whose socket is open.  For a   *)
(* route that is to be added nobody else can add one to the same place.    *)
NlOK ==
    /\ nl \in [pc : {"idle", "add", "send", "drop", "route"}, pid : Daemons \cup {NULL},
               msg : Messages \cup {NULL}, entry : Packets \cup {NULL}]
    /\ nl.pc = "idle" => nl = Idle
    /\ nl.pc # "idle" => nl.pid = peer_pid /\ nl.pid \in Daemons /\ nl.msg \in Messages
    /\ nl.pc = "add" => nl.msg \in AddMessages /\ ~HasRoute(expl, nl.msg.dst)
    /\ nl.pc = "route" <=> nl.entry # NULL
    /\ peer_pid # NULL => peer_pid \in socks
    /\ socks \subseteq Daemons

(* The packets that are in the queue, and the one that leaves it. *)
Queued(q, p) == \E i \in 1 .. Len(q.list) : q.list[i] = p
Places ==
    /\ \A p \in Packets : skb[p].pc = "held" <=> Queued(queue, p)
    /\ \A p \in Packets : skb[p].pc = "leaving" <=> nl.entry = p

(* The daemon was asked about destination a, or a message could not be     *)
(* built; so it is for a packet that is queued, or about to be.            *)
Asked(t, a) == NULL \in t \/ \E m \in t : m.type \in {"ROUTE_REQ", "REPAIR"} /\ m.dst = a
AllAsked == \A p \in Packets : skb[p].pc \in {"enqueue", "held"} => Asked(told, skb[p].dst)

(* What may be there in which phase of the module's life.  Until the first *)
(* interface is known, the hook lets every packet pass.                    *)
PhaseOK ==
    /\ module.hooks # {} => module.phase \in {"netlink", "hooks", "in", "purged"}
    /\ module.phase = "netlink" =>
          module.hooks \in {{}, {"PRE_ROUTING"}, {"PRE_ROUTING", "LOCAL_OUT"}}
    /\ module.ifi # <<>> => module.phase \in {"hooks", "in"}
    /\ socks # {} => module.phase = "in"
    /\ \A d \in Daemons : closing[d] # "no" => module.phase = "in"
    /\ \A p \in Packets : InHook(p) => module.phase \in {"hooks", "in", "purged"}
    /\ queue.list # <<>> => module.phase \in {"hooks", "in", "purged", "unhooked"}
    /\ expl.list # <<>> => module.phase \in {"in", "purged", "unhooked"}

(* An interface has its old MTU, or the last of its entries remembers it. *)
MtuOK(m) ==
    /\ \A dev \in ToSet(ifname) :
          (\A k \in 1 .. Len(m.ifi) : m.ifi[k].dev # dev) => m.mtu[dev] = MTU
    /\ \A k \in 1 .. Len(m.ifi) :
          (\A j \in k + 1 .. Len(m.ifi) : m.ifi[j].dev # m.ifi[k].dev) => m.ifi[k].orig_mtu = MTU
Phases == {"out", "tables", "netlink", "hooks", "in", "purged", "unhooked"}
Hooks == {"PRE_ROUTING", "LOCAL_OUT", "POST_ROUTING"}
Procs == {"kaodv_expl", "kaodv_queue", "kaodv"}
Interfaces == [dev : ToSet(ifname), orig_mtu : Int]
Module == [phase : Phases, hooks : SUBSET Hooks, proc : SUBSET Procs,
           ifi : Seq(Interfaces), mtu : [ToSet(ifname) -> Int], named : Nat]
ModuleOK == module \in Module /\ MtuOK(module)

KInv ==
    /\ ticks \in Nat /\ conf.active_route_timeout \in Nat
    /\ closing \in [Daemons -> {"no", "expl", "queue"}]
    /\ DOMAIN skb = Packets /\ skb = [p \in Packets |-> skb[p]]
    /\ \A p \in Packets : HookOK(skb[p])
    /\ ExplOK(expl)
    /\ QueueOK(queue)
    /\ NlOK
    /\ Places
    /\ AllAsked
    /\ PhaseOK
    /\ ModuleOK

-----------------------------------------------------------------------------
(* kaodv-expl.c                                                            *)

(* __kaodv_expl_find() finds an entry for the destination if there is one. *)
LEMMA FindRoute ==
    ASSUME NEW x, x.list \in Seq(Entries), NEW a
    PROVE  /\ Place(x, a) \in 0 .. Len(x.list)
           /\ Place(x, a) # 0 => x.list[Place(x, a)].daddr = a
           /\ HasRoute(x, a) <=> \E i \in 1 .. Len(x.list) : x.list[i].daddr = a
<1>. DEFINE I == {i \in 1 .. Len(x.list) : x.list[i].daddr = a}
<1>1. Place(x, a) = IF I # {} THEN Min(I) ELSE 0
  BY DEF Place, SelectInSeq
<1>2. Len(x.list) \in Nat /\ I \in SUBSET (1 .. Len(x.list))
  BY SMTT(30)
<1>. HIDE DEF I
<1>3. /\ Place(x, a) \in 0 .. Len(x.list)
      /\ Place(x, a) = 0 <=> I = {}
      /\ Place(x, a) # 0 => Place(x, a) \in I
  BY <1>1, <1>2, FirstIndex
<1>. QED
  BY <1>3 DEF HasRoute, I

(* An entry taken out leaves the others in order. *)
LEMMA TakeOut ==
    ASSUME NEW list \in Seq(Entries), InOrder(list), NEW k \in 1 .. Len(list)
    PROVE  LET r == RemoveAt(list, k) IN
           /\ r \in Seq(Entries) /\ Len(r) = Len(list) - 1 /\ InOrder(r)
           /\ \A i \in 1 .. Len(r) : /\ r[i].daddr # list[k].daddr
                                    /\ \E j \in 1 .. Len(list) : r[i] = list[j]
<1>. DEFINE r == RemoveAt(list, k)  at(i) == IF i < k THEN i ELSE i + 1
<1>1. /\ r \in Seq(Entries) /\ Len(r) = Len(list) - 1
      /\ \A i \in 1 .. Len(list) - 1 : r[i] = list[at(i)]
  BY RemoveAtElements
<1>2. \A i \in 1 .. Len(list) - 1 : at(i) \in 1 .. Len(list) /\ at(i) # k
  BY SMTT(30)
<1>3. \A i, j \in 1 .. Len(list) - 1 : i < j => at(i) < at(j)
  BY SMTT(30)
<1>. HIDE DEF r, at
<1>4. InOrder(r)
  <2>. SUFFICES ASSUME NEW i \in 1 .. Len(r), NEW j \in 1 .. Len(r), i < j
                PROVE  r[i].expires <= r[j].expires /\ r[i].daddr # r[j].daddr
    BY DEF InOrder
  <2>1. r[i] = list[at(i)] /\ r[j] = list[at(j)] /\ at(i) \in 1 .. Len(list)
        /\ at(j) \in 1 .. Len(list) /\ at(i) < at(j)
    BY <1>1, <1>2, <1>3
  <2>. QED
    BY <2>1 DEF InOrder
<1>5. ASSUME NEW i \in 1 .. Len(r)
      PROVE  r[i].daddr # list[k].daddr /\ \E j \in 1 .. Len(list) : r[i] = list[j]
  <2>1. r[i] = list[at(i)] /\ at(i) \in 1 .. Len(list) /\ at(i) # k
    BY <1>1, <1>2
  <2>2. at(i) < k \/ k < at(i)
    BY SMTT(30), <2>1
  <2>. QED
    BY <2>1, <2>2 DEF InOrder
<1>. QED
  BY <1>1, <1>4, <1>5 DEF r

(* __kaodv_expl_add() puts an entry for a destination that is not in the   *)
(* list into its place, unless expl_len says that the list is full.        *)
LEMMA PutIn ==
    ASSUME NEW x, x \in [list : Seq(Entries), len : Nat], InOrder(x.list),
           NEW e \in Entries, \A i \in 1 .. Len(x.list) : x.list[i].daddr # e.daddr
    PROVE  LET y == expl_insert(x, e) IN
           /\ y \in [list : Seq(Entries), len : Nat] /\ y.len = x.len /\ InOrder(y.list)
           /\ IF x.len >= EXPL_MAX_LEN THEN y = x ELSE Len(y.list) = Len(x.list) + 1
           /\ \A i \in 1 .. Len(y.list) :
                 y.list[i] = e \/ \E j \in 1 .. Len(x.list) : y.list[i] = x.list[j]
<1>. DEFINE q == x.list
            I == {i \in 1 .. Len(q) : q[i].expires > e.expires}
            later == IF I # {} THEN Min(I) ELSE 0
            k == IF later = 0 THEN Len(q) + 1 ELSE later
            y == expl_insert(x, e)
            r == InsertAt(q, k, e)
<1>0. q \in Seq(Entries) /\ Len(q) \in Nat /\ x.len \in Nat
  BY SMTT(30)
<1>1. y = IF x.len >= EXPL_MAX_LEN THEN x ELSE [x EXCEPT !.list = r]
  BY DEF expl_insert, SelectInSeq
<1>2. CASE x.len >= EXPL_MAX_LEN
  <2>1. y = x
    BY <1>1, <1>2
  <2>. HIDE DEF y
  <2>2. \A i \in 1 .. Len(y.list) : \E j \in 1 .. Len(x.list) : y.list[i] = x.list[j]
    BY <2>1
  <2>3. y \in [list : Seq(Entries), len : Nat] /\ y.len = x.len /\ InOrder(y.list)
    BY <2>1
  <2>. QED
    BY <1>2, <2>1, <2>2, <2>3 DEF y
<1>3. CASE ~ (x.len >= EXPL_MAX_LEN)
  <2>1. y = [x EXCEPT !.list = r]
    BY <1>1, <1>3
  <2>2. I \in SUBSET (1 .. Len(q))
    OBVIOUS
  <2>. HIDE DEF I
  <2>3. /\ later \in 0 .. Len(q) /\ (later = 0 <=> I = {})
        /\ later # 0 => later \in I /\ \A i \in I : later <= i
    BY <1>0, <2>2, FirstIndex
  <2>. HIDE DEF later
  <2>4. k \in 1 .. Len(q) + 1
    BY SMTT(30), <1>0, <2>3
  <2>5. \A i \in 1 .. Len(q) : q[i].expires \in Nat
    <3>1. \A i \in 1 .. Len(q) : q[i] \in Entries
      BY SMTT(30), <1>0
    <3>. QED
      BY <3>1 DEF Entries
  <2>6. e.expires \in Nat
    BY DEF Entries
  <2>7. \A i \in 1 .. Len(q) : i < k => q[i].expires <= e.expires
    <3>. TAKE i \in 1 .. Len(q)
    <3>. HAVE i < k
    <3>1. i \notin I
      BY SMTT(30), <1>0, <2>3
    <3>. QED
      BY SMTT(30), <3>1, <2>5, <2>6 DEF I
  <2>8. \A i \in 1 .. Len(q) : i >= k => e.expires <= q[i].expires
    <3>. TAKE i \in 1 .. Len(q)
    <3>. HAVE i >= k
    <3>1. later # 0 /\ k = later
      BY SMTT(30), <1>0, <2>3
    <3>2. k \in 1 .. Len(q) /\ q[k].expires > e.expires
      BY <3>1, <2>3 DEF I
    <3>3. CASE i = k
      BY SMTT(30), <3>2, <3>3, <2>5, <2>6
    <3>4. CASE i > k
      <4>1. q[k].expires <= q[i].expires
        BY <3>2, <3>4 DEF InOrder
      <4>. QED
        BY SMTT(30), <3>2, <4>1, <2>5, <2>6
    <3>. QED
      BY SMTT(30), <3>2, <3>3, <3>4
  <2>. HIDE DEF k, y
  <2>9. /\ r \in Seq(Entries) /\ Len(r) = Len(q) + 1
        /\ \A i \in 1 .. Len(q) + 1 :
              r[i] = IF i < k THEN q[i] ELSE IF i = k THEN e ELSE q[i - 1]
    BY SMTT(30), <1>0, <2>4, InsertAtElements
  <2>. HIDE DEF r
  <2>10. \A i \in 1 .. Len(r) : \/ i = k /\ r[i] = e
                                \/ i < k /\ i \in 1 .. Len(q) /\ r[i] = q[i]
                                \/ i > k /\ i - 1 \in 1 .. Len(q) /\ r[i] = q[i - 1]
    BY SMTT(30), <1>0, <2>4, <2>9
  <2>11. InOrder(r)
    <3>. SUFFICES ASSUME NEW i \in 1 .. Len(r), NEW j \in 1 .. Len(r), i < j
                  PROVE  r[i].expires <= r[j].expires /\ r[i].daddr # r[j].daddr
      BY DEF InOrder
    <3>0. i \in Nat /\ j \in Nat /\ k \in Nat
      BY SMTT(30), <1>0, <2>4, <2>9
    <3>1. CASE i < k /\ j < k
      BY SMTT(30), <3>0, <3>1, <2>10 DEF InOrder
    <3>2. CASE i < k /\ j = k
      <4>1. r[i] = q[i] /\ r[j] = e /\ i \in 1 .. Len(q)
        BY SMTT(30), <3>0, <3>2, <2>10
      <4>. QED
        BY <3>2, <4>1, <2>7
    <3>3. CASE i < k /\ j > k
      <4>1. r[i] = q[i] /\ r[j] = q[j - 1] /\ i \in 1 .. Len(q) /\ j - 1 \in 1 .. Len(q) /\ i < j - 1
        BY SMTT(30), <3>0, <3>3, <2>10
      <4>. QED
        BY <4>1 DEF InOrder
    <3>4. CASE i = k
      <4>1. r[i] = e /\ r[j] = q[j - 1] /\ j - 1 \in 1 .. Len(q) /\ j - 1 >= k
        BY SMTT(30), <3>0, <3>4, <2>10
      <4>2. e.expires <= q[j - 1].expires /\ e.daddr # q[j - 1].daddr
        BY <4>1, <2>8
      <4>. QED
        BY <4>1, <4>2
    <3>5. CASE i > k
      <4>1. r[i] = q[i - 1] /\ r[j] = q[j - 1] /\ i - 1 \in 1 .. Len(q) /\ j - 1 \in 1 .. Len(q)
            /\ i - 1 < j - 1
        BY SMTT(30), <3>0, <3>5, <2>10
      <4>. QED
        BY <4>1 DEF InOrder
    <3>. QED
      BY SMTT(30), <3>0, <3>1, <3>2, <3>3, <3>4, <3>5
  <2>12. y \in [list : Seq(Entries), len : Nat] /\ y.len = x.len /\ y.list = r
    BY <2>1, <2>9
  <2>13. \A i \in 1 .. Len(r) : r[i] = e \/ \E j \in 1 .. Len(q) : r[i] = q[j]
    BY <2>10
  <2>. QED
    BY <1>3, <2>9, <2>11, <2>12, <2>13 DEF y
<1>. QED
  BY <1>2, <1>3
(* A change of the list that adds no route. *)
NoNew(x, y) == \A a : HasRoute(y, a) => HasRoute(x, a)

(* kaodv_expl_add() of a destination that has no route. *)
LEMMA AddKeeps ==
    ASSUME NEW x, ExplOK(x), NEW e \in Entries, ~HasRoute(x, e.daddr)
    PROVE  ExplOK(kaodv_expl_add(x, e))
<1>. DEFINE y == expl_insert(x, e)  z == kaodv_expl_add(x, e)
<1>1. x \in [list : Seq(Entries), len : Nat] /\ x.list \in Seq(Entries) /\ InOrder(x.list)
      /\ Len(x.list) \in Nat /\ x.len \in Nat /\ Len(x.list) <= x.len /\ Len(x.list) <= EXPL_MAX_LEN
  BY SMTT(30) DEF ExplOK
<1>2. \A i \in 1 .. Len(x.list) : x.list[i].daddr # e.daddr
  BY <1>1, FindRoute
<1>3. /\ y \in [list : Seq(Entries), len : Nat] /\ y.len = x.len /\ InOrder(y.list)
      /\ IF x.len >= EXPL_MAX_LEN THEN y = x ELSE Len(y.list) = Len(x.list) + 1
  BY <1>1, <1>2, PutIn
<1>4. z = [y EXCEPT !.len = @ + 1]
  BY DEF kaodv_expl_add
<1>. HIDE DEF y, z
<1>5. z \in [list : Seq(Entries), len : Nat] /\ z.list = y.list /\ z.len = x.len + 1
  BY SMTT(30), <1>1, <1>3, <1>4
<1>6. Len(z.list) <= z.len /\ Len(z.list) <= EXPL_MAX_LEN
  <2>1. CASE x.len >= EXPL_MAX_LEN
    <3>1. z.list = x.list
      BY <1>3, <1>5, <2>1
    <3>. QED
      BY SMTT(30), <1>1, <1>5, <3>1
  <2>2. CASE ~ (x.len >= EXPL_MAX_LEN)
    <3>1. Len(z.list) = Len(x.list) + 1
      BY <1>3, <1>5, <2>2
    <3>. QED
      BY SMTT(30), <1>1, <1>5, <2>2, <3>1, KaodvAssumption
  <2>. QED
    BY <2>1, <2>2
<1>. QED
  BY <1>3, <1>5, <1>6 DEF ExplOK, z

(* kaodv_expl_del() *)
LEMMA DelKeeps ==
    ASSUME NEW x, ExplOK(x), NEW a
    PROVE  ExplOK(kaodv_expl_del(x, a)) /\ NoNew(x, kaodv_expl_del(x, a))
<1>. DEFINE z == kaodv_expl_del(x, a)  k == Place(x, a)  r == RemoveAt(x.list, k)
<1>1. x \in [list : Seq(Entries), len : Nat] /\ x.list \in Seq(Entries) /\ InOrder(x.list)
      /\ Len(x.list) \in Nat /\ x.len \in Nat /\ Len(x.list) <= x.len /\ Len(x.list) <= EXPL_MAX_LEN
  BY SMTT(30) DEF ExplOK
<1>2. k \in 0 .. Len(x.list)
  BY <1>1, FindRoute
<1>3. CASE k = 0
  <2>1. z = x
    BY <1>3 DEF kaodv_expl_del, HasRoute
  <2>. QED
    BY <2>1 DEF NoNew
<1>4. CASE k # 0
  <2>1. z = [list |-> r, len |-> x.len - 1]
    BY <1>4 DEF kaodv_expl_del, HasRoute
  <2>2. k \in 1 .. Len(x.list)
    BY SMTT(30), <1>1, <1>2, <1>4
  <2>3. /\ r \in Seq(Entries) /\ Len(r) = Len(x.list) - 1 /\ InOrder(r)
        /\ \A i \in 1 .. Len(r) : \E j \in 1 .. Len(x.list) : r[i] = x.list[j]
    BY <1>1, <2>2, TakeOut
  <2>. HIDE DEF z, r, k
  <2>4. z \in [list : Seq(Entries), len : Nat] /\ z.list = r /\ z.len = x.len - 1
    BY SMTT(30), <1>1, <2>1, <2>2, <2>3
  <2>5. ExplOK(z)
    BY SMTT(30), <1>1, <2>2, <2>3, <2>4, KaodvAssumption DEF ExplOK
  <2>6. ASSUME NEW b, HasRoute(z, b) PROVE HasRoute(x, b)
    <3>1. PICK i \in 1 .. Len(r) : r[i].daddr = b
      BY <2>4, <2>6, FindRoute
    <3>2. PICK j \in 1 .. Len(x.list) : r[i] = x.list[j]
      BY <2>3
    <3>. QED
      BY <1>1, <3>1, <3>2, FindRoute
  <2>. QED
    BY <2>5, <2>6 DEF NoNew, z
<1>. QED
  BY <1>3, <1>4

(* kaodv_expl_update(), also with the copy of an entry that has changed    *)
(* since it was made, or has gone.                                         *)
LEMMA UpdateKeeps ==
    ASSUME NEW x, ExplOK(x), NEW e \in Entries
    PROVE  ExplOK(kaodv_expl_update(x, e)) /\ NoNew(x, kaodv_expl_update(x, e))
<1>. DEFINE k == Place(x, e.daddr)  r == RemoveAt(x.list, k)  y == [x EXCEPT !.list = r]
            z == expl_insert(y, e)
<1>1. x \in [list : Seq(Entries), len : Nat] /\ x.list \in Seq(Entries) /\ InOrder(x.list)
      /\ Len(x.list) \in Nat /\ x.len \in Nat /\ Len(x.list) <= x.len /\ Len(x.list) <= EXPL_MAX_LEN
  BY SMTT(30) DEF ExplOK
<1>2. k \in 0 .. Len(x.list) /\ (k # 0 => x.list[k].daddr = e.daddr)
  BY <1>1, FindRoute
<1>3. CASE k = 0
  <2>1. kaodv_expl_update(x, e) = x
    BY <1>3 DEF kaodv_expl_update, HasRoute
  <2>. QED
    BY <2>1 DEF NoNew
<1>4. CASE k # 0
  <2>1. kaodv_expl_update(x, e) = z
    BY <1>4 DEF kaodv_expl_update, HasRoute
  <2>2. k \in 1 .. Len(x.list)
    BY SMTT(30), <1>1, <1>2, <1>4
  <2>3. /\ r \in Seq(Entries) /\ Len(r) = Len(x.list) - 1 /\ InOrder(r)
        /\ \A i \in 1 .. Len(r) : /\ r[i].daddr # x.list[k].daddr
                                 /\ \E j \in 1 .. Len(x.list) : r[i] = x.list[j]
    BY <1>1, <2>2, TakeOut
  <2>. HIDE DEF r, k
  <2>4. y \in [list : Seq(Entries), len : Nat] /\ y.list = r /\ y.len = x.len
    BY <1>1, <2>3
  <2>. HIDE DEF y
  <2>5. \A i \in 1 .. Len(y.list) : y.list[i].daddr # e.daddr
    BY <1>2, <1>4, <2>3, <2>4
  <2>6. /\ z \in [list : Seq(Entries), len : Nat] /\ z.len = y.len /\ InOrder(z.list)
        /\ IF y.len >= EXPL_MAX_LEN THEN z = y ELSE Len(z.list) = Len(y.list) + 1
        /\ \A i \in 1 .. Len(z.list) :
              z.list[i] = e \/ \E j \in 1 .. Len(y.list) : z.list[i] = y.list[j]
    <3>1. InOrder(y.list)
      BY <2>3, <2>4
    <3>. QED
      BY <2>4, <2>5, <3>1, PutIn
  <2>. HIDE DEF z
  <2>7. Len(z.list) <= z.len /\ Len(z.list) <= EXPL_MAX_LEN
    <3>1. Len(z.list) \in {Len(x.list) - 1, Len(x.list)}
      BY SMTT(30), <1>1, <2>3, <2>4, <2>6
    <3>. QED
      BY SMTT(30), <1>1, <2>4, <2>6, <3>1, KaodvAssumption
  <2>8. ExplOK(z)
    BY <2>6, <2>7 DEF ExplOK
  <2>9. ASSUME NEW b, HasRoute(z, b) PROVE HasRoute(x, b)
    <3>1. PICK i \in 1 .. Len(z.list) : z.list[i].daddr = b
      BY SMTT(30), <2>6, <2>9, FindRoute
    <3>2. CASE z.list[i] = e
      BY <1>1, <1>2, <1>4, <2>2, <3>1, <3>2, FindRoute
    <3>3. CASE \E j \in 1 .. Len(y.list) : z.list[i] = y.list[j]
      <4>1. PICK j \in 1 .. Len(r) : z.list[i] = r[j]
        BY <2>4, <3>3
      <4>2. PICK l \in 1 .. Len(x.list) : r[j] = x.list[l]
        BY <2>3
      <4>. QED
        BY SMTT(30), <1>1, <3>1, <4>1, <4>2, FindRoute
    <3>. QED
      BY <2>6, <3>2, <3>3
  <2>. QED
    BY <2>1, <2>8, <2>9 DEF NoNew
<1>. QED
  BY <1>3, <1>4

(* __kaodv_expl_flush() *)
LEMMA FlushKeeps ==
    ASSUME NEW x, ExplOK(x)
    PROVE  ExplOK(expl_flush(x)) /\ NoNew(x, expl_flush(x)) /\ expl_flush(x).list = <<>>
<1>. DEFINE z == expl_flush(x)
<1>1. z = [list |-> <<>>, len |-> x.len - Len(x.list)]
  BY DEF expl_flush
<1>2. x.list \in Seq(Entries) /\ x.len \in Nat /\ Len(x.list) \in Nat /\ Len(x.list) <= x.len
  BY SMTT(30) DEF ExplOK
<1>. HIDE DEF z
<1>3. z \in [list : Seq(Entries), len : Nat] /\ z.list = <<>>
  BY SMTT(30), <1>1, <1>2
<1>4. ExplOK(z)
  BY SMTT(30), <1>3, KaodvAssumption DEF ExplOK, InOrder
<1>5. ASSUME NEW b, HasRoute(z, b) PROVE FALSE
  BY SMTT(30), <1>3, <1>5, FindRoute
<1>. QED
  BY <1>3, <1>4, <1>5 DEF NoNew, z
-----------------------------------------------------------------------------
(* kaodv-mod.c: the packets                                                *)

(* A packet that is let pass, as it is or with or without another header.  *)
LEMMA AcceptOK ==
    ASSUME NEW s \in Skbs
    PROVE  HookOK(Accept(s)) /\ Accept(s).pc = "passed"
<1>0. <<>> \in Seq(Todo)
  BY SMTT(30)
<1>1. Accept(s) \in Skbs
  BY <1>0 DEF Accept, Skbs
<1>2. Accept(s).pc = "passed" /\ Accept(s).then = NULL
  BY DEF Accept, Skbs
<1>. QED
  BY <1>1, <1>2, KaodvAssumption DEF HookOK

LEMMA EncapsulateOK ==
    ASSUME NEW s \in Skbs, NEW gw \in Addrs
    PROVE  ip_pkt_encapsulate(s, gw) \in Skbs
  BY DEF ip_pkt_encapsulate, Skbs, Protos

LEMMA DecapsulateOK ==
    ASSUME NEW s \in Skbs, s.inner.dst \in Addrs, s.inner.proto \in Protos
    PROVE  ip_pkt_decapsulate(s) \in Skbs
  BY DEF ip_pkt_decapsulate, Skbs

(* What kaodv_update_route_timeouts() does to a packet *)
LEMMA RefreshOK ==
    ASSUME NEW s, HookOK(s), s.pc # "passed", NEW then \in {"accept", "classify", "encapsulate"},
           then = "encapsulate" => s.e \in Entries
    PROVE  HookOK(Refresh(s, then)) /\ Refresh(s, then).pc = "get"
<1>. DEFINE todo == <<[addr |-> s.dst, hop |-> FALSE], [addr |-> s.src, hop |-> FALSE]>>
            t == [s EXCEPT !.pc = "get", !.then = then, !.todo = todo]
<1>1. s \in Skbs /\ s.dst \in Addrs /\ s.src \in Addrs
  BY DEF HookOK, Skbs
<1>2. todo \in Seq(Todo) /\ todo # <<>>
  BY SMTT(30), <1>1 DEF Todo
<1>. HIDE DEF todo
<1>3. t \in Skbs
  BY <1>1, <1>2 DEF Skbs
<1>4. t.pc = "get" /\ t.then = then /\ t.todo = todo /\ t.proto = s.proto /\ t.inner = s.inner
      /\ t.e = s.e
  BY <1>1 DEF Skbs
<1>. HIDE DEF t
<1>5. HookOK(t)
  BY <1>2, <1>3, <1>4, KaodvAssumption DEF HookOK
<1>6. Refresh(s, then) = t
  BY DEF Refresh, t, todo
<1>. QED
  BY <1>4, <1>5, <1>6

LEMMA ContinueOK ==
    ASSUME NEW s, HookOK(s), s.pc \in {"get", "update"}, NEW todo \in Seq(Todo)
    PROVE  /\ HookOK(Continue(s, todo))
           /\ Continue(s, todo).pc \in {"get", "passed", "classify", "encapsulate"}
<1>1. s \in Skbs /\ s.then # NULL
  BY DEF HookOK
<1>2. CASE todo # <<>>
  <2>. DEFINE t == [s EXCEPT !.pc = "get", !.todo = todo, !.r = NULL]
  <2>1. Continue(s, todo) = t
    BY <1>2 DEF Continue
  <2>2. t \in Skbs
    BY <1>1 DEF Skbs
  <2>3. t.pc = "get" /\ t.then = s.then /\ t.todo = todo /\ t.proto = s.proto /\ t.inner = s.inner
        /\ t.e = s.e
    BY <1>1 DEF Skbs
  <2>. HIDE DEF t
  <2>4. HookOK(t)
    BY <1>1, <1>2, <2>2, <2>3 DEF HookOK
  <2>. QED
    BY <2>1, <2>3, <2>4
<1>3. CASE todo = <<>> /\ s.then = "accept"
  <2>1. Continue(s, todo) = Accept(s)
    BY <1>3 DEF Continue
  <2>. QED
    BY <1>1, <2>1, AcceptOK
<1>4. CASE todo = <<>> /\ s.then # "accept"
  <2>. DEFINE t == [s EXCEPT !.pc = s.then, !.then = NULL, !.todo = <<>>, !.r = NULL]
  <2>1. Continue(s, todo) = t
    BY <1>4 DEF Continue
  <2>2. s.then \in {"classify", "encapsulate"}
    BY <1>1, <1>4 DEF Skbs
  <2>3. <<>> \in Seq(Todo)
    BY SMTT(30)
  <2>4. t \in Skbs
    BY <1>1, <2>2, <2>3 DEF Skbs
  <2>5. t.pc = s.then /\ t.then = NULL /\ t.proto = s.proto /\ t.inner = s.inner /\ t.e = s.e
    BY <1>1 DEF Skbs
  <2>. HIDE DEF t
  <2>6. HookOK(t)
    BY <1>1, <2>2, <2>4, <2>5, KaodvAssumption DEF HookOK
  <2>. QED
    BY <2>1, <2>2, <2>5, <2>6
<1>. QED
  BY <1>2, <1>3, <1>4
SetPc(s, pc) == [s EXCEPT !.pc = pc]
LEMMA SetPcOK ==
    ASSUME NEW s, HookOK(s), s.pc # "passed",
           NEW pc \in {"lookup", "find", "enqueue", "held", "leaving", "dropped", "freed", "lost"}
    PROVE  HookOK(SetPc(s, pc)) /\ SetPc(s, pc).pc = pc /\ SetPc(s, pc).dst = s.dst
<1>. DEFINE t == [s EXCEPT !.pc = pc]
<1>1. s \in Skbs
  BY DEF HookOK
<1>2. t \in Skbs
  BY <1>1 DEF Skbs
<1>3. t.pc = pc /\ t.dst = s.dst /\ t.then = s.then /\ t.proto = s.proto /\ t.inner = s.inner /\ t.e = s.e
  BY <1>1 DEF Skbs
<1>. HIDE DEF t
<1>4. HookOK(t)
  BY <1>2, <1>3 DEF HookOK
<1>. QED
  BY <1>3, <1>4 DEF t, SetPc

-----------------------------------------------------------------------------
(* The queue, the messages to the daemon, and steps of the hook            *)

(* __kaodv_queue_find_entry() finds the packet that waits longest.         *)
LEMMA FindWaiting ==
    ASSUME QueueOK(queue), NEW a
    PROVE  /\ Waiting(a) \in 0 .. Len(queue.list)
           /\ Waiting(a) # 0 => skb[queue.list[Waiting(a)]].dst = a
           /\ \A i \in 1 .. Len(queue.list) :
                 i < Waiting(a) \/ Waiting(a) = 0 => skb[queue.list[i]].dst # a
<1>. DEFINE I == {i \in 1 .. Len(queue.list) : skb[queue.list[i]].dst = a}
<1>1. Waiting(a) = IF I # {} THEN Min(I) ELSE 0
  BY DEF Waiting, SelectInSeq
<1>2. Len(queue.list) \in Nat /\ I \in SUBSET (1 .. Len(queue.list))
  BY DEF QueueOK
<1>. HIDE DEF I
<1>3. /\ Waiting(a) \in 0 .. Len(queue.list)
      /\ Waiting(a) = 0 <=> I = {}
      /\ Waiting(a) # 0 => Waiting(a) \in I /\ \A i \in I : Waiting(a) <= i
  BY <1>1, <1>2, FirstIndex
<1>. QED
  BY SMTT(30), <1>2, <1>3 DEF I

(* What was told stays told, unless nobody knows any more what was not.    *)
LEMMA TellKeeps ==
    ASSUME NEW type, NEW dst, kaodv_netlink_send_rt_msg(type, dst)
    PROVE  /\ \A a : Asked(told, a) => Asked(told', a)
           /\ type \in {"ROUTE_REQ", "REPAIR"} => Asked(told', dst)
<1>1. PICK m : (m = NULL \/ m = [type |-> type, dst |-> dst]) /\ Told(m)
  BY DEF kaodv_netlink_send_rt_msg, kaodv_netlink_build_msg
<1>2. CASE NULL \in told \cup {m}
  BY <1>1, <1>2 DEF Told, Asked
<1>3. CASE ~ (NULL \in told \cup {m})
  <2>1. told' = told \cup {m} /\ m.type = type /\ m.dst = dst
    BY SMTT(30), <1>1, <1>3 DEF Told
  <2>. QED
    BY <1>3, <2>1 DEF Asked
<1>. QED
  BY <1>2, <1>3

(* kaodv_expl_get() copies an entry. *)
LEMMA GetOK ==
    ASSUME ExplOK(expl), NEW a
    PROVE  kaodv_expl_get(a) \in Entries \cup {NULL}
<1>1. expl.list \in Seq(Entries)
  BY DEF ExplOK
<1>2. Place(expl, a) \in 0 .. Len(expl.list)
  BY <1>1, FindRoute
<1>3. HasRoute(expl, a) => expl.list[Place(expl, a)] \in Entries
  BY SMTT(30), <1>1, <1>2 DEF HasRoute
<1>. QED
  BY <1>3 DEF kaodv_expl_get

LEMMA NoNewEmpty ==
    ASSUME NEW x, NEW y, ExplOK(x), ExplOK(y), NoNew(x, y), y.list # <<>>
    PROVE  x.list # <<>>
<1>1. x.list \in Seq(Entries) /\ y.list \in Seq(Entries)
  BY DEF ExplOK
<1>2. 1 \in 1 .. Len(y.list)
  BY SMTT(30), <1>1
<1>3. HasRoute(y, y.list[1].daddr)
  BY <1>1, <1>2, FindRoute
<1>4. HasRoute(x, y.list[1].daddr)
  BY <1>3 DEF NoNew
<1>. QED
  BY SMTT(30), <1>1, <1>4, FindRoute

(* A step of the hook for packet p that does not touch the queue.          *)
LEMMA PacketStep ==
    ASSUME KInv, NEW p \in Packets, NEW t, HookOK(t), skb' = [skb EXCEPT ![p] = t],
           skb[p].pc \notin {"held", "leaving"}, t.pc \notin {"held", "leaving"},
           InHook(p) \/ module.phase \in {"hooks", "in", "purged"} \/ t.pc = "passed",
           t.pc = "enqueue" => Asked(told', t.dst),
           \A a : Asked(told, a) => Asked(told', a),
           ExplOK(expl'), NoNew(expl, expl'),
           UNCHANGED <<queue, nl, peer_pid, socks, closing, conf, module, ticks>>
    PROVE  KInv'
<1>1. /\ DOMAIN skb' = Packets /\ skb' = [q \in Packets |-> skb'[q]]
      /\ skb'[p] = t /\ \A q \in Packets \ {p} : skb'[q] = skb[q]
  BY DEF KInv
<1>2. \A q \in Packets : HookOK(skb'[q])
  BY <1>1 DEF KInv
<1>3. ExplOK(expl) /\ QueueOK(queue) /\ QueueOK(queue')
  BY DEF KInv
<1>4. NlOK'
  BY DEF KInv, NlOK, NoNew, Idle
<1>5. Places'
  BY <1>1 DEF KInv, Places
<1>6. AllAsked'
  BY <1>1 DEF KInv, AllAsked
<1>7. \A q \in Packets : InHook(q)' => module.phase \in {"hooks", "in", "purged"}
  BY <1>1 DEF KInv, PhaseOK, InHook
<1>8. expl'.list # <<>> => expl.list # <<>>
  BY <1>3, NoNewEmpty
<1>9. PhaseOK'
  BY <1>7, <1>8 DEF KInv, PhaseOK
<1>10. ModuleOK'
  BY DEF KInv, ModuleOK, MtuOK
<1>. QED
  BY <1>1, <1>2, <1>3, <1>4, <1>5, <1>6, <1>9, <1>10 DEF KInv

LEMMA HookKeeps ==
    ASSUME KInv, NEW p \in Packets, kaodv_hook(p)
    PROVE  KInv'
<1>. DEFINE s == skb[p]  t == skb'[p]  u == SetPc(s, "lookup")
            ignored == ~KnownIf(s.dev) \/ IF s.proto = "aodv" THEN s.hook # "PRE_ROUTING" ELSE s.dst \in Broadcasts
            c == CASE s.hook = "LOCAL_OUT" -> u
                   [] s.hook = "PRE_ROUTING" /\ ~(s.proto = "aodv") -> Refresh(s, "classify")
                   [] OTHER -> Refresh(s, "accept")
<1>1. HookOK(s) /\ s \in Skbs /\ s.pc = "arrives"
  BY DEF KInv, HookOK, kaodv_hook
<1>2. skb' = [skb EXCEPT ![p] = t]
  BY DEF KInv, kaodv_hook
<1>3. \/ t = Accept(s)
      \/ KnownIf(s.dev) /\ t \in {u, Refresh(s, "classify"), Refresh(s, "accept")}
  <2>. DEFINE v == IF ignored THEN Accept(s) ELSE c
  <2>1. skb' = [skb EXCEPT ![p] = v]
    BY DEF kaodv_hook, SetPc
  <2>2. c \in {u, Refresh(s, "classify"), Refresh(s, "accept")}
    BY ZenonT(30)
  <2>. HIDE DEF v
  <2>3. t = v
    BY <2>1 DEF KInv
  <2>. HIDE DEF u, c, ignored, t
  <2>. QED
    BY <2>2, <2>3 DEF ignored, v
<1>4. KnownIf(s.dev) => module.phase \in {"hooks", "in", "purged"}
  BY SMTT(30) DEF KInv, PhaseOK, KnownIf
<1>5. HookOK(t) /\ t.pc \in {"passed", "lookup", "get"}
  <2>1. CASE t = Accept(s)
    BY <1>1, <2>1, AcceptOK
  <2>2. CASE t = u
    BY SMTT(30), <1>1, <2>2, SetPcOK
  <2>3. CASE t = Refresh(s, "classify")
    BY <1>1, <2>3, RefreshOK
  <2>4. CASE t = Refresh(s, "accept")
    BY <1>1, <2>4, RefreshOK
  <2>. QED
    BY <1>3, <2>1, <2>2, <2>3, <2>4
<1>6. t = Accept(s) => t.pc = "passed"
  BY <1>1, AcceptOK
<1>7. UNCHANGED <<queue, nl, peer_pid, socks, closing, conf, module, ticks, told, expl>>
  BY DEF kaodv_hook, bounds
<1>8. ExplOK(expl') /\ NoNew(expl, expl')
  BY <1>7 DEF KInv, NoNew
<1>. HIDE DEF t
<1>. QED
  BY <1>1, <1>2, <1>3, <1>4, <1>5, <1>6, <1>7, <1>8, PacketStep

LEMMA RefreshGetKeeps ==
    ASSUME KInv, NEW p \in Packets, RefreshGet(p)
    PROVE  KInv'
<1>. DEFINE s == skb[p]  t == skb'[p]  r == kaodv_expl_get(Head(s.todo).addr)
<1>1. HookOK(s) /\ s \in Skbs /\ s.pc = "get" /\ s.todo \in Seq(Todo) /\ s.todo # <<>>
  BY DEF KInv, HookOK, RefreshGet, Skbs
<1>2. skb' = [skb EXCEPT ![p] = t]
  BY DEF KInv, RefreshGet
<1>3. t = IF r = NULL THEN Continue(s, Tail(s.todo)) ELSE [s EXCEPT !.pc = "update", !.r = r]
  BY DEF KInv, RefreshGet
<1>4. HookOK(t) /\ t.pc \in {"get", "passed", "classify", "encapsulate", "update"}
  <2>1. CASE r = NULL
    <3>1. Tail(s.todo) \in Seq(Todo)
      BY SMTT(30), <1>1
    <3>2. t = Continue(s, Tail(s.todo))
      BY <1>3, <2>1
    <3>. HIDE DEF s, t
    <3>. QED
      BY <1>1, <3>1, <3>2, ContinueOK
  <2>2. CASE r # NULL
    <3>1. r \in Entries
      BY <2>2, GetOK DEF KInv
    <3>2. t = [s EXCEPT !.pc = "update", !.r = r]
      BY <1>3, <2>2
    <3>. HIDE DEF t, r
    <3>3. t \in Skbs
      BY <1>1, <3>1, <3>2 DEF Skbs
    <3>4. t.pc = "update" /\ t.r = r /\ t.then = s.then /\ t.proto = s.proto /\ t.inner = s.inner /\ t.e = s.e
          /\ t.todo = s.todo
      BY <1>1, <3>2 DEF Skbs
    <3>. QED
      BY <1>1, <3>1, <3>3, <3>4 DEF HookOK
  <2>. QED
    BY <2>1, <2>2
<1>5. UNCHANGED <<queue, nl, peer_pid, socks, closing, conf, module, ticks, told, expl>>
  BY DEF RefreshGet, bounds
<1>6. ExplOK(expl') /\ NoNew(expl, expl')
  BY <1>5 DEF KInv, NoNew
<1>7. InHook(p)
  BY <1>1 DEF InHook
<1>. HIDE DEF t
<1>. QED
  BY <1>1, <1>2, <1>4, <1>5, <1>6, <1>7, PacketStep

(* kaodv_expl_update() is given a copy that may be stale.                  *)
LEMMA RefreshUpdateKeeps ==
    ASSUME KInv, NEW p \in Packets, RefreshUpdate(p)
    PROVE  KInv'
<1>. DEFINE s == skb[p]  t == skb'[p]
            hop == ~Head(s.todo).hop /\ s.r.nhop # s.r.daddr
            todo == (IF hop THEN <<[addr |-> s.r.nhop, hop |-> TRUE]>> ELSE <<>>) \o Tail(s.todo)
            e == [s.r EXCEPT !.expires = Expires(conf.active_route_timeout)]
<1>1. HookOK(s) /\ s.pc = "update" /\ s.todo \in Seq(Todo) /\ s.todo # <<>> /\ s.r \in Entries
  BY DEF KInv, HookOK, RefreshUpdate, Skbs
<1>2. skb' = [skb EXCEPT ![p] = t] /\ t = Continue(s, todo)
  BY DEF KInv, RefreshUpdate
<1>3. s.r.nhop \in Addrs
  BY <1>1 DEF Entries, Addrs
<1>4. [addr |-> s.r.nhop, hop |-> TRUE] \in Todo
  BY <1>3 DEF Todo
<1>5. Tail(s.todo) \in Seq(Todo)
  BY SMTT(30), <1>1
<1>6. todo \in Seq(Todo)
  <2>1. <<[addr |-> s.r.nhop, hop |-> TRUE]>> \o Tail(s.todo) \in Seq(Todo)
    BY SMTT(30), <1>4, <1>5
  <2>2. <<>> \o Tail(s.todo) \in Seq(Todo)
    BY SMTT(30), <1>5
  <2>. QED
    BY <2>1, <2>2
<1>. HIDE DEF todo
<1>7. HookOK(t) /\ t.pc \in {"get", "passed", "classify", "encapsulate"}
  BY <1>1, <1>2, <1>6, ContinueOK
<1>8. Expires(conf.active_route_timeout) \in Nat
  BY SMTT(30), KaodvAssumption DEF Expires, jiffies, KInv
<1>9. e \in Entries
  BY <1>1, <1>8 DEF Entries
<1>10. expl' = kaodv_expl_update(expl, e)
  BY DEF RefreshUpdate
<1>. HIDE DEF e, t
<1>11. ExplOK(expl') /\ NoNew(expl, expl')
  BY <1>9, <1>10, UpdateKeeps DEF KInv
<1>12. UNCHANGED <<queue, nl, peer_pid, socks, closing, conf, module, ticks, told>>
  BY DEF RefreshUpdate, bounds
<1>13. InHook(p)
  BY <1>1 DEF InHook
<1>. QED
  BY <1>1, <1>2, <1>7, <1>11, <1>12, <1>13, PacketStep

LEMMA ClassifyKeeps ==
    ASSUME KInv, NEW p \in Packets, Classify(p)
    PROVE  KInv'
<1>. DEFINE s == skb[p]  t == skb'[p]  e == kaodv_expl_get(s.dst)
            decap == conf.is_gateway /\ s.proto = "mipe" /\ s.dst = IfAddr
            mine == IfAddr \in {s.src, s.dst}
            repair == e # NULL /\ "REPAIR" \in e.flags
<1>1. HookOK(s) /\ s \in Skbs /\ s.pc = "classify"
  BY DEF KInv, HookOK, Classify
<1>2. /\ skb' = [skb EXCEPT ![p] = t]
      /\ t = CASE decap -> Accept(ip_pkt_decapsulate(s))
               [] mine /\ ~decap -> Accept(s)
               [] ~mine /\ e = NULL -> SetPc(s, "dropped")
               [] ~mine /\ repair -> SetPc(s, "enqueue")
               [] OTHER -> Accept(s)
      /\ CASE ~mine /\ e = NULL /\ ~decap -> kaodv_netlink_send_rerr_msg(s.dst)
           [] ~mine /\ repair -> kaodv_netlink_send_rt_msg("REPAIR", s.dst)
           [] OTHER -> UNCHANGED told
  BY DEF KInv, Classify, SetPc
<1>3. decap => mine
  OBVIOUS
<1>4. repair => e # NULL
  OBVIOUS
<1>5. \/ decap /\ t = Accept(ip_pkt_decapsulate(s)) /\ UNCHANGED told
      \/ t = Accept(s) /\ UNCHANGED told
      \/ t = SetPc(s, "dropped") /\ kaodv_netlink_send_rerr_msg(s.dst)
      \/ t = SetPc(s, "enqueue") /\ kaodv_netlink_send_rt_msg("REPAIR", s.dst)
  <2>. HIDE DEF t, e, decap, mine, repair
  <2>1. CASE mine
    BY <1>2, <1>3, <1>4, <2>1
  <2>2. CASE ~mine
    BY <1>2, <1>3, <1>4, <2>2
  <2>. QED
    BY <2>1, <2>2
<1>6. /\ HookOK(t) /\ t.pc \in {"passed", "dropped", "enqueue"}
      /\ t.pc = "enqueue" => Asked(told', t.dst)
      /\ \A a : Asked(told, a) => Asked(told', a)
  <2>1. CASE decap /\ t = Accept(ip_pkt_decapsulate(s)) /\ UNCHANGED told
    <3>1. s.inner.dst \in Addrs /\ s.inner.proto \in Protos
      BY <1>1, <2>1 DEF HookOK
    <3>. QED
      BY <1>1, <2>1, <3>1, DecapsulateOK, AcceptOK
  <2>2. CASE t = Accept(s) /\ UNCHANGED told
    BY <1>1, <2>2, AcceptOK
  <2>3. CASE t = SetPc(s, "dropped") /\ kaodv_netlink_send_rerr_msg(s.dst)
    <3>1. kaodv_netlink_send_rt_msg("SEND_RERR", s.dst)
      BY <2>3 DEF kaodv_netlink_send_rt_msg, kaodv_netlink_send_rerr_msg
    <3>2. HookOK(t) /\ t.pc = "dropped"
      BY SMTT(30), <1>1, <2>3, SetPcOK
    <3>. QED
      BY <3>1, <3>2, TellKeeps
  <2>4. CASE t = SetPc(s, "enqueue") /\ kaodv_netlink_send_rt_msg("REPAIR", s.dst)
    <3>1. HookOK(t) /\ t.pc = "enqueue" /\ t.dst = s.dst
      BY SMTT(30), <1>1, <2>4, SetPcOK
    <3>. QED
      BY <2>4, <3>1, TellKeeps
  <2>. QED
    BY <1>5, <2>1, <2>2, <2>3, <2>4
<1>7. UNCHANGED <<queue, nl, peer_pid, socks, closing, conf, module, ticks, expl>>
  BY DEF Classify, bounds
<1>8. ExplOK(expl') /\ NoNew(expl, expl')
  BY <1>7 DEF KInv, NoNew
<1>9. InHook(p)
  BY <1>1 DEF InHook
<1>. HIDE DEF t
<1>. QED
  BY <1>1, <1>2, <1>6, <1>7, <1>8, <1>9, PacketStep

LEMMA LookUpKeeps ==
    ASSUME KInv, NEW p \in Packets, LookUp(p)
    PROVE  KInv'
<1>. DEFINE s == skb[p]  t == skb'[p]  e == kaodv_expl_get(s.dst)  u == [s EXCEPT !.e = e]
            v == CASE e = NULL -> SetPc(s, "find")
                   [] e # NULL /\ "REPAIR" \in e.flags -> SetPc(s, "find")
                   [] e # NULL /\ e.flags = {"GW_ENCAP"} -> Refresh(u, "encapsulate")
                   [] OTHER -> Accept(s)
<1>1. HookOK(s) /\ s \in Skbs /\ s.pc = "lookup"
  BY DEF KInv, HookOK, LookUp
<1>2. skb' = [skb EXCEPT ![p] = v]
  BY DEF LookUp, SetPc
<1>3. v \in {SetPc(s, "find"), Accept(s)} \/ (e # NULL /\ v = Refresh(u, "encapsulate"))
  <2>. HIDE DEF e, u
  <2>. QED
    BY SMTT(30)
<1>. HIDE DEF v
<1>4. t = v
  BY <1>2 DEF KInv
<1>5. HookOK(v) /\ v.pc \in {"passed", "find", "get"}
  <2>1. CASE v = SetPc(s, "find")
    BY <1>1, <2>1, SetPcOK
  <2>2. CASE v = Accept(s)
    BY <1>1, <2>2, AcceptOK
  <2>3. CASE e # NULL /\ v = Refresh(u, "encapsulate")
    <3>1. e \in Entries
      BY <2>3, GetOK DEF KInv
    <3>. HIDE DEF e
    <3>2. u \in Skbs
      BY <1>1, <3>1 DEF Skbs
    <3>3. u.pc = s.pc /\ u.e = e /\ u.then = s.then /\ u.proto = s.proto /\ u.inner = s.inner
      BY <1>1 DEF Skbs
    <3>. HIDE DEF u
    <3>4. HookOK(u) /\ u.pc # "passed"
      BY <1>1, <3>1, <3>2, <3>3 DEF HookOK
    <3>. QED
      BY <2>3, <3>1, <3>3, <3>4, RefreshOK
  <2>. QED
    BY <1>3, <2>1, <2>2, <2>3
<1>6. UNCHANGED <<queue, nl, peer_pid, socks, closing, conf, module, ticks, told, expl>>
  BY DEF LookUp, bounds
<1>7. ExplOK(expl') /\ NoNew(expl, expl')
  BY <1>6 DEF KInv, NoNew
<1>8. InHook(p)
  BY <1>1 DEF InHook
<1>. QED
  BY <1>1, <1>2, <1>5, <1>6, <1>7, <1>8, PacketStep

(* Another packet that waits for the destination was asked for.            *)
LEMMA FindQueuedKeeps ==
    ASSUME KInv, NEW p \in Packets, FindQueued(p)
    PROVE  KInv'
<1>. DEFINE s == skb[p]  v == SetPc(s, "enqueue")
<1>1. HookOK(s) /\ s.pc = "find"
  BY DEF KInv, FindQueued
<1>2. skb' = [skb EXCEPT ![p] = v]
  BY DEF FindQueued, SetPc
<1>3. HookOK(v) /\ v.pc = "enqueue" /\ v.dst = s.dst
  BY <1>1, SetPcOK
<1>. HIDE DEF v
<1>4. Asked(told', s.dst) /\ \A a : Asked(told, a) => Asked(told', a)
  <2>1. CASE Waiting(s.dst) = 0
    BY <2>1, TellKeeps DEF FindQueued
  <2>2. CASE Waiting(s.dst) # 0
    <3>. DEFINE i == Waiting(s.dst)
    <3>1. i \in 1 .. Len(queue.list) /\ skb[queue.list[i]].dst = s.dst /\ queue.list \in Seq(Packets)
      BY SMTT(30), <2>2, FindWaiting DEF KInv, QueueOK
    <3>. HIDE DEF i
    <3>2. queue.list[i] \in Packets
      BY SMTT(30), <3>1
    <3>3. skb[queue.list[i]].pc = "held"
      BY <3>1, <3>2 DEF KInv, Places, Queued
    <3>4. Asked(told, s.dst)
      BY <3>1, <3>2, <3>3 DEF KInv, AllAsked
    <3>. QED
      BY <2>2, <3>4 DEF FindQueued
  <2>. QED
    BY <2>1, <2>2
<1>5. UNCHANGED <<queue, nl, peer_pid, socks, closing, conf, module, ticks, expl>>
  BY DEF FindQueued, bounds
<1>6. ExplOK(expl') /\ NoNew(expl, expl')
  BY <1>5 DEF KInv, NoNew
<1>7. InHook(p)
  BY <1>1 DEF InHook
<1>. QED
  BY <1>1, <1>2, <1>3, <1>4, <1>5, <1>6, <1>7, PacketStep

LEMMA EncapsulateKeeps ==
    ASSUME KInv, NEW p \in Packets, Encapsulate(p)
    PROVE  KInv'
<1>. DEFINE s == skb[p]  u == Accept(ip_pkt_encapsulate(s, s.e.nhop))
<1>1. HookOK(s) /\ s \in Skbs /\ s.pc = "encapsulate" /\ s.e \in Entries
  BY DEF KInv, HookOK, Encapsulate
<1>2. PICK v \in {SetPc(s, "freed"), u} : skb' = [skb EXCEPT ![p] = v]
  BY DEF Encapsulate, SetPc
<1>3. s.e.nhop \in Addrs
  BY <1>1 DEF Entries, Addrs
<1>4. HookOK(v) /\ v.pc \in {"freed", "passed"}
  <2>1. HookOK(u) /\ u.pc = "passed"
    BY <1>1, <1>3, EncapsulateOK, AcceptOK
  <2>2. HookOK(SetPc(s, "freed")) /\ SetPc(s, "freed").pc = "freed"
    BY <1>1, SetPcOK
  <2>. HIDE DEF u
  <2>. QED
    BY <1>2, <2>1, <2>2
<1>5. UNCHANGED <<queue, nl, peer_pid, socks, closing, conf, module, ticks, told, expl>>
  BY DEF Encapsulate, bounds
<1>6. ExplOK(expl') /\ NoNew(expl, expl')
  BY <1>5 DEF KInv, NoNew
<1>7. InHook(p)
  BY <1>1 DEF InHook
<1>. HIDE DEF u
<1>. QED
  BY <1>1, <1>2, <1>4, <1>5, <1>6, <1>7, PacketStep

(* kaodv_queue_enqueue_packet() loses the packet, or it is the last of the *)
(* queue, in which it has not been.                                        *)
LEMMA EnqueueKeeps ==
    ASSUME KInv, NEW p \in Packets, kaodv_queue_enqueue_packet(p)
    PROVE  KInv'
<1>. DEFINE s == skb[p]
<1>1. HookOK(s) /\ s.pc = "enqueue"
  BY DEF KInv, kaodv_queue_enqueue_packet
<1>2. UNCHANGED <<nl, peer_pid, socks, closing, conf, module, ticks, told, expl>>
  BY DEF kaodv_queue_enqueue_packet, bounds
<1>3. ExplOK(expl') /\ NoNew(expl, expl')
  BY <1>2 DEF KInv, NoNew
<1>4. InHook(p)
  BY <1>1 DEF InHook
<1>5. QueueOK(queue) /\ queue.list \in Seq(Packets) /\ Len(queue.list) \in Nat
  BY DEF KInv, QueueOK
<1>6. CASE queue' = queue /\ skb' = [skb EXCEPT ![p] = SetPc(s, "lost")]
  <2>1. HookOK(SetPc(s, "lost")) /\ SetPc(s, "lost").pc = "lost"
    BY <1>1, SetPcOK
  <2>. QED
    BY <1>1, <1>2, <1>3, <1>4, <1>6, <2>1, PacketStep
<1>7. CASE /\ queue.total < queue.maxlen
           /\ queue' = [queue EXCEPT !.list = Append(@, p), !.total = @ + 1]
           /\ skb' = [skb EXCEPT ![p] = SetPc(s, "held")]
  <2>1. HookOK(SetPc(s, "held")) /\ SetPc(s, "held").pc = "held" /\ SetPc(s, "held").dst = s.dst
    BY <1>1, SetPcOK
  <2>2. /\ DOMAIN skb' = Packets /\ skb' = [q \in Packets |-> skb'[q]]
        /\ skb'[p].pc = "held" /\ skb'[p].dst = s.dst /\ \A q \in Packets \ {p} : skb'[q] = skb[q]
    BY <1>7, <2>1 DEF KInv
  <2>3. \A q \in Packets : HookOK(skb'[q])
    BY <1>7, <2>1, <2>2 DEF KInv
  <2>4. /\ queue' \in [list : Seq(Packets), total : Nat, maxlen : Nat] /\ queue'.list = Append(queue.list, p)
        /\ queue'.total = queue.total + 1 /\ queue'.maxlen = queue.maxlen
    <3>1. queue \in [list : Seq(Packets), total : Nat, maxlen : Nat]
      BY <1>5 DEF QueueOK
    <3>2. Append(queue.list, p) \in Seq(Packets)
      BY SMTT(30), <1>5
    <3>3. queue' = [list |-> Append(queue.list, p), total |-> queue.total + 1, maxlen |-> queue.maxlen]
      BY <1>7, <3>1
    <3>4. queue.total \in Nat /\ queue.maxlen \in Nat
      BY <3>1
    <3>. QED
      BY SMTT(30), <3>2, <3>3, <3>4
  <2>5. /\ Len(queue'.list) = Len(queue.list) + 1 /\ queue'.list[Len(queue.list) + 1] = p
        /\ \A i \in 1 .. Len(queue.list) : queue'.list[i] = queue.list[i]
    BY SMTT(30), <1>5, <2>4
  <2>6. \A i \in 1 .. Len(queue.list) : queue.list[i] # p
    BY <1>1 DEF KInv, Places, Queued
  <2>7. QueueOK(queue')
    <3>1. ASSUME NEW i \in 1 .. Len(queue'.list), NEW j \in 1 .. Len(queue'.list), queue'.list[i] = queue'.list[j]
          PROVE  i = j
      <4>1. CASE i \in 1 .. Len(queue.list) /\ j \in 1 .. Len(queue.list)
        BY <1>5, <2>5, <3>1, <4>1 DEF QueueOK
      <4>2. CASE ~(i \in 1 .. Len(queue.list) /\ j \in 1 .. Len(queue.list))
        BY SMTT(30), <1>5, <2>5, <2>6, <3>1, <4>2
      <4>. QED
        BY <4>1, <4>2
    <3>2. queue'.total = Len(queue'.list) /\ Len(queue'.list) <= queue'.maxlen
      BY SMTT(30), <1>5, <1>7, <2>4, <2>5 DEF QueueOK
    <3>. QED
      BY <2>4, <3>1, <3>2 DEF QueueOK
  <2>8. \A q : Queued(queue', q) <=> q = p \/ Queued(queue, q)
    BY SMTT(30), <1>5, <2>5 DEF Queued
  <2>9. Places'
    <3>1. \A q \in Packets : skb'[q].pc = "held" <=> q = p \/ skb[q].pc = "held"
      BY <2>2
    <3>2. \A q \in Packets : skb'[q].pc = "leaving" <=> skb[q].pc = "leaving"
      BY <1>1, <2>2
    <3>. QED
      BY SMTT(30), <1>2, <2>8, <3>1, <3>2 DEF KInv, Places
  <2>10. AllAsked'
    BY <1>1, <1>2, <2>2 DEF KInv, AllAsked
  <2>11. PhaseOK'
    <3>1. module.phase \in {"hooks", "in", "purged"}
      BY <1>4 DEF KInv, PhaseOK
    <3>2. \A q \in Packets : InHook(q)' => module.phase \in {"hooks", "in", "purged"}
      BY <3>1
    <3>. QED
      BY <1>2, <3>1, <3>2 DEF KInv, PhaseOK
  <2>12. NlOK' /\ ModuleOK'
    BY <1>2 DEF KInv, NlOK, ModuleOK, MtuOK, Idle
  <2>. QED
    BY <1>2, <1>3, <2>2, <2>3, <2>7, <2>9, <2>10, <2>11, <2>12 DEF KInv
<1>8. QED
  <2>1. PICK q \in {queue, queue_enqueue_entry(p)} :
           queue' = q /\ skb' = [skb EXCEPT ![p].pc = IF q = queue THEN "lost" ELSE "held"]
    BY DEF kaodv_queue_enqueue_packet
  <2>2. CASE q = queue
    <3>1. skb' = [skb EXCEPT ![p] = SetPc(s, "lost")]
      BY <2>1, <2>2 DEF SetPc
    <3>. QED
      BY <1>6, <2>1, <2>2, <3>1
  <2>3. CASE q # queue
    <3>1. skb' = [skb EXCEPT ![p] = SetPc(s, "held")]
      BY <2>1, <2>3 DEF SetPc
    <3>2. ~(queue.total >= queue.maxlen) /\ q = [queue EXCEPT !.list = Append(@, p), !.total = @ + 1]
      BY <2>1, <2>3 DEF queue_enqueue_entry
    <3>3. queue.total < queue.maxlen
      BY SMTT(30), <1>5, <3>2 DEF QueueOK
    <3>. QED
      BY <1>7, <2>1, <3>1, <3>2, <3>3
  <2>. QED
    BY <2>2, <2>3

-----------------------------------------------------------------------------
(* Packets that leave the queue                                            *)

(* __kaodv_queue_find_dequeue_entry() *)
LEMMA DequeueOK ==
    ASSUME QueueOK(queue), NEW i \in 1 .. Len(queue.list)
    PROVE  LET q == queue_dequeue_entry(i) IN
           /\ QueueOK(q) /\ q.list = RemoveAt(queue.list, i)
           /\ \A p : Queued(q, p) <=> Queued(queue, p) /\ p # queue.list[i]
<1>. DEFINE l == queue.list  r == RemoveAt(l, i)  q == queue_dequeue_entry(i)
            at(j) == IF j < i THEN j ELSE j + 1
<1>1. queue \in [list : Seq(Packets), total : Nat, maxlen : Nat]
  BY DEF QueueOK
<1>2. l \in Seq(Packets) /\ Len(l) \in Nat /\ queue.total = Len(l) /\ Len(l) <= queue.maxlen /\ queue.maxlen \in Nat
  BY <1>1 DEF QueueOK
<1>3. /\ r \in Seq(Packets) /\ Len(r) = Len(l) - 1
      /\ \A j \in 1 .. Len(l) - 1 : r[j] = l[at(j)]
  BY <1>2, RemoveAtElements
<1>4. q = [list |-> r, total |-> queue.total - 1, maxlen |-> queue.maxlen]
  <2>1. q = [queue EXCEPT !.list = r, !.total = queue.total - 1]
    BY DEF queue_dequeue_entry
  <2>. HIDE DEF r, q, l
  <2>. QED
    BY <1>1, <2>1
<1>. HIDE DEF r, q
<1>5. /\ q \in [list : Seq(Packets), total : Nat, maxlen : Nat] /\ q.list = r
      /\ q.total = Len(r) /\ Len(r) <= q.maxlen
  BY SMTT(30), <1>2, <1>3, <1>4
<1>6. /\ \A j \in 1 .. Len(r) : at(j) \in 1 .. Len(l) /\ at(j) # i
      /\ \A j, k \in 1 .. Len(r) : at(j) = at(k) => j = k
      /\ \A k \in 1 .. Len(l) : k # i => \E j \in 1 .. Len(r) : k = at(j)
  <2>1. \A k \in 1 .. Len(l) : k # i => \E j \in 1 .. Len(r) : k = at(j)
    <3>. TAKE k \in 1 .. Len(l)
    <3>. HAVE k # i
    <3>1. CASE k < i
      <4>1. k \in 1 .. Len(r) /\ k = at(k)
        BY SMTT(30), <1>2, <1>3, <3>1
      <4>. QED
        BY <4>1
    <3>2. CASE k > i
      <4>1. k - 1 \in 1 .. Len(r) /\ k = at(k - 1)
        BY SMTT(30), <1>2, <1>3, <3>2
      <4>. QED
        BY <4>1
    <3>. QED
      BY SMTT(30), <1>2, <3>1, <3>2
  <2>2. Len(r) = Len(l) - 1 /\ Len(l) \in Nat /\ i \in 1 .. Len(l)
    BY <1>2, <1>3
  <2>3. \A j \in 1 .. Len(r) : at(j) \in 1 .. Len(l) /\ at(j) # i
    BY SMTT(30), <2>2
  <2>4. \A j, k \in 1 .. Len(r) : at(j) = at(k) => j = k
    BY SMTT(30), <2>2
  <2>. QED
    BY <2>1, <2>3, <2>4
<1>. HIDE DEF at
<1>7. \A j, k \in 1 .. Len(l) : l[j] = l[k] => j = k
  BY DEF QueueOK
<1>8. \A j, k \in 1 .. Len(r) : r[j] = r[k] => j = k
  BY <1>2, <1>3, <1>6, <1>7
<1>9. QueueOK(q)
  BY <1>5, <1>8 DEF QueueOK
<1>10. \A p : Queued(q, p) <=> Queued(queue, p) /\ p # l[i]
  <2>. TAKE p
  <2>1. ASSUME Queued(q, p) PROVE Queued(queue, p) /\ p # l[i]
    <3>1. PICK j \in 1 .. Len(r) : r[j] = p
      BY <1>5, <2>1 DEF Queued
    <3>2. at(j) \in 1 .. Len(l) /\ at(j) # i /\ l[at(j)] = p
      BY <1>2, <1>3, <1>6, <3>1
    <3>. QED
      BY <1>7, <3>2 DEF Queued
  <2>2. ASSUME Queued(queue, p), p # l[i] PROVE Queued(q, p)
    <3>1. PICK k \in 1 .. Len(l) : l[k] = p /\ k # i
      BY <2>2 DEF Queued
    <3>2. PICK j \in 1 .. Len(r) : k = at(j)
      BY <1>6, <3>1
    <3>3. r[j] = p
      BY <1>2, <1>3, <3>1, <3>2
    <3>. QED
      BY <1>5, <3>3 DEF Queued
  <2>. QED
    BY <2>1, <2>2
<1>. QED
  BY <1>5, <1>9, <1>10 DEF q, r

(* The packets after a step in which some left the queue or the hands of   *)
(* kaodv_queue_set_verdict(), and none entered the hook.                   *)
LEMMA LeavingStep ==
    ASSUME KInv, NEW p \in Packets, NEW t, HookOK(t), skb' = [skb EXCEPT ![p] = t],
           skb[p].pc \in {"held", "leaving"}, t.pc \in {"leaving", "freed", "passed"},
           QueueOK(queue'), NlOK', queue'.list # <<>> => queue.list # <<>>,
           \A q : Queued(queue', q) <=> Queued(queue, q) /\ (skb[p].pc = "held" => q # p),
           \A q \in Packets : nl'.entry = q <=> IF q = p THEN t.pc = "leaving" ELSE nl.entry = q,
           UNCHANGED <<expl, peer_pid, socks, closing, conf, module, told, ticks>>
    PROVE  KInv'
<1>1. /\ DOMAIN skb' = Packets /\ skb' = [q \in Packets |-> skb'[q]]
      /\ skb'[p] = t /\ \A q \in Packets \ {p} : skb'[q] = skb[q]
  BY DEF KInv
<1>2. \A q \in Packets : HookOK(skb'[q])
  BY <1>1 DEF KInv
<1>3. ExplOK(expl')
  BY DEF KInv
<1>4. Places'
  <2>1. \A q \in Packets : skb'[q].pc = "held" <=> Queued(queue', q)
    <3>. TAKE q \in Packets
    <3>1. skb[q].pc = "held" <=> Queued(queue, q)
      BY DEF KInv, Places
    <3>2. CASE q = p
      BY <1>1, <3>1, <3>2
    <3>3. CASE q # p
      BY <1>1, <3>1, <3>3
    <3>. QED
      BY <3>2, <3>3
  <2>2. \A q \in Packets : skb'[q].pc = "leaving" <=> nl'.entry = q
    BY <1>1 DEF KInv, Places
  <2>. QED
    BY <2>1, <2>2 DEF Places
<1>5. AllAsked'
  BY <1>1 DEF KInv, AllAsked
<1>6. \A q \in Packets : InHook(q)' => module.phase \in {"hooks", "in", "purged"}
  BY <1>1 DEF KInv, PhaseOK, InHook
<1>7. PhaseOK'
  BY <1>6 DEF KInv, PhaseOK
<1>8. ModuleOK'
  BY DEF KInv, ModuleOK, MtuOK
<1>. QED
  BY <1>1, <1>2, <1>3, <1>4, <1>5, <1>7, <1>8 DEF KInv

(* kaodv_queue_flush() frees every packet of the queue, and touches no     *)
(* other.                                                                  *)
LEMMA FlushQueueOK ==
    ASSUME KInv, kaodv_queue_flush, nl' = nl, told' = told
    PROVE  /\ DOMAIN skb' = Packets /\ skb' = [p \in Packets |-> skb'[p]]
           /\ \A p \in Packets : HookOK(skb'[p]) /\ (InHook(p)' => InHook(p))
           /\ QueueOK(queue') /\ queue'.list = <<>>
           /\ Places' /\ AllAsked'
<1>1. queue \in [list : Seq(Packets), total : Nat, maxlen : Nat] /\ queue.total = Len(queue.list)
      /\ queue.list \in Seq(Packets)
  BY DEF KInv, QueueOK
<1>2. queue' = [list |-> <<>>, total |-> 0, maxlen |-> queue.maxlen]
  <2>1. queue.total - Len(queue.list) = 0
    BY SMTT(30), <1>1
  <2>. QED
    BY <1>1, <2>1 DEF kaodv_queue_flush
<1>3. QueueOK(queue') /\ queue'.list = <<>>
  BY SMTT(30), <1>1, <1>2 DEF QueueOK
<1>4. \A p : p \in ToSet(queue.list) <=> Queued(queue, p)
  BY SMTT(30), <1>1 DEF ToSet, Queued
<1>5. skb' = [p \in Packets |-> IF p \in ToSet(queue.list) THEN SetPc(skb[p], "freed") ELSE skb[p]]
  BY DEF kaodv_queue_flush, SetPc
<1>6. \A p \in Packets : IF skb[p].pc = "held" THEN skb'[p] = SetPc(skb[p], "freed") ELSE skb'[p] = skb[p]
  BY <1>4, <1>5 DEF KInv, Places
<1>7. \A p \in Packets : skb[p].pc = "held" => HookOK(skb'[p]) /\ skb'[p].pc = "freed"
  BY SMTT(30), <1>6, SetPcOK DEF KInv
<1>8. \A p \in Packets : HookOK(skb'[p])
  BY <1>6, <1>7 DEF KInv
<1>9. \A p \in Packets : InHook(p)' => InHook(p)
  BY <1>6, <1>7 DEF InHook
<1>10. \A p \in Packets : ~Queued(queue', p) /\ skb'[p].pc # "held"
  BY SMTT(30), <1>3, <1>6, <1>7 DEF Queued
<1>11. \A p \in Packets : skb'[p].pc = "leaving" <=> nl'.entry = p
  BY SMTT(30), <1>6, <1>7 DEF KInv, Places
<1>12. Places'
  BY <1>10, <1>11 DEF Places
<1>13. AllAsked'
  BY <1>6, <1>7 DEF KInv, AllAsked
<1>. QED
  BY <1>3, <1>5, <1>8, <1>9, <1>12, <1>13

LEMMA VerdictDequeueKeeps ==
    ASSUME KInv, VerdictDequeue
    PROVE  KInv'
<1>. DEFINE i == Waiting(nl.msg.dst)  p == queue.list[i]
<1>1. /\ nl.pc \in {"send", "drop"} /\ nl.entry = NULL /\ nl.msg \in Messages /\ nl.pid = peer_pid
      /\ nl \in [pc : {"idle", "add", "send", "drop", "route"}, pid : Daemons \cup {NULL},
                 msg : Messages \cup {NULL}, entry : Packets \cup {NULL}]
  BY DEF VerdictDequeue, KInv, NlOK
<1>2. QueueOK(queue) /\ queue.list \in Seq(Packets) /\ i \in 0 .. Len(queue.list)
  BY FindWaiting DEF KInv, QueueOK
<1>3. UNCHANGED <<expl, peer_pid, socks, closing, conf, module, told, ticks>>
  BY DEF VerdictDequeue, bounds
<1>4. CASE i = 0
  <2>1. nl' = Idle /\ UNCHANGED <<queue, skb>>
    BY <1>4 DEF VerdictDequeue
  <2>2. nl'.entry = NULL /\ nl'.pc = "idle"
    BY <2>1 DEF Idle
  <2>3. NlOK'
    BY <1>1, <1>3, <2>1, <2>2 DEF KInv, NlOK, Idle
  <2>4. Places'
    BY SMTT(30), <1>1, <2>1, <2>2 DEF KInv, Places, Queued
  <2>5. AllAsked' /\ PhaseOK' /\ ModuleOK'
    BY <1>3, <2>1 DEF KInv, AllAsked, Asked, PhaseOK, InHook, ModuleOK, MtuOK
  <2>. QED
    BY <1>3, <2>1, <2>3, <2>4, <2>5 DEF KInv
<1>5. CASE i # 0
  <2>1. i \in 1 .. Len(queue.list) /\ p \in Packets
    BY SMTT(30), <1>2, <1>5
  <2>2. queue' = queue_dequeue_entry(i)
    BY <1>5 DEF VerdictDequeue
  <2>3. skb[p].pc = "held"
    BY <2>1 DEF KInv, Places, Queued
  <2>. HIDE DEF i, p
  <2>4. /\ QueueOK(queue')
        /\ \A q : Queued(queue', q) <=> Queued(queue, q) /\ q # queue.list[i]
    BY <1>2, <2>1, <2>2, DequeueOK
  <2>5. queue.list # <<>>
    BY SMTT(30), <1>2, <2>1
  <2>6. HookOK(skb[p])
    BY <2>1 DEF KInv
  <2>7. CASE nl.pc = "send"
    <3>1. nl' = [nl EXCEPT !.pc = "route", !.entry = p] /\ skb' = [skb EXCEPT ![p] = SetPc(skb[p], "leaving")]
      BY <1>5, <2>7 DEF VerdictDequeue, SetPc, i, p
    <3>2. HookOK(SetPc(skb[p], "leaving")) /\ SetPc(skb[p], "leaving").pc = "leaving"
      BY <2>3, <2>6, SetPcOK
    <3>3. nl'.pc = "route" /\ nl'.entry = p /\ nl'.pid = nl.pid /\ nl'.msg = nl.msg
          /\ nl' \in [pc : {"idle", "add", "send", "drop", "route"}, pid : Daemons \cup {NULL},
                      msg : Messages \cup {NULL}, entry : Packets \cup {NULL}]
      BY <1>1, <2>1, <3>1
    <3>4. NlOK'
      BY <1>1, <1>3, <2>1, <2>7, <3>3, KaodvAssumption DEF KInv, NlOK
    <3>5. \A q \in Packets : nl'.entry = q <=> IF q = p THEN SetPc(skb[p], "leaving").pc = "leaving" ELSE nl.entry = q
      BY <1>1, <3>2, <3>3, KaodvAssumption
    <3>. QED
      BY <1>3, <2>1, <2>3, <2>4, <2>5, <3>1, <3>2, <3>4, <3>5, LeavingStep DEF p
  <2>8. CASE nl.pc = "drop"
    <3>1. nl' = nl /\ skb' = [skb EXCEPT ![p] = SetPc(skb[p], "freed")]
      BY <1>5, <2>8 DEF VerdictDequeue, SetPc, i, p
    <3>2. HookOK(SetPc(skb[p], "freed")) /\ SetPc(skb[p], "freed").pc = "freed"
      BY <2>3, <2>6, SetPcOK
    <3>3. NlOK'
      BY <1>3, <3>1 DEF KInv, NlOK, Idle
    <3>4. \A q \in Packets : nl'.entry = q <=> IF q = p THEN SetPc(skb[p], "freed").pc = "leaving" ELSE nl.entry = q
      BY <1>1, <2>1, <3>1, <3>2, KaodvAssumption
    <3>. QED
      BY <1>3, <2>1, <2>3, <2>4, <2>5, <3>1, <3>2, <3>3, <3>4, LeavingStep DEF p
  <2>. QED
    BY <1>1, <2>7, <2>8
<1>. QED
  BY <1>4, <1>5

LEMMA VerdictSendKeeps ==
    ASSUME KInv, VerdictSend
    PROVE  KInv'
<1>. DEFINE p == nl.entry  s == skb[p]  e == kaodv_expl_get(nl.msg.dst)
            u == Accept(ip_pkt_encapsulate(s, e.nhop))
<1>1. /\ nl.pc = "route" /\ p \in Packets /\ nl.msg \in Messages /\ nl.pid = peer_pid
      /\ nl \in [pc : {"idle", "add", "send", "drop", "route"}, pid : Daemons \cup {NULL},
                 msg : Messages \cup {NULL}, entry : Packets \cup {NULL}]
  BY DEF VerdictSend, KInv, NlOK
<1>2. s.pc = "leaving" /\ HookOK(s) /\ s \in Skbs
  BY <1>1 DEF KInv, Places, HookOK
<1>3. UNCHANGED <<expl, queue, peer_pid, socks, closing, conf, module, told, ticks>>
  BY DEF VerdictSend, bounds
<1>4. PICK t : skb' = [skb EXCEPT ![p] = t] /\ (t \in {SetPc(s, "freed"), Accept(s)} \/ (e # NULL /\ t = u))
  <2>. DEFINE encap == e # NULL /\ "GW_ENCAP" \in e.flags
              v(fails) == CASE e = NULL \/ (encap /\ fails) -> SetPc(s, "freed")
                            [] encap /\ ~fails -> u
                            [] OTHER -> Accept(s)
  <2>1. PICK fails \in MayFail : skb' = [skb EXCEPT ![p] = v(fails)]
    BY DEF VerdictSend, SetPc
  <2>2. v(fails) \in {SetPc(s, "freed"), Accept(s)} \/ (e # NULL /\ v(fails) = u)
    <3>. HIDE DEF e, u
    <3>. QED
      OBVIOUS
  <2>. HIDE DEF v, u
  <2>. QED
    BY <2>1, <2>2
<1>5. HookOK(t) /\ t.pc \in {"freed", "passed"}
  <2>1. CASE t = SetPc(s, "freed")
    BY <1>2, <2>1, SetPcOK
  <2>2. CASE t = Accept(s)
    BY <1>2, <2>2, AcceptOK
  <2>3. CASE e # NULL /\ t = u
    <3>1. e \in Entries
      BY <2>3, GetOK DEF KInv
    <3>. HIDE DEF e
    <3>2. e.nhop \in Addrs
      BY <3>1 DEF Entries, Addrs
    <3>. QED
      BY <1>2, <2>3, <3>2, EncapsulateOK, AcceptOK
  <2>. QED
    BY <1>4, <2>1, <2>2, <2>3
<1>6. nl' = [nl EXCEPT !.pc = "send", !.entry = NULL]
  BY DEF VerdictSend
<1>7. nl'.pc = "send" /\ nl'.entry = NULL /\ nl'.pid = nl.pid /\ nl'.msg = nl.msg
      /\ nl' \in [pc : {"idle", "add", "send", "drop", "route"}, pid : Daemons \cup {NULL},
                  msg : Messages \cup {NULL}, entry : Packets \cup {NULL}]
  BY <1>1, <1>6
<1>8. NlOK'
  BY <1>1, <1>3, <1>7 DEF KInv, NlOK
<1>9. \A q \in Packets : nl'.entry = q <=> IF q = p THEN t.pc = "leaving" ELSE nl.entry = q
  BY <1>5, <1>7, KaodvAssumption
<1>10. QueueOK(queue') /\ \A q : Queued(queue', q) <=> Queued(queue, q)
  BY <1>3 DEF KInv
<1>. HIDE DEF u, e
<1>. QED
  BY <1>1, <1>2, <1>3, <1>4, <1>5, <1>8, <1>9, <1>10, LeavingStep
=============================================================================
