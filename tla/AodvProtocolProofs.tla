------------------------- MODULE AodvProtocolProofs -------------------------
(***************************************************************************)
(* The invariant of the daemon's state, Good, and the proof that the       *)
(* functions of AodvTables on the routing table and on the packet buffer   *)
(* keep it, and that the handlers of AodvProtocol, which call them, do:    *)
(* one lemma each.  It has two parts: Sound is about the tables, the       *)
(* buffer and the kernel, Steady about the timers of the entries and the   *)
(* order of the packets.                                                   *)
(***************************************************************************)
EXTENDS AodvProtocol, TLAPS

(* How long the provers may take for a step. *)
USE ZenonT(20), SMTT(30)

(* Local repair and the search for unidirectional links are not used       *)
(* together.                                                               *)
Reliable == ~ (unidir_hack /\ local_repair)

(* What has to be known of finite sets for the packet buffer.  These are   *)
(* facts of the library, and BootSound in AodvNodeProofs takes them from   *)
(* there.  Here they go with the buffer, so that no handler's proof has to *)
(* look them up.                                                           *)
Counting ==
    /\ \A S : IsFiniteSet(S) => Cardinality(S) \in Nat
    /\ \A S, T : IsFiniteSet(S) /\ T \subseteq S => IsFiniteSet(T)
    /\ \A S, x : IsFiniteSet(S) => IsFiniteSet(S \cup {x})
    /\ \A S, T, f : IsFiniteSet(S) /\ (\A y \in T : \E x \in S : y = f[x]) => IsFiniteSet(T)

Finite(S) == IsFiniteSet(S) /\ Counting

Typed(h) == h \in Daemon /\ Finite(h.pq)

(* What is true of the entry e for the address d: a neighbour is its own   *)
(* next hop, flags are set only by the options they belong to, what        *)
(* local_repair_timeout() waits for is not in use, and unless both options *)
(* are on, nor is any route under repair, and HELLOs watch over neighbours *)
(* only.                                                                   *)
EntryBasic(d, e) ==
    /\ e.hcnt = 1 => e.next_hop = d
    /\ "UNIDIR" \in e.flags => unidir_hack
    /\ "REPAIR" \in e.flags => local_repair

EntrySound(d, e) ==
    /\ EntryBasic(d, e)
    /\ e.handler = "repair" => e.state = "INVALID"
    /\ Reliable /\ "REPAIR" \in e.flags => e.state = "INVALID"
    /\ Reliable /\ local_repair /\ e.hello_timer => e.hcnt = 1

TableSound(h) == \A d \in Addr : h.rt[d] # NULL => EntrySound(d, h.rt[d])

Routed(h, d) == \E r \in h.fib : r.dst = d

KernelSound(h) == Reliable => \A d \in Addr : Valid(h, d) => Routed(h, d)

VerdictSound(h) == Reliable => \A v \in h.verdict : v.verdict = "ACCEPT" => v.routed

(* The buffer, the seek list and NFQUEUE agree, but for the packets in X,  *)
(* which are not yet in the buffer, and the destinations in D, for which   *)
(* the discovery is about to begin or to end.                              *)
Neighbour(e) == "UNIDIR" \in e.flags /\ e.hcnt = 1

BufferSound(h, X, D) ==
    /\ \A p \in h.pq : p.dest_addr \in D \/ h.seek[p.dest_addr] # NULL
    /\ \A d \in Addr \ D : h.seek[d] # NULL /\ Valid(h, d) => Neighbour(h.rt[d])
    /\ h.nfq = {p.packet_id : p \in h.pq} \cup X
    /\ \A p \in h.pq : p.packet_id \notin X
    /\ \A p, q \in h.pq : p.packet_id = q.packet_id => p = q

Sound(h, X, D) ==
    /\ Typed(h)
    /\ TableSound(h)
    /\ KernelSound(h)
    /\ VerdictSound(h)
    /\ BufferSound(h, X, D)

(* What has to be known of the sizes of finite sets for the places in the  *)
(* list, in the same way.                                                  *)
Sizes ==
    /\ \A S, T : IsFiniteSet(S) /\ T \subseteq S /\ T # S => Cardinality(T) < Cardinality(S)
    /\ \A S, x : IsFiniteSet(S) /\ x \notin S => Cardinality(S \cup {x}) = Cardinality(S) + 1
    /\ \A S, f : IsFiniteSet(S) /\ (\A x, y \in S : f[x] = f[y] => x = y) =>
                   Cardinality({f[x] : x \in S}) = Cardinality(S)
    /\ \A S, f : IsFiniteSet(S) /\ (\A x, y \in S : f[x] = f[y] => x = y)
                   /\ (\A x \in S : f[x] \in 1 .. Cardinality(S)) =>
                   \A i \in 1 .. Cardinality(S) : \E x \in S : f[x] = i

(* The packets of Q stand in line: each has a place of its own and no      *)
(* place is empty.                                                         *)
Lined(Q) ==
    /\ Q \in SUBSET QPkt /\ Finite(Q) /\ Sizes
    /\ \A p \in Q : p.n \in 1 .. Cardinality(Q)
    /\ \A i \in 1 .. Cardinality(Q) : \E p \in Q : p.n = i
    /\ \A p, q \in Q : p.n = q.n \/ p.packet_id = q.packet_id => p = q

(* The line Q has become R: who stays keeps its destination, its order and *)
(* whoever came later for the same destination, and who joins stands       *)
(* behind.                                                                 *)
Flows(Q, R) ==
    Lined(Q) =>
      /\ Lined(R)
      /\ \A x \in R, p \in Q : x.packet_id = p.packet_id => x.dest_addr = p.dest_addr
      /\ \A x, y \in R, p, q \in Q :
            x.packet_id = p.packet_id /\ y.packet_id = q.packet_id /\ x.n < y.n => p.n < q.n
      /\ \A x \in R, p, q \in Q :
            x.packet_id = p.packet_id /\ p.n < q.n /\ p.dest_addr = q.dest_addr =>
               \E y \in R : y.packet_id = q.packet_id
      /\ \E n \in 0 .. Cardinality(R) :
            \A x \in R : x.n <= n <=> \E p \in Q : x.packet_id = p.packet_id

(* Whoever leaves has nobody before it for its destination. *)
MayGo(Q, P) ==
    \A p, q \in Q : p.n < q.n /\ p.dest_addr = q.dest_addr /\ q \in P => p \in P

(* The timers of the entries: an entry that is out of use and whose timer  *)
(* would call route_expire_timeout() is one that rreq_local_repair() keeps *)
(* while it looks for a new route.  The timer of such an entry may end     *)
(* without any effect, so that it has to be marked and sought.  The timers *)
(* of all others run, but where a RREP without a lifetime may have made    *)
(* the entry: these destinations are in Z.endless.  The line of the        *)
(* packets is one that Z.line, the line of some time ago, has become.      *)
Waiting(e) == e.state = "INVALID" /\ e.handler = "expire"

Runs(e) == e.rt_timer \/ Waiting(e)

Ticking(h, d, Z) ==
    h.rt[d] # NULL => /\ Runs(h.rt[d]) \/ d \in Z.endless
                      /\ Waiting(h.rt[d]) => "REPAIR" \in h.rt[d].flags

Steady(h, D, Z) ==
    /\ \A d \in Addr \ D : /\ Ticking(h, d, Z)
                           /\ h.rt[d] # NULL /\ Waiting(h.rt[d]) => h.seek[d] # NULL
    /\ Flows(Z.line, h.pq)

Good(h, X, D, Z) == Sound(h, X, D) /\ Steady(h, D, Z)

(* g differs from h in what Sound does not speak of, or in entries that    *)
(* are as good as before or no longer valid.                               *)
Mild(h, g) ==
    /\ g \in Daemon
    /\ g.seek = h.seek
    /\ g.pq = h.pq
    /\ g.nfq = h.nfq
    /\ g.verdict = h.verdict
    /\ h.buf \in Message => g.buf \in Message
    /\ TableSound(g)
    /\ \A d \in Addr : (h.rt[d] # NULL) <=> (g.rt[d] # NULL)
    /\ \A d \in Addr : Valid(g, d) => /\ Valid(h, d)
                                      /\ Reliable /\ Routed(h, d) => Routed(g, d)
                                      /\ Neighbour(h.rt[d]) => Neighbour(g.rt[d])

(* The entry f does as well as e did, with respect to its timer. *)
Calm(e, f) ==
    /\ Runs(e) => Runs(f)
    /\ Waiting(f) => Waiting(e) /\ ("REPAIR" \in e.flags => "REPAIR" \in f.flags)

(* And so do all the entries. *)
Tame(h, g) ==
    /\ Mild(h, g)
    /\ \A d \in Addr : h.rt[d] # NULL => Calm(h.rt[d], g.rt[d])

(* A mild change keeps what does not speak of timers. *)
LEMMA MildSound ==
    ASSUME NEW h, NEW g, NEW X, NEW D, Sound(h, X, D), Mild(h, g)
    PROVE  Sound(g, X, D)
<1>1. Typed(g)
  BY DEF Sound, Typed, Mild
<1>2. KernelSound(g)
  BY DEF Sound, KernelSound, Mild
<1>3. VerdictSound(g)
  BY DEF Sound, VerdictSound, Mild
<1>4. BufferSound(g, X, D)
  BY DEF Sound, BufferSound, Mild
<1>. QED
  BY <1>1, <1>2, <1>3, <1>4 DEF Sound, Mild

(* A tame change keeps the invariant. *)
LEMMA TameGood ==
    ASSUME NEW h, NEW g, NEW X, NEW D, NEW Z, Good(h, X, D, Z), Tame(h, g)
    PROVE  Good(g, X, D, Z)
<1>1. Sound(g, X, D)
  BY MildSound DEF Good, Tame
<1>2. ASSUME NEW d \in Addr \ D, g.rt[d] # NULL
      PROVE  /\ Runs(g.rt[d]) \/ d \in Z.endless
             /\ Waiting(g.rt[d]) => "REPAIR" \in g.rt[d].flags /\ g.seek[d] # NULL
  <2>1. h.rt[d] # NULL /\ g.seek = h.seek
    BY <1>2 DEF Tame, Mild
  <2>2. Calm(h.rt[d], g.rt[d])
    BY <2>1 DEF Tame
  <2>3. /\ Runs(h.rt[d]) \/ d \in Z.endless
        /\ Waiting(h.rt[d]) => "REPAIR" \in h.rt[d].flags /\ h.seek[d] # NULL
    BY <2>1 DEF Good, Steady, Ticking
  <2>. QED
    BY <2>1, <2>2, <2>3 DEF Calm
<1>3. Flows(Z.line, g.pq)
  BY DEF Good, Steady, Tame, Mild
<1>. QED
  BY <1>1, <1>2, <1>3 DEF Good, Steady, Ticking

(* Steady speaks of the table, the seek list and the buffer only. *)
LEMMA SteadySame ==
    ASSUME NEW h, NEW g, NEW D, NEW Z, Steady(h, D, Z),
           g.rt = h.rt, g.seek = h.seek, g.pq = h.pq
    PROVE  Steady(g, D, Z)
BY DEF Steady, Ticking

(* Where one entry is left out, the others have to be as they were. *)
LEMMA SteadyOthers ==
    ASSUME NEW h, NEW g, NEW d, NEW D, NEW Z, Steady(h, D, Z),
           \A a \in Addr \ {d} : g.rt[a] = h.rt[a] /\ g.seek[a] = h.seek[a],
           g.pq = h.pq
    PROVE  /\ Steady(g, D \cup {d}, Z)
           /\ Ticking(g, d, Z) /\ (g.rt[d] # NULL => ~ Waiting(g.rt[d])) => Steady(g, D, Z)
BY DEF Steady, Ticking

(* Mild changes compose, and tame ones do. *)
LEMMA MildMild ==
    ASSUME NEW f, NEW g, NEW h, Mild(f, g), Mild(g, h)
    PROVE  Mild(f, h)
BY DEF Mild

(* Tame changes one after the other are tame. *)
LEMMA TameTame ==
    ASSUME NEW f, NEW g, NEW h, Tame(f, g), Tame(g, h)
    PROVE  Tame(f, h)
<1>1. Mild(f, h)
  BY MildMild DEF Tame
<1>2. ASSUME NEW d \in Addr, f.rt[d] # NULL PROVE Calm(f.rt[d], h.rt[d])
  <2>1. g.rt[d] # NULL
    BY <1>2 DEF Tame, Mild
  <2>2. Calm(f.rt[d], g.rt[d]) /\ Calm(g.rt[d], h.rt[d])
    BY <1>2, <2>1 DEF Tame
  <2>. QED
    BY <2>2 DEF Calm
<1>. QED
  BY <1>1, <1>2 DEF Tame

(* An entry that keeps its state, flags, handler and timer is calm. *)
LEMMA CalmSame ==
    ASSUME NEW e, NEW f, f.state = e.state, f.handler = e.handler, f.flags = e.flags,
           e.rt_timer => f.rt_timer
    PROVE  Calm(e, f)
BY DEF Calm, Runs, Waiting

(* Doing nothing is tame. *)
LEMMA TameSame ==
    ASSUME NEW h \in Daemon, TableSound(h)
    PROVE  Tame(h, h)
<1>1. Mild(h, h)
  BY DEF Mild
<1>2. \A d \in Addr : Calm(h.rt[d], h.rt[d])
  BY CalmSame
<1>. QED
  BY <1>1, <1>2 DEF Tame

-----------------------------------------------------------------------------
(* What the sequence number and hop count functions return. *)
LEMMA SeqnoType == ASSUME NEW s \in Seqno PROVE seqno_incr(s) \in Seqno
BY SMTT(30), TablesAssumption DEF Seqno, seqno_incr

(* A hop count that fits its eight bits is stored as it is. *)
LEMMA HcntType == ASSUME NEW n \in Hcnt PROVE u_int8(n) = n
BY SMTT(30), TablesAssumption DEF Hcnt, u_int8

(* The hop counts of this host and of a neighbour fit, and differ. *)
LEMMA SmallHcnt == 0 \in Hcnt /\ 1 \in Hcnt /\ 1 # 0
BY SMTT(30), TablesAssumption DEF Hcnt

-----------------------------------------------------------------------------
(* Another entry in the table. *)
LEMMA EntryType ==
    ASSUME NEW h \in Daemon, NEW d \in Addr, NEW e \in Entry \cup {NULL}
    PROVE  LET g == [h EXCEPT !.rt[d] = e]
           IN  /\ g \in Daemon
               /\ g.rt = [h.rt EXCEPT ![d] = e]
               /\ g.rt[d] = e
               /\ \A a \in Addr \ {d} : g.rt[a] = h.rt[a]
               /\ g.seek = h.seek
               /\ g.pq = h.pq
               /\ g.nfq = h.nfq
               /\ g.fib = h.fib
               /\ g.verdict = h.verdict
               /\ g.buf = h.buf
BY DEF Daemon

(* An entry replaced by one that is as good, or no longer in use. *)
LEMMA MildEntry ==
    ASSUME NEW h \in Daemon, TableSound(h), NEW d \in Addr, h.rt[d] # NULL,
           NEW e \in Entry, EntrySound(d, e),
           e.state = "VALID" => Valid(h, d) /\ (Neighbour(h.rt[d]) => Neighbour(e))
    PROVE  Mild(h, [h EXCEPT !.rt[d] = e])
<1>. DEFINE g == [h EXCEPT !.rt[d] = e]
<1>1. /\ g \in Daemon
      /\ g.rt[d] = e
      /\ \A a \in Addr \ {d} : g.rt[a] = h.rt[a]
      /\ g.seek = h.seek
      /\ g.pq = h.pq
      /\ g.nfq = h.nfq
      /\ g.fib = h.fib
      /\ g.verdict = h.verdict
      /\ g.buf = h.buf
  BY SMTT(30), EntryType
<1>2. e # NULL
  BY NullAssumption
<1>. HIDE DEF g
<1>3. TableSound(g)
  BY <1>1 DEF TableSound
<1>4. ASSUME NEW a \in Addr, Valid(g, a)
      PROVE  Valid(h, a) /\ (Routed(h, a) => Routed(g, a)) /\ (Neighbour(h.rt[a]) => Neighbour(g.rt[a]))
  BY <1>1, <1>4 DEF Valid, Routed
<1>. QED
  BY <1>1, <1>2, <1>3, <1>4 DEF Mild, g

(* If its timer does as well, the change is tame. *)
LEMMA TameEntry ==
    ASSUME NEW h \in Daemon, TableSound(h), NEW d \in Addr, h.rt[d] # NULL,
           NEW e \in Entry, EntrySound(d, e), Calm(h.rt[d], e),
           e.state = "VALID" => Valid(h, d) /\ (Neighbour(h.rt[d]) => Neighbour(e))
    PROVE  Tame(h, [h EXCEPT !.rt[d] = e])
<1>. DEFINE g == [h EXCEPT !.rt[d] = e]
<1>1. Mild(h, g)
  BY MildEntry
<1>2. g.rt[d] = e /\ \A a \in Addr \ {d} : g.rt[a] = h.rt[a]
  BY DEF Daemon
<1>. HIDE DEF g
<1>3. \A a \in Addr : h.rt[a] # NULL => Calm(h.rt[a], g.rt[a])
  <2>1. \A x : Calm(x, x)
    BY CalmSame
  <2>. QED
    BY <1>2, <2>1
<1>. QED
  BY <1>1, <1>3 DEF Tame, g

(* A change that leaves the table, the lists and the verdicts alone, and   *)
(* takes no route from the kernel, is tame.                                *)
LEMMA TameRest ==
    ASSUME NEW h, TableSound(h), NEW g \in Daemon,
           g.rt = h.rt, g.seek = h.seek, g.pq = h.pq, g.nfq = h.nfq,
           g.verdict = h.verdict, h.buf \in Message => g.buf \in Message,
           \A d \in Addr : Routed(h, d) => Routed(g, d)
    PROVE  Tame(h, g)
<1>1. Mild(h, g)
  BY DEF Mild, TableSound, Valid
<1>2. \A d \in Addr : Calm(h.rt[d], g.rt[d])
  BY CalmSame
<1>. QED
  BY <1>1, <1>2 DEF Tame

(* rtnetlink: adding a route keeps a route to every destination. *)
LEMMA AddRoute ==
    ASSUME NEW h \in Daemon, TableSound(h),
           NEW d \in Addr, NEW next \in Addr, NEW metric \in Hcnt
    PROVE  LET g == nl_send_add_route_msg(h, d, next, metric)
           IN  /\ Tame(h, g)
               /\ g.rt = h.rt
               /\ [dst |-> d, gw |-> next, metric |-> metric] \in g.fib
<1>. DEFINE g == nl_send_add_route_msg(h, d, next, metric)
            r == [dst |-> d, gw |-> next, metric |-> metric]
            F == {x \in h.fib : ~ (x.dst = d /\ x.metric = metric)} \cup {r}
<1>1. r \in KernelRoute
  BY DEF KernelRoute
<1>2. F \in SUBSET KernelRoute
  BY <1>1 DEF Daemon
<1>3. g = [h EXCEPT !.fib = F]
  BY DEF nl_send_add_route_msg, Daemon
<1>4. r \in F /\ r.dst = d
  OBVIOUS
<1>5. \A x \in h.fib : x.dst # d => x \in F
  OBVIOUS
<1>. HIDE DEF r, F
<1>6. g \in Daemon
  BY <1>2, <1>3 DEF Daemon
<1>7. /\ g.rt = h.rt /\ g.seek = h.seek /\ g.pq = h.pq /\ g.nfq = h.nfq
      /\ g.verdict = h.verdict /\ g.buf = h.buf /\ g.fib = F
  BY <1>3 DEF Daemon
<1>. HIDE DEF g
<1>8. \A a \in Addr : Routed(h, a) => Routed(g, a)
  BY <1>4, <1>5, <1>7 DEF Routed
<1>9. Tame(h, g)
  BY <1>6, <1>7, <1>8, TameRest
<1>. QED
  BY <1>4, <1>7, <1>9 DEF g, r

(* Deleting the route to a destination that is not in use is tame, and so  *)
(* is any other deletion where nothing is claimed of the kernel.           *)
LEMMA DeleteRoute ==
    ASSUME NEW h \in Daemon, TableSound(h), NEW d \in Addr, Reliable => ~ Valid(h, d),
           NEW next, NEW metric
    PROVE  LET g == nl_send_del_route_msg(h, d, next, metric)
           IN  Tame(h, g) /\ g.rt = h.rt
<1>. DEFINE g == nl_send_del_route_msg(h, d, next, metric)
            F == h.fib \ {[dst |-> d, gw |-> next, metric |-> metric]}
<1>1. g = [h EXCEPT !.fib = F]
  BY DEF nl_send_del_route_msg, Daemon
<1>2. F \in SUBSET KernelRoute
  BY DEF Daemon
<1>3. \A x \in h.fib : x.dst # d => x \in F
  BY SMTT(30)
<1>. HIDE DEF F
<1>4. g \in Daemon
  BY <1>1, <1>2 DEF Daemon
<1>5. /\ g.rt = h.rt /\ g.seek = h.seek /\ g.pq = h.pq /\ g.nfq = h.nfq
      /\ g.verdict = h.verdict /\ g.buf = h.buf /\ g.fib = F
  BY <1>1 DEF Daemon
<1>. HIDE DEF g
<1>6. \A a \in Addr : Valid(g, a) => Valid(h, a) /\ (Reliable /\ Routed(h, a) => Routed(g, a))
  BY <1>3, <1>5 DEF Routed, Valid
<1>7. TableSound(g)
  BY <1>5 DEF TableSound
<1>8. Tame(h, g)
  <2>1. Mild(h, g)
    BY <1>4, <1>5, <1>6, <1>7 DEF Mild
  <2>2. \A a \in Addr : Calm(h.rt[a], g.rt[a])
    BY <1>5, CalmSame
  <2>. QED
    BY <2>1, <2>2 DEF Tame
<1>. QED
  BY <1>5, <1>8 DEF g

-----------------------------------------------------------------------------
(* The send buffer and the socket. *)
LEMMA NewMessage ==
    ASSUME NEW h \in Daemon, TableSound(h), NEW m \in Message
    PROVE  LET g == aodv_socket_new_msg(h, m)
           IN  Tame(h, g) /\ g.rt = h.rt /\ g.fib = h.fib /\ g.buf = m
<1>. DEFINE g == aodv_socket_new_msg(h, m)
<1>1. /\ g \in Daemon
      /\ g.rt = h.rt /\ g.seek = h.seek /\ g.pq = h.pq /\ g.nfq = h.nfq
      /\ g.verdict = h.verdict /\ g.buf = m /\ g.fib = h.fib
  BY DEF aodv_socket_new_msg, Daemon
<1>. HIDE DEF g
<1>2. \A a \in Addr : Routed(h, a) => Routed(g, a)
  BY <1>1 DEF Routed
<1>3. Tame(h, g)
  BY <1>1, <1>2, TameRest
<1>. QED
  BY <1>1, <1>3 DEF g

(* aodv_socket_send() of what is in the buffer. *)
LEMMA SendMessage ==
    ASSUME NEW h \in Daemon, TableSound(h), h.buf \in Message,
           NEW dst \in Addr \cup {BROADCAST}, NEW ttl \in Int
    PROVE  LET g == aodv_socket_send(h, dst, ttl)
           IN  Tame(h, g) /\ g.rt = h.rt /\ g.fib = h.fib
<1>. DEFINE g == aodv_socket_send(h, dst, ttl)
            o == [msg |-> h.buf, dst |-> dst, ttl |-> ttl]
            O == h.out \cup {o}
<1>1. O \in SUBSET [msg : Message, dst : Addr \cup {BROADCAST}, ttl : Int]
  BY SMTT(30) DEF Daemon
<1>2. g = h \/ g = [h EXCEPT !.out = O]
  BY DEF aodv_socket_send, Daemon
<1>. HIDE DEF O
<1>3. /\ g \in Daemon
      /\ g.rt = h.rt /\ g.seek = h.seek /\ g.pq = h.pq /\ g.nfq = h.nfq
      /\ g.verdict = h.verdict /\ g.buf = h.buf /\ g.fib = h.fib
  <2>1. CASE g = h
    BY <2>1
  <2>2. CASE g = [h EXCEPT !.out = O]
    <3>. HIDE DEF g
    <3>. QED  BY <1>1, <2>2 DEF Daemon
  <2>. QED  BY <1>2, <2>1, <2>2
<1>. HIDE DEF g
<1>4. \A a \in Addr : Routed(h, a) => Routed(g, a)
  BY <1>3 DEF Routed
<1>5. Tame(h, g)
  BY <1>3, <1>4, TameRest
<1>. QED
  BY <1>3, <1>5 DEF g

(* The two of them, as most of the code has them. *)
LEMMA SendNew ==
    ASSUME NEW h \in Daemon, TableSound(h), NEW m \in Message,
           NEW dst \in Addr \cup {BROADCAST}, NEW ttl \in Int
    PROVE  LET g == aodv_socket_send(aodv_socket_new_msg(h, m), dst, ttl)
           IN  Tame(h, g) /\ g.rt = h.rt /\ g.fib = h.fib
<1>. DEFINE f == aodv_socket_new_msg(h, m)
<1>1. Tame(h, f) /\ f.rt = h.rt /\ f.fib = h.fib /\ f.buf = m
  BY NewMessage
<1>. HIDE DEF f
<1>2. f \in Daemon /\ TableSound(f)
  BY <1>1 DEF Tame, Mild
<1>3. /\ Tame(f, aodv_socket_send(f, dst, ttl))
      /\ aodv_socket_send(f, dst, ttl).rt = f.rt
      /\ aodv_socket_send(f, dst, ttl).fib = f.fib
  BY <1>1, <1>2, SendMessage
<1>4. Tame(h, aodv_socket_send(f, dst, ttl))
  BY <1>1, <1>3, TameTame
<1>. QED
  BY <1>1, <1>3, <1>4 DEF f

(* A RERR about destinations in the table or not. *)
LEMMA ErrorMessage ==
    ASSUME NEW h \in Daemon, NEW n \in BOOLEAN, NEW U \in SUBSET Addr
    PROVE  \E m \in Message : rerr_create(h, n, U) = aodv_socket_new_msg(h, m)
<1>. DEFINE seqno(u) == IF h.rt[u] = NULL THEN 0 ELSE h.rt[u].dest_seqno
            W == {[addr |-> u, seqno |-> seqno(u)] : u \in U}
            m == [type |-> "RERR", n |-> n, udests |-> W]
<1>1. ASSUME NEW u \in U PROVE seqno(u) \in Seqno
  BY SMTT(30), TablesAssumption DEF Daemon, Entry, Seqno
<1>. HIDE DEF seqno
<1>2. W \in SUBSET [addr : Addr, seqno : Seqno]
  BY SMTT(30), <1>1
<1>. HIDE DEF W
<1>3. m \in Message
  BY <1>2 DEF Message, RERR
<1>4. rerr_create(h, n, U) = aodv_socket_new_msg(h, m)
  BY DEF rerr_create, W, seqno
<1>. QED
  BY <1>3, <1>4

(* The node a RERR goes to. *)
LEMMA ErrorDest ==
    ASSUME NEW S \in SUBSET Addr PROVE rerr_dest(S) \in Addr \cup {BROADCAST}
BY DEF rerr_dest

(* rerr_create() and aodv_socket_send(). *)
LEMMA SendError ==
    ASSUME NEW h \in Daemon, TableSound(h), NEW n \in BOOLEAN, NEW U \in SUBSET Addr,
           NEW dst \in Addr \cup {BROADCAST}
    PROVE  LET g == aodv_socket_send(rerr_create(h, n, U), dst, 1)
           IN  Tame(h, g) /\ g.rt = h.rt /\ g.fib = h.fib
<1>1. PICK m \in Message : rerr_create(h, n, U) = aodv_socket_new_msg(h, m)
  BY ErrorMessage
<1>. QED
  BY SMTT(30), <1>1, SendNew

(* The RERR at the end of neighbor_link_break() and rerr_process(). *)
LEMMA SendErrors ==
    ASSUME NEW h \in Daemon, TableSound(h), NEW n \in BOOLEAN, NEW U \in SUBSET Addr,
           NEW prec
    PROVE  LET g == rerr_send(h, n, U, prec)
           IN  Tame(h, g) /\ g.rt = h.rt /\ g.fib = h.fib
<1>. DEFINE sole == {a \in Addr : \E u \in U : U = {u} /\ prec[u] = {a} /\ h.rt[a] # NULL}
<1>1. rerr_dest(sole) \in Addr \cup {BROADCAST}
  BY ErrorDest
<1>2. Tame(h, h)
  BY TameSame
<1>3. rerr_send(h, n, U, prec) =
          IF U = {} THEN h ELSE aodv_socket_send(rerr_create(h, n, U), rerr_dest(sole), 1)
  BY DEF rerr_send
<1>. HIDE DEF sole
<1>. QED
  BY SMTT(30), <1>1, <1>2, <1>3, SendError

-----------------------------------------------------------------------------
(* g differs from h in the table and in the kernel's routes only. *)
SameRest(h, g) ==
    /\ g.seek = h.seek
    /\ g.pq = h.pq
    /\ g.nfq = h.nfq
    /\ g.verdict = h.verdict
    /\ g.buf = h.buf

(* Another table. *)
LEMMA TableType ==
    ASSUME NEW h \in Daemon, NEW R \in [Addr -> Entry \cup {NULL}]
    PROVE  LET g == [h EXCEPT !.rt = R]
           IN  g \in Daemon /\ g.rt = R /\ g.fib = h.fib /\ SameRest(h, g)
BY DEF Daemon, SameRest

(* The precursors of an entry are nothing to the invariant. *)
LEMMA PrecursorsSound ==
    ASSUME NEW d \in Addr, NEW e \in Entry, NEW P \in SUBSET Addr
    PROVE  LET f == [e EXCEPT !.precursors = P]
           IN  /\ f \in Entry
               /\ f.state = e.state
               /\ f.hello_timer = e.hello_timer
               /\ f.rt_timer = e.rt_timer
               /\ EntrySound(d, e) => EntrySound(d, f)
               /\ Neighbour(e) => Neighbour(f)
               /\ Calm(e, f)
BY DEF Entry, EntrySound, EntryBasic, Neighbour, Calm, Runs, Waiting

(* precursor_add() *)
LEMMA AddPrecursor ==
    ASSUME NEW h \in Daemon, TableSound(h), NEW d \in Addr, h.rt[d] # NULL, NEW a \in Addr
    PROVE  Tame(h, precursor_add(h, d, a))
<1>. DEFINE P == h.rt[d].precursors \cup {a}
            e == [h.rt[d] EXCEPT !.precursors = P]
<1>1. h.rt[d] \in Entry
  BY DEF Daemon
<1>2. P \in SUBSET Addr
  BY <1>1 DEF Entry
<1>3. precursor_add(h, d, a) = [h EXCEPT !.rt[d] = e]
  BY DEF precursor_add
<1>. HIDE DEF P
<1>4. EntrySound(d, h.rt[d])
  BY DEF TableSound
<1>5. /\ e \in Entry
      /\ EntrySound(d, e)
      /\ e.state = h.rt[d].state
      /\ Neighbour(h.rt[d]) => Neighbour(e)
      /\ Calm(h.rt[d], e)
  BY <1>1, <1>2, <1>4, PrecursorsSound
<1>. HIDE DEF e
<1>6. Tame(h, [h EXCEPT !.rt[d] = e])
  BY <1>5, TameEntry DEF Valid
<1>. QED
  BY <1>3, <1>6

(* precursor_list_destroy() for some entries. *)
LEMMA DestroyPrecursors ==
    ASSUME NEW h \in Daemon, NEW U \in SUBSET Addr, \A u \in U : h.rt[u] # NULL
    PROVE  LET g == precursor_list_destroy(h, U)
           IN  /\ g \in Daemon
               /\ SameRest(h, g)
               /\ g.fib = h.fib
               /\ TableSound(h) => TableSound(g)
               /\ \A d \in Addr : (h.rt[d] # NULL) <=> (g.rt[d] # NULL)
               /\ \A d \in Addr : h.rt[d] # NULL =>
                     /\ g.rt[d].state = h.rt[d].state
                     /\ g.rt[d].hello_timer = h.rt[d].hello_timer
                     /\ g.rt[d].rt_timer = h.rt[d].rt_timer
                     /\ Neighbour(h.rt[d]) => Neighbour(g.rt[d])
                     /\ Calm(h.rt[d], g.rt[d])
<1>. DEFINE g == precursor_list_destroy(h, U)
            R == [u \in Addr |-> IF u \in U THEN [h.rt[u] EXCEPT !.precursors = {}] ELSE h.rt[u]]
<1>1. ASSUME NEW u \in Addr, h.rt[u] # NULL
      PROVE  /\ h.rt[u] \in Entry
             /\ R[u] \in Entry
             /\ R[u].state = h.rt[u].state
             /\ R[u].hello_timer = h.rt[u].hello_timer
             /\ R[u].rt_timer = h.rt[u].rt_timer
             /\ EntrySound(u, h.rt[u]) => EntrySound(u, R[u])
             /\ Neighbour(h.rt[u]) => Neighbour(R[u])
             /\ Calm(h.rt[u], R[u])
  <2>1. h.rt[u] \in Entry
    BY <1>1 DEF Daemon
  <2>2. {} \in SUBSET Addr
    OBVIOUS
  <2>3. CASE u \in U
    <3>1. R[u] = [h.rt[u] EXCEPT !.precursors = {}]
      BY <2>3
    <3>. HIDE DEF R
    <3>. QED
      BY SMTT(30), <2>1, <2>2, <3>1, PrecursorsSound
  <2>4. CASE u \notin U
    BY <2>1, <2>4, CalmSame
  <2>. QED
    BY <2>3, <2>4
<1>2. ASSUME NEW u \in Addr, h.rt[u] = NULL PROVE R[u] = NULL
  BY <1>2
<1>3. g = [h EXCEPT !.rt = R]
  BY DEF precursor_list_destroy
<1>4. R \in [Addr -> Entry \cup {NULL}]
  BY <1>1, <1>2
<1>. HIDE DEF R
<1>5. g \in Daemon /\ g.rt = R /\ g.fib = h.fib /\ SameRest(h, g)
  BY SMTT(30), <1>3, <1>4, TableType
<1>. HIDE DEF g
<1>6. TableSound(h) => TableSound(g)
  BY <1>1, <1>2, <1>5 DEF TableSound
<1>7. \A u \in Addr : (h.rt[u] # NULL) <=> (g.rt[u] # NULL)
  BY <1>1, <1>2, <1>5, NullAssumption
<1>. QED
  BY <1>1, <1>5, <1>6, <1>7 DEF g

-----------------------------------------------------------------------------
(* rt_table_invalidate() on one entry, which may be marked for repair.     *)
LEMMA Invalidated ==
    ASSUME NEW d \in Addr, NEW e \in Entry, EntryBasic(d, e),
           e.state = "INVALID" => EntrySound(d, e)
    PROVE  LET f == invalidated(e)
           IN  /\ f \in Entry
               /\ f.state = "INVALID"
               /\ f.hello_timer => e.hello_timer
               /\ EntrySound(d, f)
               /\ Calm(e, f)
               /\ e.state = "VALID" => f.rt_timer
<1>. DEFINE f == invalidated(e)
<1>1. CASE e.state = "INVALID"
  <2>1. f = e
    BY <1>1 DEF invalidated
  <2>. HIDE DEF f
  <2>. QED
    BY <1>1, <2>1, CalmSame DEF f
<1>2. CASE e.state # "INVALID"
  <2>1. seqno_incr(e.dest_seqno) \in Seqno
    BY SeqnoType DEF Entry
  <2>2. /\ f \in Entry
        /\ f.state = "INVALID"
        /\ f.hello_timer = FALSE
        /\ f.flags = e.flags
        /\ f.hcnt = e.hcnt
        /\ f.next_hop = e.next_hop
        /\ f.rt_timer = TRUE
        /\ f.handler # "expire"
    BY <1>2, <2>1 DEF invalidated, Entry
  <2>. HIDE DEF f
  <2>3. EntrySound(d, f)
    BY <2>2 DEF EntrySound, EntryBasic
  <2>4. Calm(e, f)
    BY <2>2 DEF Calm, Runs, Waiting
  <2>. QED
    BY <2>2, <2>3, <2>4 DEF f
<1>. QED
  BY <1>1, <1>2

(* rt_table_invalidate() on some entries: the routes that go from the      *)
(* kernel are theirs.                                                      *)
LEMMA Invalidate ==
    ASSUME NEW h \in Daemon, NEW U \in SUBSET Addr,
           \A u \in U : /\ h.rt[u] # NULL
                        /\ EntryBasic(u, h.rt[u])
                        /\ h.rt[u].state = "INVALID" => EntrySound(u, h.rt[u]),
           \A u \in Addr \ U : h.rt[u] # NULL => EntrySound(u, h.rt[u])
    PROVE  LET g == rt_table_invalidate(h, U)
           IN  /\ g \in Daemon
               /\ SameRest(h, g)
               /\ TableSound(g)
               /\ \A u \in U : /\ g.rt[u] \in Entry
                               /\ g.rt[u].state = "INVALID"
                               /\ g.rt[u].hello_timer => h.rt[u].hello_timer
                               /\ Calm(h.rt[u], g.rt[u])
                               /\ h.rt[u].state = "VALID" => g.rt[u].rt_timer
               /\ \A u \in Addr \ U : g.rt[u] = h.rt[u]
               /\ \A r \in h.fib : \/ r.dst \notin U
                                   \/ r.metric # h.rt[r.dst].hcnt
                                   => r \in g.fib
<1>. DEFINE g == rt_table_invalidate(h, U)
            R == [u \in Addr |-> IF u \in U THEN invalidated(h.rt[u]) ELSE h.rt[u]]
            K == {[dst |-> u, gw |-> h.rt[u].next_hop, metric |-> h.rt[u].hcnt]
                      : u \in {a \in U : Valid(h, a)}}
            F == h.fib \ K
<1>1. ASSUME NEW u \in U
      PROVE  /\ R[u] \in Entry
             /\ R[u].state = "INVALID"
             /\ R[u].hello_timer => h.rt[u].hello_timer
             /\ Calm(h.rt[u], R[u])
             /\ h.rt[u].state = "VALID" => R[u].rt_timer
             /\ EntrySound(u, R[u])
  <2>1. h.rt[u] \in Entry
    BY DEF Daemon
  <2>2. R[u] = invalidated(h.rt[u])
    OBVIOUS
  <2>. QED
    BY <2>1, <2>2, Invalidated
<1>2. \A u \in Addr \ U : R[u] = h.rt[u]
  OBVIOUS
<1>3. R \in [Addr -> Entry \cup {NULL}]
  BY <1>1 DEF Daemon
<1>4. F \in SUBSET KernelRoute
  BY DEF Daemon
<1>5. \A r \in K : r.dst \in U /\ r.metric = h.rt[r.dst].hcnt
  BY SMTT(30)
<1>6. g = [h EXCEPT !.rt = R, !.fib = F]
  BY DEF rt_table_invalidate, Daemon
<1>. HIDE DEF R, K
<1>7. g \in Daemon /\ g.rt = R /\ g.fib = F /\ SameRest(h, g)
  <2>. HIDE DEF F, g
  <2>. QED  BY <1>3, <1>4, <1>6 DEF Daemon, SameRest
<1>. HIDE DEF g
<1>8. TableSound(g)
  BY <1>1, <1>2, <1>7 DEF TableSound
<1>9. ASSUME NEW r \in h.fib, r.dst \notin U \/ r.metric # h.rt[r.dst].hcnt
      PROVE  r \in g.fib
  BY <1>5, <1>7, <1>9
<1>. QED
  BY <1>1, <1>2, <1>7, <1>8, <1>9 DEF g

(* neighbor_link_break(), for an entry that is as it should be or one that *)
(* hello_timeout() has just marked for repair.                             *)
LEMMA LinkBreak ==
    ASSUME NEW h \in Daemon, NEW d \in Addr, h.rt[d] # NULL,
           \A u \in Addr \ {d} : h.rt[u] # NULL => EntrySound(u, h.rt[u]),
           EntryBasic(d, h.rt[d]),
           EntrySound(d, h.rt[d]) \/ (h.rt[d].hcnt = 1 /\ Valid(h, d))
    PROVE  LET g == neighbor_link_break(h, d)
           IN  /\ Tame(h, g)
               /\ g.rt[d].hello_timer => h.rt[d].hello_timer
               /\ h.rt[d].hcnt = 1 /\ Valid(h, d) => g.rt[d].rt_timer
               /\ \A r \in h.fib : r.dst = d /\ r.metric # h.rt[d].hcnt => r \in g.fib
<1>. DEFINE repair == "REPAIR" \in h.rt[d].flags
            users  == {u \in Addr \ {d} : Valid(h, u) /\ h.rt[u].next_hop = d}
            near   == {u \in users : repair /\ h.rt[u].hcnt <= MAX_REPAIR_TTL}
            lost   == (users \ near) \cup (IF repair THEN {} ELSE {d})
            R      == [u \in Addr |-> IF u \in near THEN [h.rt[u] EXCEPT !.flags = @ \cup {"REPAIR"}]
                                      ELSE h.rt[u]]
            marked == [h EXCEPT !.rt = R]
            cut    == rt_table_invalidate(marked, users \cup {d})
            broken == precursor_list_destroy(cut, lost)
            told   == {u \in lost : h.rt[u].precursors # {}}
            prec   == [u \in told |-> h.rt[u].precursors]
            g      == rerr_send(broken, FALSE, told, prec)
<1>1. CASE h.rt[d].hcnt # 1
  <2>1. neighbor_link_break(h, d) = h
    BY <1>1 DEF neighbor_link_break
  <2>2. TableSound(h)
    BY <1>1 DEF TableSound
  <2>3. Tame(h, h)
    BY <2>2, TameSame
  <2>. QED
    BY <1>1, <2>1, <2>3
<1>2. CASE h.rt[d].hcnt = 1
  <2>1. neighbor_link_break(h, d) = g
    BY <1>2 DEF neighbor_link_break
  <2>2. /\ users \in SUBSET Addr
        /\ d \notin users
        /\ \A u \in users : Valid(h, u) /\ h.rt[u] # NULL
        /\ near \in SUBSET users
        /\ near # {} => repair
        /\ lost \in SUBSET (users \cup {d})
        /\ told \in SUBSET Addr
    BY DEF Valid
  <2>. HIDE DEF users, near, lost, told
  <2>3. ASSUME NEW u \in near
        PROVE  /\ R[u] \in Entry
               /\ R[u].state = "VALID"
               /\ R[u].hcnt = h.rt[u].hcnt
               /\ R[u].rt_timer = h.rt[u].rt_timer
               /\ EntryBasic(u, R[u])
    <3>1. h.rt[u] \in Entry /\ EntrySound(u, h.rt[u]) /\ h.rt[u].state = "VALID"
      BY <2>2 DEF Daemon, Valid
    <3>2. R[u] = [h.rt[u] EXCEPT !.flags = @ \cup {"REPAIR"}]
      BY <2>2
    <3>3. local_repair
      BY <2>2 DEF EntryBasic
    <3>. HIDE DEF R
    <3>. QED
      BY SMTT(30), <3>1, <3>2, <3>3 DEF Entry, EntrySound, EntryBasic
  <2>4. \A u \in Addr \ near : R[u] = h.rt[u]
    OBVIOUS
  <2>5. R \in [Addr -> Entry \cup {NULL}]
    BY <2>3, <2>4 DEF Daemon
  <2>. HIDE DEF R
  <2>6. marked \in Daemon /\ marked.rt = R /\ marked.fib = h.fib /\ SameRest(h, marked)
    BY <2>5, TableType
  <2>. HIDE DEF marked
  <2>7. ASSUME NEW u \in users \cup {d}
        PROVE  /\ marked.rt[u] # NULL
               /\ EntryBasic(u, marked.rt[u])
               /\ marked.rt[u].state = "INVALID" => EntrySound(u, marked.rt[u])
    <3>1. CASE u \in near
      BY <2>2, <2>3, <2>6, <3>1, NullAssumption
    <3>2. CASE u \notin near
      BY <2>2, <2>4, <2>6, <3>2 DEF EntrySound, Valid
    <3>. QED
      BY <3>1, <3>2
  <2>8. \A u \in Addr \ (users \cup {d}) : marked.rt[u] = h.rt[u] /\ (h.rt[u] # NULL => EntrySound(u, h.rt[u]))
    BY <2>2, <2>4, <2>6
  <2>9. /\ cut \in Daemon
        /\ SameRest(marked, cut)
        /\ TableSound(cut)
        /\ \A u \in users \cup {d} : /\ cut.rt[u] \in Entry
                                     /\ cut.rt[u].state = "INVALID"
                                     /\ cut.rt[u].hello_timer => marked.rt[u].hello_timer
                                     /\ Calm(marked.rt[u], cut.rt[u])
                                     /\ marked.rt[u].state = "VALID" => cut.rt[u].rt_timer
        /\ \A u \in Addr \ (users \cup {d}) : cut.rt[u] = marked.rt[u]
        /\ \A r \in marked.fib : \/ r.dst \notin users \cup {d}
                                 \/ r.metric # marked.rt[r.dst].hcnt
                                 => r \in cut.fib
    <3>1. users \cup {d} \in SUBSET Addr
      BY <2>2
    <3>. QED
      BY <2>6, <2>7, <2>8, <3>1, Invalidate
  <2>. HIDE DEF cut
  <2>10. /\ broken \in Daemon
         /\ SameRest(cut, broken)
         /\ broken.fib = cut.fib
         /\ TableSound(broken)
         /\ \A u \in Addr : (cut.rt[u] # NULL) <=> (broken.rt[u] # NULL)
         /\ \A u \in Addr : cut.rt[u] # NULL =>
               /\ broken.rt[u].state = cut.rt[u].state
               /\ broken.rt[u].hello_timer = cut.rt[u].hello_timer
               /\ broken.rt[u].rt_timer = cut.rt[u].rt_timer
               /\ Neighbour(cut.rt[u]) => Neighbour(broken.rt[u])
               /\ Calm(cut.rt[u], broken.rt[u])
    <3>1. lost \in SUBSET Addr /\ \A u \in lost : cut.rt[u] # NULL
      BY <2>2, <2>9, NullAssumption
    <3>. QED
      BY <2>9, <3>1, DestroyPrecursors
  <2>. HIDE DEF broken
  <2>11. \A u \in Addr : (h.rt[u] # NULL) <=> (broken.rt[u] # NULL)
    BY SMTT(30), <2>2, <2>8, <2>9, <2>10, NullAssumption
  <2>12. ASSUME NEW u \in Addr, Valid(broken, u)
         PROVE  /\ Valid(h, u)
                /\ Routed(h, u) => Routed(broken, u)
                /\ Neighbour(h.rt[u]) => Neighbour(broken.rt[u])
    <3>1. u \notin users \cup {d} /\ cut.rt[u] = h.rt[u] /\ h.rt[u] # NULL
      BY <2>8, <2>9, <2>10, <2>11, <2>12 DEF Valid
    <3>2. \A r \in h.fib : r.dst = u => r \in broken.fib
      BY <2>6, <2>9, <2>10, <3>1, SMTT(30)
    <3>. QED
      BY <2>10, <2>12, <3>1, <3>2 DEF Valid, Routed
  <2>13. Tame(h, broken)
    <3>1. Mild(h, broken)
      BY <2>6, <2>9, <2>10, <2>11, <2>12, SMTT(30) DEF Mild, SameRest
    <3>2. ASSUME NEW u \in Addr, h.rt[u] # NULL PROVE Calm(h.rt[u], broken.rt[u])
      <4>1. cut.rt[u] # NULL /\ Calm(cut.rt[u], broken.rt[u])
        BY <2>10, <2>11, <3>2
      <4>2. CASE u \in near
        <5>1. h.rt[u].state = "VALID" /\ h.rt[u] \in Entry
          BY <2>2, <4>2 DEF Valid, Daemon
        <5>2. cut.rt[u].rt_timer /\ ~ Waiting(marked.rt[u])
          BY <2>2, <2>3, <2>6, <2>9, <4>2 DEF Waiting
        <5>3. ~ Waiting(cut.rt[u])
          BY <2>2, <2>9, <4>2, <5>2 DEF Calm
        <5>. QED
          BY <4>1, <5>2, <5>3 DEF Calm, Runs
      <4>3. CASE u \notin near
        <5>1. marked.rt[u] = h.rt[u]
          BY <2>4, <2>6, <4>3
        <5>2. Calm(h.rt[u], cut.rt[u])
          BY <2>9, <5>1, CalmSame
        <5>. QED
          BY <4>1, <5>2 DEF Calm
      <4>. QED
        BY <4>2, <4>3
    <3>. QED
      BY <3>1, <3>2 DEF Tame
  <2>14. Tame(broken, g) /\ g.rt = broken.rt /\ g.fib = broken.fib
    <3>1. broken \in Daemon /\ TableSound(broken) /\ told \in SUBSET Addr
      BY <2>2, <2>10
    <3>. HIDE DEF prec
    <3>. QED
      BY <3>1, SendErrors
  <2>. HIDE DEF g
  <2>15. Tame(h, g)
    BY <2>13, <2>14, TameTame
  <2>16. g.rt[d].hello_timer => h.rt[d].hello_timer
    BY <2>2, <2>4, <2>6, <2>9, <2>10, <2>14, NullAssumption, SMTT(30)
  <2>17. \A r \in h.fib : r.dst = d /\ r.metric # h.rt[d].hcnt => r \in g.fib
    BY <2>2, <2>4, <2>6, <2>9, <2>10, <2>14, SMTT(30)
  <2>18. Valid(h, d) => g.rt[d].rt_timer
    <3>1. Valid(h, d) => marked.rt[d].state = "VALID"
      BY <2>2, <2>4, <2>6 DEF Valid
    <3>2. cut.rt[d] # NULL
      BY <2>9, NullAssumption
    <3>. QED
      BY <2>9, <2>10, <2>14, <3>1, <3>2
  <2>. QED
    BY <2>1, <2>15, <2>16, <2>17, <2>18
<1>. QED
  BY <1>1, <1>2

(* rt_table_update_timeout(): only timers are set. *)
LEMMA UpdateTimeout ==
    ASSUME NEW h \in Daemon, TableSound(h), NEW d \in Addr
    PROVE  LET g == rt_table_update_timeout(h, d)
           IN  /\ Tame(h, g)
               /\ \A a \in Addr : Valid(h, a) => Valid(g, a)
               /\ \A a \in Addr : h.rt[a] # NULL => /\ g.rt[a].next_hop = h.rt[a].next_hop
                                                    /\ g.rt[a].hcnt = h.rt[a].hcnt
                                                    /\ g.rt[a].flags = h.rt[a].flags
                                                    /\ g.rt[a].state = h.rt[a].state
               /\ g.fib = h.fib
<1>. DEFINE g == rt_table_update_timeout(h, d)
<1>1. CASE h.rt[d] = NULL
  <2>1. g = h
    BY <1>1 DEF rt_table_update_timeout
  <2>2. Tame(h, h)
    BY TameSame
  <2>. QED
    BY <2>1, <2>2
<1>2. CASE h.rt[d] # NULL
  <2>. DEFINE e == [h.rt[d] EXCEPT !.rt_timer = TRUE]
  <2>1. h.rt[d] \in Entry /\ EntrySound(d, h.rt[d])
    BY <1>2 DEF Daemon, TableSound
  <2>2. g = [h EXCEPT !.rt[d] = e]
    BY <1>2 DEF rt_table_update_timeout
  <2>3. /\ e \in Entry
        /\ e.state = h.rt[d].state
        /\ e.next_hop = h.rt[d].next_hop
        /\ e.hcnt = h.rt[d].hcnt
        /\ e.flags = h.rt[d].flags
        /\ e.handler = h.rt[d].handler
        /\ e.hello_timer = h.rt[d].hello_timer
        /\ e.rt_timer
    BY <2>1 DEF Entry
  <2>. HIDE DEF e
  <2>4. EntrySound(d, e) /\ (Neighbour(h.rt[d]) => Neighbour(e)) /\ Calm(h.rt[d], e)
    BY <2>1, <2>3, CalmSame DEF EntrySound, EntryBasic, Neighbour
  <2>. HIDE DEF g
  <2>5. Tame(h, g)
    BY <1>2, <2>2, <2>3, <2>4, TameEntry DEF Valid
  <2>6. g.rt[d] = e /\ (\A a \in Addr \ {d} : g.rt[a] = h.rt[a]) /\ g.fib = h.fib
    BY SMTT(30), <2>2, <2>3, EntryType
  <2>7. \A a \in Addr : h.rt[a] # NULL => /\ g.rt[a].next_hop = h.rt[a].next_hop
                                          /\ g.rt[a].hcnt = h.rt[a].hcnt
                                          /\ g.rt[a].flags = h.rt[a].flags
                                          /\ g.rt[a].state = h.rt[a].state
    BY <2>3, <2>6
  <2>8. \A a \in Addr : Valid(h, a) => Valid(g, a)
    BY <2>5, <2>7 DEF Valid, Tame, Mild
  <2>. QED
    BY <2>5, <2>6, <2>7, <2>8 DEF g
<1>. QED
  BY <1>1, <1>2

-----------------------------------------------------------------------------
(* The packet buffer, and the functions that put an entry into the routing *)
(* table, which may end a discovery and let packets go.                    *)

(* The packets left on the list keep their identifiers and destinations.   *)
LEMMA DetachedPackets ==
    ASSUME NEW Q \in SUBSET QPkt, Finite(Q), NEW P
    PROVE  /\ Detached(Q, P) \in SUBSET QPkt
           /\ Finite(Detached(Q, P))
           /\ \A x \in Detached(Q, P) : \E p \in Q \ P :
                 x.packet_id = p.packet_id /\ x.dest_addr = p.dest_addr
           /\ \A p \in Q \ P : \E x \in Detached(Q, P) : x.packet_id = p.packet_id
           /\ (\A p, q \in Q : p.packet_id = q.packet_id => p = q) =>
                 \A x, y \in Detached(Q, P) : x.packet_id = y.packet_id => x = y
<1>. DEFINE place(p) == Cardinality({q \in Q \ P : q.n <= p.n})
            moved(p) == [p EXCEPT !.n = place(p)]
            D == {moved(p) : p \in Q \ P}
<1>1. D = Detached(Q, P)
  BY DEF Detached
<1>2. ASSUME NEW p \in Q PROVE place(p) \in Int
  <2>1. IsFiniteSet({q \in Q \ P : q.n <= p.n})
    BY DEF Finite, Counting
  <2>. QED
    BY SMTT(30), <2>1 DEF Finite, Counting
<1>. HIDE DEF place
<1>3. ASSUME NEW p \in Q \ P
      PROVE  /\ moved(p) \in QPkt
             /\ moved(p).packet_id = p.packet_id
             /\ moved(p).dest_addr = p.dest_addr
  BY <1>2 DEF QPkt
<1>. HIDE DEF moved
<1>4. Finite(D)
  <2>. DEFINE f == [p \in Q \ P |-> moved(p)]
  <2>1. \A y \in D : \E p \in Q \ P : y = f[p]
    OBVIOUS
  <2>2. IsFiniteSet(Q \ P)
    BY DEF Finite, Counting
  <2>. HIDE DEF D, f
  <2>. QED
    BY <2>1, <2>2 DEF Finite, Counting
<1>5. /\ D \in SUBSET QPkt
      /\ \A x \in D : \E p \in Q \ P : x.packet_id = p.packet_id /\ x.dest_addr = p.dest_addr
      /\ \A p \in Q \ P : \E x \in D : x.packet_id = p.packet_id
      /\ (\A p, q \in Q : p.packet_id = q.packet_id => p = q) =>
            \A x, y \in D : x.packet_id = y.packet_id => x = y
  BY SMTT(30), <1>3
<1>. HIDE DEF D
<1>. QED
  BY <1>1, <1>4, <1>5

(* Nothing happens. *)
LEMMA FlowsSame == ASSUME NEW Q PROVE Flows(Q, Q)
<1>. SUFFICES ASSUME Lined(Q) PROVE Flows(Q, Q)
  BY DEF Flows
<1>1. Cardinality(Q) \in Nat
  BY DEF Lined, Finite, Counting
<1>2. \A x \in Q : x.n <= Cardinality(Q) /\ x.n \in Int
  BY SMTT(30), <1>1 DEF Lined
<1>3. Cardinality(Q) \in 0 .. Cardinality(Q)
  BY <1>1
<1>4. /\ \A x, p \in Q : x.packet_id = p.packet_id => x = p
  BY DEF Lined
<1>5. \A x, y, p, q \in Q :
         x.packet_id = p.packet_id /\ y.packet_id = q.packet_id /\ x.n < y.n => p.n < q.n
  BY <1>4
<1>. QED
  BY <1>2, <1>3, <1>4, <1>5 DEF Flows

(* The places that list_detach() leaves. *)
LEMMA DetachedPlaces ==
    ASSUME NEW Q, Lined(Q), NEW P
    PROVE  LET D == Detached(Q, P)
               place(k) == Cardinality({q \in Q \ P : q.n <= k})
           IN  /\ Lined(D)
               /\ \A x \in D : \E p \in Q \ P : /\ x.packet_id = p.packet_id
                                                /\ x.dest_addr = p.dest_addr
                                                /\ x.n = place(p.n)
               /\ \A j, k \in Int : j <= k => place(j) <= place(k)
               /\ \A j \in Int, p \in Q \ P : j < p.n => place(j) < place(p.n)
               /\ \A k \in Int : place(k) \in 0 .. Cardinality(D)
<1>. DEFINE K == Q \ P
            place(k) == Cardinality({q \in K : q.n <= k})
            moved(p) == [p EXCEPT !.n = place(p.n)]
            D == Detached(Q, P)
<1>1. /\ IsFiniteSet(K) /\ Cardinality(K) \in Nat /\ Counting /\ Sizes
      /\ Q \in SUBSET QPkt /\ Finite(Q)
  BY DEF Lined, Finite, Counting
<1>2. D = {moved(p) : p \in K}
  BY DEF Detached
<1>3. ASSUME NEW k \in Int
      PROVE  /\ IsFiniteSet({q \in K : q.n <= k}) /\ place(k) \in Nat
             /\ place(k) <= Cardinality(K)
  <2>. DEFINE T == {q \in K : q.n <= k}
  <2>1. T \subseteq K
    OBVIOUS
  <2>. HIDE DEF T, K
  <2>2. IsFiniteSet(T) /\ Cardinality(T) \in Nat
    BY <1>1, <2>1 DEF Counting
  <2>3. T # K => Cardinality(T) < Cardinality(K)
    BY <1>1, <2>1 DEF Sizes
  <2>4. Cardinality(T) <= Cardinality(K)
    BY <1>1, <2>2, <2>3
  <2>. QED
    BY <2>2, <2>4 DEF T
<1>4. \A p \in K : p.n \in Int /\ p.packet_id \in PktId /\ p.dest_addr \in Addr
  BY <1>1 DEF QPkt
<1>5. ASSUME NEW j \in Int, NEW k \in Int, j <= k PROVE place(j) <= place(k)
  <2>. DEFINE S == {q \in K : q.n <= j}
              T == {q \in K : q.n <= k}
  <2>1. S \subseteq T
    BY SMTT(30), <1>4, <1>5
  <2>2. IsFiniteSet(T) /\ Cardinality(S) \in Nat /\ Cardinality(T) \in Nat
    BY <1>3
  <2>. HIDE DEF S, T
  <2>3. S # T => Cardinality(S) < Cardinality(T)
    BY <1>1, <2>1, <2>2 DEF Sizes
  <2>4. Cardinality(S) <= Cardinality(T)
    BY <2>2, <2>3
  <2>. QED
    BY <2>4 DEF S, T
<1>6. ASSUME NEW j \in Int, NEW p \in K, j < p.n PROVE place(j) < place(p.n)
  <2>. DEFINE S == {q \in K : q.n <= j}
              T == {q \in K : q.n <= p.n}
  <2>1. S \subseteq T /\ p \in T /\ p \notin S
    BY SMTT(30), <1>4, <1>6
  <2>2. IsFiniteSet(T)
    BY <1>3, <1>4
  <2>. HIDE DEF S, T
  <2>3. Cardinality(S) < Cardinality(T)
    BY <1>1, <2>1, <2>2 DEF Sizes
  <2>. QED
    BY <2>3 DEF S, T
<1>. HIDE DEF place, K
<1>7. ASSUME NEW p \in K PROVE place(p.n) \in 1 .. Cardinality(K)
  <2>0. p.n \in Int /\ p.n - 1 \in Int /\ p.n - 1 < p.n
    BY <1>4
  <2>1. place(p.n - 1) \in Nat /\ place(p.n) \in Nat /\ place(p.n) <= Cardinality(K)
    BY <1>3, <2>0
  <2>2. place(p.n - 1) < place(p.n)
    BY <1>6, <2>0
  <2>. QED
    BY <1>1, <2>1, <2>2
<1>8. ASSUME NEW p \in K, NEW q \in K, place(p.n) = place(q.n) PROVE p = q
  <2>1. place(p.n) \in Int /\ place(q.n) \in Int
    BY <1>7
  <2>2. ~ (p.n < q.n) /\ ~ (q.n < p.n)
    BY SMTT(30), <1>4, <1>6, <1>8, <2>1
  <2>3. p.n = q.n
    BY <1>4, <2>2
  <2>. QED
    BY <2>3 DEF Lined, K
<1>9. ASSUME NEW p \in K
      PROVE  /\ moved(p) \in QPkt
             /\ moved(p).packet_id = p.packet_id
             /\ moved(p).dest_addr = p.dest_addr
             /\ moved(p).n = place(p.n)
  <2>1. place(p.n) \in Int /\ p \in QPkt
    BY <1>1, <1>7 DEF K
  <2>. QED
    BY <2>1 DEF QPkt
<1>. HIDE DEF moved
<1>. DEFINE f == [p \in K |-> moved(p)]
            r == [p \in K |-> place(p.n)]
<1>10. Cardinality(D) = Cardinality(K)
  <2>1. D = {f[p] : p \in K}
    BY <1>2
  <2>2. \A p, q \in K : f[p] = f[q] => p = q
    BY SMTT(30), <1>8, <1>9
  <2>. HIDE DEF f, D
  <2>. QED
    BY SMTT(30), <1>1, <2>1, <2>2 DEF Sizes
<1>11. \A i \in 1 .. Cardinality(K) : \E p \in K : place(p.n) = i
  <2>1. \A p, q \in K : r[p] = r[q] => p = q
    BY <1>8
  <2>2. \A p \in K : r[p] \in 1 .. Cardinality(K) /\ r[p] = place(p.n)
    BY <1>7
  <2>. HIDE DEF r
  <2>3. \A i \in 1 .. Cardinality(K) : \E p \in K : r[p] = i
    BY SMTT(30), <1>1, <2>1, <2>2 DEF Sizes
  <2>. QED
    BY <2>2, <2>3
<1>. HIDE DEF f, r
<1>12. \A x \in D : \E p \in K : x = moved(p)
  BY <1>2
<1>13. \A p \in K : moved(p) \in D
  BY <1>2
<1>14. D \in SUBSET QPkt /\ Finite(D)
  BY <1>1, DetachedPackets
<1>15. \A p, q \in K : p.packet_id = q.packet_id => p = q
  BY DEF Lined, K
<1>. HIDE DEF D
<1>16. Lined(D)
  <2>1. \A x \in D : x.n \in 1 .. Cardinality(D)
    BY <1>7, <1>9, <1>10, <1>12
  <2>2. \A i \in 1 .. Cardinality(D) : \E x \in D : x.n = i
    BY <1>9, <1>10, <1>11, <1>13
  <2>3. \A x, y \in D : x.n = y.n \/ x.packet_id = y.packet_id => x = y
    BY SMTT(30), <1>8, <1>9, <1>12, <1>15
  <2>. QED
    BY <1>1, <1>14, <2>1, <2>2, <2>3 DEF Lined
<1>17. \A x \in D : \E p \in K : /\ x.packet_id = p.packet_id
                                 /\ x.dest_addr = p.dest_addr
                                 /\ x.n = place(p.n)
  BY <1>9, <1>12
<1>18. \A k \in Int : place(k) \in 0 .. Cardinality(D)
  BY <1>1, <1>3, <1>10 DEF place
<1>. QED
  BY <1>5, <1>6, <1>16, <1>17, <1>18 DEF D, K, place

(* list_detach() of packets that may go. *)
LEMMA DetachedFlows ==
    ASSUME NEW Q, NEW R, NEW P, Flows(Q, R), Lined(R) => MayGo(R, P)
    PROVE  Flows(Q, Detached(R, P))
<1>. SUFFICES ASSUME Lined(Q) PROVE Flows(Q, Detached(R, P))
  BY DEF Flows
<1>. DEFINE D == Detached(R, P)
            place(k) == Cardinality({q \in R \ P : q.n <= k})
<1>1. /\ Lined(R)
      /\ \A x \in R, p \in Q : x.packet_id = p.packet_id => x.dest_addr = p.dest_addr
      /\ \A x, y \in R, p, q \in Q :
            x.packet_id = p.packet_id /\ y.packet_id = q.packet_id /\ x.n < y.n => p.n < q.n
      /\ \A x \in R, p, q \in Q :
            x.packet_id = p.packet_id /\ p.n < q.n /\ p.dest_addr = q.dest_addr =>
               \E y \in R : y.packet_id = q.packet_id
  BY DEF Flows
<1>2. PICK n \in 0 .. Cardinality(R) :
            \A x \in R : x.n <= n <=> \E p \in Q : x.packet_id = p.packet_id
  BY DEF Flows
<1>3. /\ Lined(D)
      /\ \A x \in D : \E p \in R \ P : /\ x.packet_id = p.packet_id
                                       /\ x.dest_addr = p.dest_addr
                                       /\ x.n = place(p.n)
      /\ \A j, k \in Int : j <= k => place(j) <= place(k)
      /\ \A j \in Int, p \in R \ P : j < p.n => place(j) < place(p.n)
      /\ \A k \in Int : place(k) \in 0 .. Cardinality(D)
  BY <1>1, DetachedPlaces
<1>4. \A p \in R \ P : \E x \in D : x.packet_id = p.packet_id
  BY SMTT(30), <1>1, DetachedPackets DEF Lined
<1>5. n \in Int /\ (\A p \in R : p.n \in Int) /\ (\A p \in Q : p.n \in Int)
  BY SMTT(30), <1>1, <1>2 DEF Lined, QPkt
<1>6. /\ \A k \in Int : place(k) \in Int
  BY <1>3
<1>. HIDE DEF D, place
<1>7. ASSUME NEW x \in D, NEW y \in D, NEW p \in Q, NEW q \in Q,
             x.packet_id = p.packet_id, y.packet_id = q.packet_id, x.n < y.n
      PROVE  p.n < q.n
  <2>1. PICK r \in R \ P : x.packet_id = r.packet_id /\ x.n = place(r.n)
    BY <1>3
  <2>2. PICK s \in R \ P : y.packet_id = s.packet_id /\ y.n = place(s.n)
    BY <1>3
  <2>3. ~ (s.n <= r.n)
    <3>1. s.n <= r.n => place(s.n) <= place(r.n)
      BY <1>3, <1>5
    <3>2. place(s.n) \in Int /\ place(r.n) \in Int
      BY <1>5, <1>6
    <3>3. place(r.n) < place(s.n)
      BY <1>7, <2>1, <2>2
    <3>4. ~ (place(s.n) <= place(r.n))
      BY <3>2, <3>3
    <3>. QED
      BY <3>1, <3>4
  <2>4. r.n < s.n
    BY <1>5, <2>3
  <2>5. r \in R /\ s \in R /\ r.packet_id = p.packet_id /\ s.packet_id = q.packet_id
    BY <1>7, <2>1, <2>2
  <2>6. \A a, b \in R : a.packet_id = p.packet_id /\ b.packet_id = q.packet_id /\ a.n < b.n => p.n < q.n
    BY <1>1
  <2>. QED
    BY <2>4, <2>5, <2>6
<1>8. ASSUME NEW x \in D, NEW p \in Q, NEW q \in Q,
             x.packet_id = p.packet_id, p.n < q.n, p.dest_addr = q.dest_addr
      PROVE  \E y \in D : y.packet_id = q.packet_id
  <2>1. PICK r \in R \ P : x.packet_id = r.packet_id
    BY <1>3
  <2>2. PICK y \in R : y.packet_id = q.packet_id
    <3>1. r \in R /\ r.packet_id = p.packet_id
      BY <1>8, <2>1
    <3>2. \A a \in R : a.packet_id = p.packet_id => \E y \in R : y.packet_id = q.packet_id
      BY <1>1, <1>8
    <3>. QED
      BY <3>1, <3>2
  <2>3. ~ (y.n < r.n)
    <3>1. y.n < r.n => q.n < p.n
      BY <1>1, <1>8, <2>1, <2>2
    <3>. QED
      BY <1>5, <1>8, <3>1
  <2>4. y.n # r.n
    <3>1. y.n = r.n => p.packet_id = q.packet_id
      BY <1>1, <1>8, <2>1, <2>2 DEF Lined
    <3>2. p.packet_id = q.packet_id => p = q
      BY DEF Lined
    <3>. QED
      BY <1>5, <1>8, <3>1, <3>2
  <2>5. r.n < y.n
    BY <1>5, <2>3, <2>4
  <2>6. r.dest_addr = y.dest_addr
    BY <1>1, <1>8, <2>1, <2>2
  <2>7. y \notin P
    BY <1>1, <2>1, <2>5, <2>6 DEF MayGo
  <2>. QED
    BY <1>4, <2>2, <2>7
<1>9. ASSUME NEW x \in D
      PROVE  x.n <= place(n) <=> \E p \in Q : x.packet_id = p.packet_id
  <2>1. PICK r \in R \ P : x.packet_id = r.packet_id /\ x.n = place(r.n)
    BY <1>3
  <2>2. r.n <= n => place(r.n) <= place(n)
    BY <1>3, <1>5
  <2>3. n < r.n => place(n) < place(r.n)
    BY <1>3, <1>5
  <2>4. place(r.n) <= place(n) <=> r.n <= n
    BY SMTT(30), <1>5, <1>6, <2>2, <2>3
  <2>5. r.n <= n <=> \E p \in Q : r.packet_id = p.packet_id
    BY <1>2
  <2>. QED
    BY <2>1, <2>4, <2>5
<1>10. \A x \in D, p \in Q : x.packet_id = p.packet_id => x.dest_addr = p.dest_addr
  BY <1>1, <1>3
<1>11. place(n) \in 0 .. Cardinality(D)
  BY <1>3, <1>5
<1>. QED
  BY SMTT(30), <1>3, <1>7, <1>8, <1>9, <1>10, <1>11 DEF Flows, D

(* A packet that was not there joins behind the others. *)
LEMMA JoinFlows ==
    ASSUME NEW Q, NEW R, Flows(Q, R), NEW z \in QPkt, z.n = Cardinality(R) + 1,
           \A p \in Q \cup R : p.packet_id # z.packet_id
    PROVE  Flows(Q, R \cup {z})
<1>. SUFFICES ASSUME Lined(Q) PROVE Flows(Q, R \cup {z})
  BY DEF Flows
<1>. DEFINE S == R \cup {z}
            c == Cardinality(R)
<1>1. /\ Lined(R)
      /\ \A x \in R, p \in Q : x.packet_id = p.packet_id => x.dest_addr = p.dest_addr
      /\ \A x, y \in R, p, q \in Q :
            x.packet_id = p.packet_id /\ y.packet_id = q.packet_id /\ x.n < y.n => p.n < q.n
      /\ \A x \in R, p, q \in Q :
            x.packet_id = p.packet_id /\ p.n < q.n /\ p.dest_addr = q.dest_addr =>
               \E y \in R : y.packet_id = q.packet_id
  BY DEF Flows
<1>2. PICK n \in 0 .. Cardinality(R) :
            \A x \in R : x.n <= n <=> \E p \in Q : x.packet_id = p.packet_id
  BY DEF Flows
<1>3. z \notin R /\ IsFiniteSet(R) /\ Counting /\ Sizes /\ R \in SUBSET QPkt
  BY <1>1 DEF Lined, Finite
<1>4. c \in Nat
  BY <1>3 DEF Counting
<1>5. Cardinality(S) = c + 1 /\ Finite(S) /\ S \in SUBSET QPkt
  BY <1>3 DEF Counting, Sizes, Finite
<1>6. \A x \in S : x = z \/ x \in R
  OBVIOUS
<1>7. \A x \in R : x \in S
  OBVIOUS
<1>8. z \in S /\ z.n = c + 1
  OBVIOUS
<1>9. \A x \in R : x.n \in 1 .. c
  BY <1>1 DEF Lined
<1>. HIDE DEF S, c
<1>10. Lined(S)
  <2>1. \A x \in S : x.n \in 1 .. Cardinality(S)
    BY SMTT(30), <1>4, <1>5, <1>6, <1>8, <1>9
  <2>2. ASSUME NEW i \in 1 .. Cardinality(S) PROVE \E x \in S : x.n = i
    <3>1. i = c + 1 \/ i \in 1 .. c
      BY <1>4, <1>5
    <3>2. i \in 1 .. c => \E x \in R : x.n = i
      BY <1>1 DEF Lined, c
    <3>. QED
      BY <1>7, <1>8, <3>1, <3>2
  <2>3. \A x \in R : x.n # z.n
    BY SMTT(30), <1>4, <1>8, <1>9
  <2>4. \A x, y \in R : x.n = y.n \/ x.packet_id = y.packet_id => x = y
    BY <1>1 DEF Lined
  <2>5. \A x, y \in S : x.n = y.n \/ x.packet_id = y.packet_id => x = y
    BY <1>6, <2>3, <2>4
  <2>. QED
    BY <1>3, <1>5, <2>1, <2>2, <2>5 DEF Lined
<1>11. n \in 0 .. Cardinality(S)
  BY SMTT(30), <1>2, <1>4, <1>5 DEF c
<1>12. ~ (z.n <= n)
  BY SMTT(30), <1>2, <1>4, <1>8 DEF c
<1>13. \A x \in S, p \in Q : x.packet_id = p.packet_id => x \in R
  BY <1>6
<1>14. \A x \in S : x.n <= n <=> \E p \in Q : x.packet_id = p.packet_id
  BY <1>2, <1>6, <1>12
<1>15. /\ \A x \in S, p \in Q : x.packet_id = p.packet_id => x.dest_addr = p.dest_addr
       /\ \A x, y \in S, p, q \in Q :
            x.packet_id = p.packet_id /\ y.packet_id = q.packet_id /\ x.n < y.n => p.n < q.n
  BY <1>1, <1>13
<1>16. \A x \in S, p, q \in Q :
            x.packet_id = p.packet_id /\ p.n < q.n /\ p.dest_addr = q.dest_addr =>
               \E y \in S : y.packet_id = q.packet_id
  BY SMTT(30), <1>1, <1>7, <1>13
<1>. QED
  BY <1>10, <1>11, <1>14, <1>15, <1>16 DEF Flows, S

(* Nobody waits. *)
LEMMA EmptyLined == ASSUME Counting, Sizes, IsFiniteSet({}) PROVE Lined({})
<1>1. \A i \in 1 .. Cardinality({}) : \E x \in {} : x.n = i
  <2>. DEFINE S == {}
  <2>1. IsFiniteSet(S) /\ \A x \in S : FALSE
    OBVIOUS
  <2>. HIDE DEF S
  <2>2. \A i \in 1 .. Cardinality(S) : \E x \in S : [y \in S |-> 1][x] = i
    BY <2>1 DEF Sizes
  <2>. QED
    BY <2>1, <2>2 DEF S
<1>. QED
  BY <1>1 DEF Lined, Finite

(* Everybody leaves. *)
LEMMA FlowsEmpty == ASSUME NEW Q PROVE Flows(Q, {})
<1>. SUFFICES ASSUME Lined(Q) PROVE Flows(Q, {})
  BY DEF Flows
<1>1. Counting /\ Sizes /\ IsFiniteSet({})
  BY DEF Lined, Finite, Counting
<1>2. Cardinality({}) \in Nat
  BY <1>1 DEF Counting
<1>3. Lined({})
  BY <1>1, EmptyLined
<1>4. 0 \in 0 .. Cardinality({})
  BY <1>2
<1>. QED
  BY <1>3, <1>4 DEF Flows

(* nfqueue_set_packet_verdict(): packets that are accepted have a route. *)
LEMMA SetVerdict ==
    ASSUME NEW h \in Daemon, NEW v \in {"ACCEPT", "DROP"}, NEW P,
           \A p \in P : p.packet_id \in PktId /\ p.dest_addr \in Addr,
           VerdictSound(h), KernelSound(h),
           v = "ACCEPT" => \A p \in P : Valid(h, p.dest_addr)
    PROVE  LET g == nfqueue_set_packet_verdict(h, P, v)
           IN  /\ g \in Daemon
               /\ VerdictSound(g)
               /\ g.nfq = h.nfq \ {p.packet_id : p \in P}
               /\ g.rt = h.rt
               /\ g.seek = h.seek
               /\ g.pq = h.pq
               /\ g.fib = h.fib
<1>. DEFINE g == nfqueue_set_packet_verdict(h, P, v)
            routed(p) == Valid(h, p.dest_addr) /\ \E r \in h.fib : r.dst = p.dest_addr
            V == {[packet_id |-> p.packet_id, dest_addr |-> p.dest_addr, verdict |-> v,
                   routed |-> routed(p)] : p \in P}
            W == h.verdict \cup V
            N == h.nfq \ {p.packet_id : p \in P}
<1>1. g = [h EXCEPT !.nfq = N, !.verdict = W]
  BY DEF nfqueue_set_packet_verdict, Daemon
<1>2. \A p \in P : routed(p) \in BOOLEAN
  OBVIOUS
<1>3. Reliable /\ v = "ACCEPT" => \A p \in P : routed(p)
  BY DEF KernelSound, Routed
<1>. HIDE DEF routed
<1>4. V \in SUBSET Verdict
  BY SMTT(30), <1>2 DEF Verdict
<1>5. Reliable => \A x \in V : x.verdict = "ACCEPT" => x.routed
  BY SMTT(30), <1>3
<1>. HIDE DEF V
<1>6. W \in SUBSET Verdict /\ N \in SUBSET PktId
  BY <1>4 DEF Daemon
<1>7. Reliable => \A x \in W : x.verdict = "ACCEPT" => x.routed
  BY <1>5 DEF VerdictSound
<1>. HIDE DEF W, N, g
<1>8. /\ g \in Daemon
      /\ g.verdict = W /\ g.nfq = N /\ g.rt = h.rt /\ g.seek = h.seek
      /\ g.pq = h.pq /\ g.fib = h.fib
  BY <1>1, <1>6 DEF Daemon
<1>9. VerdictSound(g)
  BY <1>7, <1>8 DEF VerdictSound
<1>. QED
  BY <1>8, <1>9 DEF g, N

(* Another list in the buffer. *)
LEMMA BufferType ==
    ASSUME NEW h \in Daemon, NEW Q \in SUBSET QPkt, Finite(Q)
    PROVE  LET g == [h EXCEPT !.pq = Q]
           IN  /\ Typed(g) /\ g.pq = Q /\ g.nfq = h.nfq /\ g.verdict = h.verdict
               /\ g.rt = h.rt /\ g.seek = h.seek /\ g.fib = h.fib
BY DEF Daemon, Typed

(* What Sound says of the tables and the kernel depends on these only. *)
LEMMA TablesSame ==
    ASSUME NEW h, NEW g, g.rt = h.rt, g.fib = h.fib
    PROVE  /\ TableSound(h) => TableSound(g)
           /\ KernelSound(h) => KernelSound(g)
           /\ \A d \in Addr : Valid(g, d) <=> Valid(h, d)
BY DEF TableSound, KernelSound, Valid, Routed

(* The packets in P may get the verdict v.  When they have left, the       *)
(* destinations in D and not in E are settled: no packet waits for them    *)
(* and they are not sought.                                                *)
MayLeave(h, P, v, D, E) ==
    /\ P \subseteq h.pq
    /\ v \in {"ACCEPT", "DROP"}
    /\ v = "ACCEPT" => \A p \in P : Valid(h, p.dest_addr)
    /\ \A p \in h.pq \ P : p.dest_addr \in D => p.dest_addr \in E
    /\ \A d \in Addr : d \in D => d \in E \/ h.seek[d] = NULL

(* Packets that leave the buffer leave NFQUEUE. *)
LEMMA Release ==
    ASSUME NEW X, NEW D, NEW E, NEW h, Sound(h, X, D), NEW P, NEW v, MayLeave(h, P, v, D, E)
    PROVE  LET g == release(h, P, v)
           IN  Sound(g, X, E) /\ g.rt = h.rt /\ g.seek = h.seek /\ g.fib = h.fib
<1>. DEFINE f == nfqueue_set_packet_verdict(h, P, v)
            Q == Detached(h.pq, P)
            g == [f EXCEPT !.pq = Q]
<1>1. /\ h \in Daemon /\ Finite(h.pq) /\ h.pq \in SUBSET QPkt
      /\ VerdictSound(h) /\ KernelSound(h) /\ TableSound(h) /\ BufferSound(h, X, D)
  BY DEF Sound, Typed, Daemon
<1>2. \A p \in P : p.packet_id \in PktId /\ p.dest_addr \in Addr
  BY <1>1 DEF QPkt, MayLeave
<1>3. /\ f \in Daemon
      /\ VerdictSound(f)
      /\ f.nfq = h.nfq \ {p.packet_id : p \in P}
      /\ f.rt = h.rt /\ f.seek = h.seek /\ f.pq = h.pq /\ f.fib = h.fib
  BY SMTT(30), <1>1, <1>2, SetVerdict DEF MayLeave
<1>4. /\ Q \in SUBSET QPkt
      /\ Finite(Q)
      /\ \A x \in Q : \E p \in h.pq \ P : x.packet_id = p.packet_id /\ x.dest_addr = p.dest_addr
      /\ \A p \in h.pq \ P : \E x \in Q : x.packet_id = p.packet_id
      /\ (\A p, q \in h.pq : p.packet_id = q.packet_id => p = q) =>
            \A x, y \in Q : x.packet_id = y.packet_id => x = y
  BY <1>1, DetachedPackets
<1>5. release(h, P, v) = g
  BY DEF release
<1>. HIDE DEF f, Q
<1>6. /\ Typed(g) /\ g.pq = Q /\ g.nfq = f.nfq /\ g.verdict = f.verdict
      /\ g.rt = h.rt /\ g.seek = h.seek /\ g.fib = h.fib
  BY <1>3, <1>4, BufferType
<1>. HIDE DEF g
<1>7. TableSound(g) /\ KernelSound(g) /\ \A d \in Addr : Valid(g, d) <=> Valid(h, d)
  BY <1>1, <1>6, TablesSame
<1>8. VerdictSound(g)
  BY <1>3, <1>6 DEF VerdictSound
<1>9. BufferSound(g, X, E)
  <2>1. \A p \in g.pq : p.dest_addr \in E \/ g.seek[p.dest_addr] # NULL
    BY SMTT(30), <1>1, <1>4, <1>6 DEF BufferSound, MayLeave
  <2>2. \A d \in Addr \ E : g.seek[d] # NULL /\ Valid(g, d) => Neighbour(g.rt[d])
    BY <1>1, <1>6, <1>7 DEF BufferSound, MayLeave
  <2>3. \A p, q \in g.pq : p.packet_id = q.packet_id => p = q
    BY <1>1, <1>4, <1>6 DEF BufferSound
  <2>4. \A p \in g.pq : p.packet_id \notin X
    BY SMTT(30), <1>1, <1>4, <1>6 DEF BufferSound
  <2>5. g.nfq = {p.packet_id : p \in g.pq} \cup X
    <3>1. ASSUME NEW i PROVE i \in g.nfq <=> i \in {p.packet_id : p \in g.pq} \cup X
      BY SMTT(30), <1>1, <1>3, <1>4, <1>6 DEF BufferSound, MayLeave
    <3>. QED
      BY <3>1
  <2>. QED
    BY <2>1, <2>2, <2>3, <2>4, <2>5 DEF BufferSound
<1>. QED
  BY <1>5, <1>6, <1>7, <1>8, <1>9 DEF Sound

(* The packets that stay go where packets went that are not in P. *)
LEMMA ReleaseLeaves ==
    ASSUME NEW h, Typed(h), NEW P, NEW v
    PROVE  \A x \in release(h, P, v).pq : \E p \in h.pq \ P : x.dest_addr = p.dest_addr
<1>1. h.pq \in SUBSET QPkt /\ Finite(h.pq)
  BY DEF Typed, Daemon
<1>2. release(h, P, v).pq = Detached(h.pq, P)
  BY DEF release, nfqueue_set_packet_verdict, Typed, Daemon
<1>. QED
  BY SMTT(30), <1>1, <1>2, DetachedPackets

(* The timers, and the order of the packets that stay, are as before. *)
LEMMA ReleaseSteady ==
    ASSUME NEW Z, NEW D, NEW h, Typed(h), Steady(h, D, Z), NEW P, NEW v,
           Lined(h.pq) => MayGo(h.pq, P)
    PROVE  Steady(release(h, P, v), D, Z)
<1>. DEFINE g == release(h, P, v)
<1>1. g.rt = h.rt /\ g.seek = h.seek /\ g.pq = Detached(h.pq, P)
  BY DEF release, nfqueue_set_packet_verdict, Typed, Daemon
<1>. HIDE DEF g
<1>2. Flows(Z.line, g.pq)
  BY <1>1, DetachedFlows DEF Steady
<1>. QED
  BY <1>1, <1>2 DEF Steady, Ticking, g

(* packet_queue_add(): the packet id of the kernel goes to the buffer. *)
LEMMA AddPacket ==
    ASSUME NEW id \in PktId, NEW dest \in Addr, NEW h, Sound(h, {id}, {})
    PROVE  LET g == packet_queue_add(h, id, dest)
           IN  Sound(g, {}, {dest}) /\ g.rt = h.rt /\ g.seek = h.seek /\ g.fib = h.fib
<1>. DEFINE old == IF Cardinality(h.pq) >= MAX_QUEUE_LENGTH THEN {p \in h.pq : p.n = 1} ELSE {}
            f == nfqueue_set_packet_verdict(h, old, "DROP")
            Q == Detached(h.pq, old)
            r == [f EXCEPT !.pq = Q]
            k == Cardinality(Q) + 1
            new == [packet_id |-> id, dest_addr |-> dest, n |-> k]
            g == [f EXCEPT !.pq = Q \cup {new}]
<1>1. old \in SUBSET h.pq
  OBVIOUS
<1>2. packet_queue_add(h, id, dest) = g
  BY DEF packet_queue_add
<1>3. release(h, old, "DROP") = r
  BY DEF release
<1>. HIDE DEF old
<1>4. Sound(r, {id}, {}) /\ r.rt = h.rt /\ r.seek = h.seek /\ r.fib = h.fib
  <2>1. MayLeave(h, old, "DROP", {}, {})
    BY <1>1 DEF MayLeave
  <2>. HIDE DEF r
  <2>. QED
    BY SMTT(30), <1>3, <2>1, Release
<1>5. h \in Daemon /\ Finite(h.pq) /\ h.pq \in SUBSET QPkt
  BY DEF Sound, Typed, Daemon
<1>6. Q \in SUBSET QPkt /\ Finite(Q)
  BY <1>5, DetachedPackets
<1>7. new \in QPkt /\ new.packet_id = id /\ new.dest_addr = dest
  <2>1. k \in Int
    BY SMTT(30), <1>6 DEF Finite, Counting
  <2>. HIDE DEF k
  <2>. QED
    BY <2>1 DEF QPkt
<1>. HIDE DEF new
<1>8. Q \cup {new} \in SUBSET QPkt /\ Finite(Q \cup {new})
  BY <1>6, <1>7 DEF Finite, Counting
<1>9. f \in Daemon
  <2>1. \A p \in old : p.packet_id \in PktId /\ p.dest_addr \in Addr
    BY <1>1, <1>5 DEF QPkt
  <2>. QED
    BY <1>5, <2>1, SetVerdict DEF Sound
<1>. HIDE DEF f, Q
<1>10. /\ Typed(g) /\ g.pq = Q \cup {new} /\ g.nfq = f.nfq /\ g.verdict = f.verdict
       /\ g.rt = f.rt /\ g.seek = f.seek /\ g.fib = f.fib
  BY <1>8, <1>9, BufferType
<1>11. /\ r.pq = Q /\ r.nfq = f.nfq /\ r.verdict = f.verdict
       /\ r.rt = f.rt /\ r.seek = f.seek /\ r.fib = f.fib
  BY <1>6, <1>9, BufferType
<1>. HIDE DEF g, r
<1>12. TableSound(g) /\ KernelSound(g) /\ \A d \in Addr : Valid(g, d) <=> Valid(r, d)
  BY <1>4, <1>10, <1>11, TablesSame DEF Sound
<1>13. VerdictSound(g)
  BY <1>4, <1>10, <1>11 DEF VerdictSound, Sound
<1>14. BufferSound(g, {}, {dest})
  <2>. USE <1>4, <1>7, <1>10, <1>11, <1>12 DEF BufferSound, Sound
  <2>1. \A p \in g.pq : p.dest_addr \in {dest} \/ g.seek[p.dest_addr] # NULL
    BY SMTT(30)
  <2>2. \A d \in Addr \ {dest} : g.seek[d] # NULL /\ Valid(g, d) => Neighbour(g.rt[d])
    BY SMTT(30)
  <2>3. \A p, q \in g.pq : p.packet_id = q.packet_id => p = q
    OBVIOUS
  <2>4. g.nfq = {p.packet_id : p \in g.pq} \cup {}
    BY SMTT(30)
  <2>. QED
    BY <2>1, <2>2, <2>3, <2>4 DEF BufferSound
<1>. QED
  BY <1>2, <1>4, <1>10, <1>11, <1>12, <1>13, <1>14 DEF Sound

(* It joins the line behind the packets that stay. *)
LEMMA AddSteady ==
    ASSUME NEW Z, NEW D, NEW id \in PktId, NEW dest \in Addr, NEW h, Sound(h, {id}, {}),
           Steady(h, D, Z), \A p \in Z.line : p.packet_id # id
    PROVE  Steady(packet_queue_add(h, id, dest), D, Z)
<1>. DEFINE old == IF Cardinality(h.pq) >= MAX_QUEUE_LENGTH THEN {p \in h.pq : p.n = 1} ELSE {}
            Q == Detached(h.pq, old)
            k == Cardinality(Q) + 1
            new == [packet_id |-> id, dest_addr |-> dest, n |-> k]
            g == packet_queue_add(h, id, dest)
<1>1. g.rt = h.rt /\ g.seek = h.seek
  BY AddPacket
<1>2. h \in Daemon /\ Finite(h.pq) /\ h.pq \in SUBSET QPkt /\ \A p \in h.pq : p.packet_id # id
  BY DEF Sound, Typed, Daemon, BufferSound
<1>3. g.pq = Q \cup {new}
  BY <1>2 DEF packet_queue_add, nfqueue_set_packet_verdict, Daemon
<1>4. ASSUME Lined(h.pq) PROVE MayGo(h.pq, old)
  <2>1. \A p \in h.pq : p.n \in Int /\ p.n >= 1
    BY SMTT(30), <1>4 DEF Lined
  <2>2. \A p, q \in h.pq : p.n < q.n => q.n # 1
    BY SMTT(30), <2>1
  <2>3. \A q \in old : q.n = 1
    OBVIOUS
  <2>. HIDE DEF old
  <2>. QED
    BY <2>2, <2>3 DEF MayGo
<1>. HIDE DEF old, g
<1>5. Flows(Z.line, Q)
  BY <1>4, DetachedFlows DEF Steady
<1>6. /\ Finite(Q)
      /\ \A x \in Q : \E p \in h.pq \ old : x.packet_id = p.packet_id
  BY SMTT(30), <1>2, DetachedPackets
<1>. HIDE DEF Q
<1>7. new \in QPkt /\ new.packet_id = id /\ new.n = k
  <2>1. k \in Int
    BY SMTT(30), <1>6 DEF Finite, Counting
  <2>. HIDE DEF k
  <2>. QED
    BY <2>1 DEF QPkt
<1>8. \A p \in Z.line \cup Q : p.packet_id # new.packet_id
  BY <1>2, <1>6, <1>7
<1>. HIDE DEF new
<1>9. Flows(Z.line, g.pq)
  BY SMTT(30), <1>3, <1>5, <1>7, <1>8, JoinFlows
<1>. QED
  BY <1>1, <1>9 DEF Steady, Ticking, g

-----------------------------------------------------------------------------
(* Another entry in the seek list, or none, for a destination that is      *)
(* taken out of what BufferSound speaks of.                                *)
LEMMA SeekType ==
    ASSUME NEW h \in Daemon, NEW d \in Addr, NEW s \in Seek \cup {NULL}
    PROVE  LET g == [h EXCEPT !.seek[d] = s]
           IN  /\ g \in Daemon
               /\ g.seek[d] = s
               /\ \A a \in Addr \ {d} : g.seek[a] = h.seek[a]
               /\ g.rt = h.rt /\ g.pq = h.pq /\ g.nfq = h.nfq
               /\ g.fib = h.fib /\ g.verdict = h.verdict /\ g.buf = h.buf
BY DEF Daemon

(* The entries of h are in g, with the same hop counts. *)
Kept(h, g) ==
    \A a \in Addr : h.rt[a] # NULL => g.rt[a] # NULL /\ g.rt[a].hcnt = h.rt[a].hcnt

(* packet_queue_set_verdict() for the packets to a destination whose       *)
(* discovery is over, with a route or without.                             *)
LEMMA QueueVerdict ==
    ASSUME NEW Z, NEW X, NEW d \in Addr, NEW h, Sound(h, X, {d}), Steady(h, {}, Z),
           h.seek[d] = NULL,
           NEW v \in {"ACCEPT", "DROP"}, v = "ACCEPT" => Valid(h, d)
    PROVE  LET g == packet_queue_set_verdict(h, d, v)
           IN  /\ Good(g, X, {}, Z)
               /\ g.seek = h.seek
               /\ Kept(h, g)
<1>. DEFINE P == {p \in h.pq : p.dest_addr = d}
            f == release(h, P, v)
            next == h.rt[d].next_hop
            x == rt_table_update_timeout(f, d)
            y == rt_table_update_timeout(x, next)
<1>1. Good(f, X, {}, Z) /\ f.rt = h.rt /\ f.seek = h.seek
  <2>1. MayLeave(h, P, v, {d}, {})
    BY DEF MayLeave
  <2>2. MayGo(h.pq, P)
    BY DEF MayGo
  <2>. HIDE DEF P
  <2>3. Sound(f, X, {}) /\ f.rt = h.rt /\ f.seek = h.seek
    BY SMTT(30), <2>1, Release
  <2>4. Steady(f, {}, Z)
    BY <2>2, ReleaseSteady DEF Sound
  <2>. HIDE DEF f
  <2>. QED
    BY <2>3, <2>4 DEF Good
<1>2. CASE v = "DROP"
  <2>1. packet_queue_set_verdict(h, d, v) = f
    BY <1>2 DEF packet_queue_set_verdict
  <2>. HIDE DEF f
  <2>. QED
    BY <1>1, <2>1 DEF Kept
<1>3. CASE v = "ACCEPT"
  <2>1. packet_queue_set_verdict(h, d, v) \in {x, y}
    BY <1>3 DEF packet_queue_set_verdict, Valid
  <2>2. next \in Addr
    BY <1>3 DEF Sound, Typed, Daemon, Entry, Valid
  <2>. HIDE DEF f, next
  <2>3. Tame(f, x) /\ Kept(f, x)
    <3>1. f \in Daemon /\ TableSound(f)
      BY <1>1 DEF Good, Sound, Typed
    <3>2. Tame(f, x) /\ \A a \in Addr : f.rt[a] # NULL => x.rt[a].hcnt = f.rt[a].hcnt
      BY <3>1, UpdateTimeout
    <3>. QED
      BY <3>2 DEF Kept, Tame, Mild
  <2>. HIDE DEF x
  <2>4. Tame(x, y) /\ Kept(x, y)
    <3>1. x \in Daemon /\ TableSound(x)
      BY <2>3 DEF Tame, Mild
    <3>2. Tame(x, y) /\ \A a \in Addr : x.rt[a] # NULL => y.rt[a].hcnt = x.rt[a].hcnt
      BY <2>2, <3>1, UpdateTimeout
    <3>. QED
      BY <3>2 DEF Kept, Tame, Mild
  <2>5. Tame(f, y)
    BY <2>3, <2>4, TameTame
  <2>6. Good(x, X, {}, Z) /\ Good(y, X, {}, Z)
    BY <1>1, <2>3, <2>5, TameGood
  <2>. HIDE DEF y
  <2>7. Kept(h, x) /\ Kept(h, y)
    BY <1>1, <2>3, <2>4 DEF Kept
  <2>. QED
    BY <1>1, <2>1, <2>3, <2>5, <2>6, <2>7 DEF Tame, Mild
<1>. QED
  BY <1>2, <1>3

(* The end of rt_table_insert() and rt_table_update(): the route to d is   *)
(* in place, and if d was sought the packets for it go.                    *)
LEMMA Found ==
    ASSUME NEW Z, NEW X, NEW d \in Addr, NEW h, Sound(h, X, {d}), Steady(h, {}, Z),
           Valid(h, d), \A p \in h.pq : h.seek[p.dest_addr] # NULL
    PROVE  LET g == found(h, d)
           IN  /\ Good(g, X, {}, Z)
               /\ Kept(h, g)
<1>. DEFINE f == [h EXCEPT !.seek[d] = NULL]
<1>1. CASE h.seek[d] = NULL
  <2>1. found(h, d) = h
    BY <1>1 DEF found
  <2>2. BufferSound(h, X, {})
    BY <1>1 DEF Sound, BufferSound
  <2>. QED
    BY <2>1, <2>2 DEF Good, Sound, Kept
<1>2. CASE h.seek[d] # NULL
  <2>1. found(h, d) = packet_queue_set_verdict(f, d, "ACCEPT")
    BY <1>2 DEF found
  <2>2. h \in Daemon
    BY DEF Sound, Typed
  <2>3. /\ f \in Daemon
        /\ f.seek[d] = NULL
        /\ \A a \in Addr \ {d} : f.seek[a] = h.seek[a]
        /\ f.rt = h.rt /\ f.pq = h.pq /\ f.nfq = h.nfq
        /\ f.fib = h.fib /\ f.verdict = h.verdict
    BY SMTT(30), <2>2, SeekType
  <2>. HIDE DEF f
  <2>4. TableSound(f) /\ KernelSound(f) /\ \A a \in Addr : Valid(f, a) <=> Valid(h, a)
    BY <2>3, TablesSame DEF Sound
  <2>5. \A p \in h.pq : p.dest_addr \in Addr
    BY <2>2 DEF Daemon, QPkt
  <2>6. BufferSound(f, X, {d})
    BY <2>3, <2>4, <2>5 DEF Sound, BufferSound
  <2>7. Sound(f, X, {d})
    BY <2>3, <2>4, <2>6 DEF Sound, Typed, VerdictSound
  <2>8. Valid(f, d)
    BY <2>4
  <2>9. Steady(f, {}, Z)
    <3>1. ~ Waiting(f.rt[d]) /\ Ticking(f, d, Z)
      BY <2>3 DEF Valid, Waiting, Steady, Ticking
    <3>. QED
      BY <2>3, <3>1, SteadyOthers
  <2>10. LET g == packet_queue_set_verdict(f, d, "ACCEPT") IN Good(g, X, {}, Z) /\ Kept(f, g)
    BY <2>3, <2>7, <2>8, <2>9, QueueVerdict
  <2>. QED
    BY <2>1, <2>3, <2>10 DEF Kept
<1>. QED
  BY <1>1, <1>2

-----------------------------------------------------------------------------
(* k is h with the entry e for d, which is in the kernel if it is in use. *)
Puts(h, k, d, e) ==
    /\ k \in Daemon
    /\ k.rt[d] = e
    /\ \A a \in Addr \ {d} : k.rt[a] = h.rt[a]
    /\ k.seek = h.seek
    /\ k.pq = h.pq
    /\ k.nfq = h.nfq
    /\ k.verdict = h.verdict
    /\ Reliable /\ e.state = "VALID" => Routed(k, d)
    /\ \A a \in Addr \ {d} : Reliable /\ Valid(h, a) /\ Routed(h, a) => Routed(k, a)

(* An entry e for d is put into the table: d is taken out of what          *)
(* BufferSound speaks of, unless e is not in use.                          *)
LEMMA PutEntry ==
    ASSUME NEW X, NEW h, Sound(h, X, {}), NEW d \in Addr, NEW e, EntrySound(d, e),
           NEW k, Puts(h, k, d, e)
    PROVE  /\ Sound(k, X, {d})
           /\ \A p \in k.pq : k.seek[p.dest_addr] # NULL
           /\ e.state = "INVALID" => Sound(k, X, {})
<1>1. TableSound(k)
  BY DEF TableSound, Sound, Puts
<1>2. KernelSound(k)
  BY DEF KernelSound, Sound, Valid, Puts
<1>3. VerdictSound(k) /\ Typed(k)
  BY DEF VerdictSound, Sound, Typed, Puts
<1>4. BufferSound(k, X, {d})
  BY DEF BufferSound, Sound, Valid, Puts
<1>5. \A p \in k.pq : k.seek[p.dest_addr] # NULL
  BY DEF BufferSound, Sound, Puts
<1>6. e.state = "INVALID" => BufferSound(k, X, {})
  BY <1>4, <1>5 DEF BufferSound, Valid, Puts
<1>. QED
  BY <1>1, <1>2, <1>3, <1>4, <1>5, <1>6 DEF Sound

(* The timer of that entry is to run, unless its lifetime may be zero. *)
LEMMA PutSteady ==
    ASSUME NEW Z, NEW h, Steady(h, {}, Z), NEW d \in Addr, NEW e, NEW k, Puts(h, k, d, e),
           e.rt_timer \/ d \in Z.endless, ~ Waiting(e)
    PROVE  Steady(k, {}, Z)
<1>1. Ticking(k, d, Z) /\ ~ Waiting(k.rt[d])
  BY DEF Puts, Ticking, Runs
<1>. QED
  BY <1>1, SteadyOthers DEF Puts

(* A new entry may be marked as a unidirectional link, where those are     *)
(* looked for.                                                             *)
NewFlags(flags) == flags = {} \/ (flags = {"UNIDIR"} /\ unidir_hack)

(* What is asked of a new entry for d. *)
MayInsert(h, d, next, hops, seqno, life, state, flags, Z) ==
    /\ d \in Addr /\ h.rt[d] = NULL
    /\ next \in Addr /\ hops \in Hcnt /\ (hops = 1 => next = d)
    /\ seqno \in Seqno
    /\ life # 0 \/ d \in Z.endless
    /\ state \in {"VALID", "INVALID"}
    /\ NewFlags(flags)

(* rt_table_insert() *)
LEMMA Insert ==
    ASSUME NEW Z, NEW X, NEW h, Good(h, X, {}, Z),
           NEW d, NEW next, NEW hops, NEW seqno, NEW life, NEW state, NEW flags,
           MayInsert(h, d, next, hops, seqno, life, state, flags, Z)
    PROVE  LET g == rt_table_insert(h, d, next, hops, seqno, life, state, flags)
           IN  /\ Good(g, X, {}, Z)
               /\ Kept(h, g)
               /\ g.rt[d] # NULL /\ g.rt[d].hcnt = hops
<1>. DEFINE repair == state = "INVALID" /\ "REPAIR" \in flags
            timer  == state = "INVALID" \/ life # 0
            handler == IF state = "VALID" THEN "expire" ELSE IF repair THEN "repair" ELSE "delete"
            e == [state |-> state, flags |-> flags, hcnt |-> u_int8(hops), dest_seqno |-> seqno,
                  next_hop |-> next, precursors |-> {}, handler |-> handler, rt_timer |-> timer,
                  ack_timer |-> FALSE, hello_timer |-> FALSE, hello_cnt |-> 0]
            f == [h EXCEPT !.rt[d] = e]
            k == nl_send_add_route_msg(f, d, next, u_int8(hops))
<1>0. /\ d \in Addr /\ h.rt[d] = NULL
      /\ next \in Addr /\ hops \in Hcnt /\ (hops = 1 => next = d)
      /\ seqno \in Seqno
      /\ life # 0 \/ d \in Z.endless
      /\ state \in {"VALID", "INVALID"}
      /\ NewFlags(flags)
  BY DEF MayInsert
<1>. USE <1>0
<1>1. u_int8(hops) = hops
  BY HcntType
<1>2. rt_table_insert(h, d, next, hops, seqno, life, state, flags) =
          IF state = "INVALID" THEN f ELSE found(k, d)
  BY DEF rt_table_insert
<1>3. /\ timer \in BOOLEAN
      /\ handler \in {"expire", "delete", "repair"}
      /\ handler = "repair" => state = "INVALID"
      /\ flags \in SUBSET {"UNIDIR", "REPAIR"}
      /\ "UNIDIR" \in flags => unidir_hack
      /\ "REPAIR" \notin flags
      /\ handler = "expire" <=> state = "VALID"
      /\ timer \/ d \in Z.endless
  BY DEF NewFlags
<1>. HIDE DEF timer, handler
<1>4. /\ e \in Entry /\ e.state = state /\ e.hcnt = hops /\ e # NULL
      /\ e.rt_timer \/ d \in Z.endless
      /\ ~ Waiting(e)
  <2>1. e \in Entry
    BY <1>1, <1>3 DEF Entry
  <2>2. e.rt_timer \/ d \in Z.endless
    BY <1>3
  <2>3. ~ Waiting(e)
    BY <1>3 DEF Waiting
  <2>. QED
    BY <1>1, <2>1, <2>2, <2>3, NullAssumption
<1>5. EntrySound(d, e)
  BY <1>1, <1>3 DEF EntrySound, EntryBasic
<1>. HIDE DEF e
<1>6. h \in Daemon /\ TableSound(h) /\ Sound(h, X, {}) /\ Steady(h, {}, Z)
  BY DEF Good, Sound, Typed
<1>7. /\ f \in Daemon /\ f.rt[d] = e /\ \A a \in Addr \ {d} : f.rt[a] = h.rt[a]
      /\ f.seek = h.seek /\ f.pq = h.pq /\ f.nfq = h.nfq /\ f.fib = h.fib /\ f.verdict = h.verdict
  BY SMTT(30), <1>4, <1>6, EntryType
<1>. HIDE DEF f
<1>8. Kept(h, f)
  BY <1>7 DEF Kept
<1>9. CASE state = "INVALID"
  <2>1. \A a \in Addr \ {d} : Routed(h, a) => Routed(f, a)
    BY <1>7 DEF Routed
  <2>2. Puts(h, f, d, e)
    BY <1>4, <1>7, <1>9, <2>1 DEF Puts
  <2>3. Good(f, X, {}, Z)
    <3>1. Sound(f, X, {})
      BY <1>4, <1>5, <1>6, <1>9, <2>2, PutEntry
    <3>2. Steady(f, {}, Z)
      BY <1>4, <1>6, <2>2, PutSteady
    <3>. QED
      BY <3>1, <3>2 DEF Good
  <2>. QED
    BY <1>2, <1>4, <1>7, <1>8, <1>9, <2>3
<1>10. CASE state = "VALID"
  <2>1. TableSound(f)
    BY <1>5, <1>6, <1>7 DEF TableSound
  <2>2. /\ Tame(f, k)
        /\ k.rt = f.rt
        /\ [dst |-> d, gw |-> next, metric |-> hops] \in k.fib
    <3>1. k = nl_send_add_route_msg(f, d, next, hops)
      BY <1>1
    <3>. HIDE DEF k
    <3>. QED
      BY <1>7, <2>1, <3>1, AddRoute
  <2>. HIDE DEF k
  <2>3. Routed(k, d)
    BY <2>2 DEF Routed
  <2>4. \A a \in Addr \ {d} : Reliable /\ Valid(h, a) /\ Routed(h, a) => Routed(k, a)
    BY SMTT(30), <1>7, <2>2 DEF Tame, Mild, Routed, Valid
  <2>5. /\ k \in Daemon
        /\ k.seek = h.seek /\ k.pq = h.pq /\ k.nfq = h.nfq /\ k.verdict = h.verdict
    BY <1>7, <2>2 DEF Tame, Mild
  <2>6. Sound(k, X, {d}) /\ Steady(k, {}, Z) /\ \A p \in k.pq : k.seek[p.dest_addr] # NULL
    <3>1. k.rt[d] = e /\ \A a \in Addr \ {d} : k.rt[a] = h.rt[a]
      BY <1>7, <2>2
    <3>2. Puts(h, k, d, e)
      BY <2>3, <2>4, <2>5, <3>1 DEF Puts
    <3>3. Steady(k, {}, Z)
      BY <1>4, <1>6, <3>2, PutSteady
    <3>. QED
      BY <1>5, <1>6, <3>2, <3>3, PutEntry
  <2>7. Valid(k, d)
    BY <1>4, <1>7, <1>10, <2>2 DEF Valid
  <2>8. Good(found(k, d), X, {}, Z) /\ Kept(k, found(k, d))
    BY <2>6, <2>7, Found
  <2>9. rt_table_insert(h, d, next, hops, seqno, life, state, flags) = found(k, d)
    BY <1>2, <1>10
  <2>. DEFINE g == found(k, d)
  <2>. HIDE DEF g
  <2>10. Kept(h, g) /\ g.rt[d] # NULL /\ g.rt[d].hcnt = hops
    BY <1>4, <1>7, <1>8, <2>2, <2>8, SMTT(30) DEF Kept, g
  <2>. QED
    BY <2>8, <2>9, <2>10 DEF g
<1>. QED
  BY <1>9, <1>10


(* The entry rt_table_update() leaves when it starts from e. *)
LEMMA Updated ==
    ASSUME NEW d \in Addr, NEW e \in Entry, EntryBasic(d, e), NEW next \in Addr,
           NEW hops \in Hcnt, hops = 1 => next = d, NEW seqno \in Seqno,
           NEW flags \in SUBSET {"UNIDIR", "REPAIR"},
           "UNIDIR" \in flags => unidir_hack, "REPAIR" \in flags => local_repair,
           Reliable => "REPAIR" \notin flags,
           Reliable /\ local_repair /\ e.hello_timer => hops = 1
    PROVE  LET f == updated(e, next, hops, seqno, flags)
           IN  f \in Entry /\ EntrySound(d, f) /\ f.state = "VALID" /\ f.hcnt = hops /\ f.rt_timer
<1>. DEFINE f == updated(e, next, hops, seqno, flags)
<1>1. /\ f \in Entry /\ f.state = "VALID" /\ f.hcnt = hops /\ f.flags = flags
      /\ f.next_hop = next /\ f.hello_timer = e.hello_timer /\ f.handler = "expire"
      /\ f.rt_timer
  BY DEF updated, Entry
<1>. HIDE DEF f
<1>2. EntrySound(d, f)
  BY <1>1 DEF EntrySound, EntryBasic
<1>. QED
  BY <1>1, <1>2 DEF f

(* rt_table_update(): the new route is in the kernel before the link to a  *)
(* former neighbour is broken, and outlives that because the two routes    *)
(* differ in their metric.                                                 *)
LEMMA Update ==
    ASSUME NEW Z, NEW X, NEW h, Good(h, X, {}, Z), NEW d \in Addr, h.rt[d] # NULL,
           NEW next \in Addr, NEW hops \in Hcnt, hops # 0, hops = 1 <=> next = d,
           NEW seqno \in Seqno,
           NEW flags \in SUBSET (h.rt[d].flags \cup {"UNIDIR"}),
           "UNIDIR" \in flags => unidir_hack
    PROVE  LET g == rt_table_update(h, d, next, hops, seqno, flags)
           IN  /\ Good(g, X, {}, Z)
               /\ \A a \in Addr : h.rt[a] # NULL => g.rt[a] # NULL
               /\ g.rt[d].hcnt = hops
<1>. DEFINE e      == h.rt[d]
            revive == e.state = "INVALID"
            r      == [dst |-> d, gw |-> next, metric |-> hops]
            added  == IF revive \/ e.next_hop # next
                      THEN nl_send_add_route_msg(h, d, next, u_int8(hops)) ELSE h
            mute   == [added EXCEPT !.rt[d] = unheard(@)]
            linked == IF u_int8(hops) > 1 /\ e.hcnt = 1 THEN neighbor_link_break(mute, d) ELSE added
            kept   == IF revive /\ "REPAIR" \in e.flags THEN flags \ {"REPAIR"} ELSE flags
            new    == updated(linked.rt[d], next, hops, seqno, kept)
            k      == [linked EXCEPT !.rt[d] = new]
<1>1. u_int8(hops) = hops /\ hops \in Nat
  BY SMTT(30), HcntType, TablesAssumption DEF Hcnt
<1>2. h \in Daemon /\ TableSound(h) /\ e \in Entry /\ EntrySound(d, e)
  BY DEF Good, Sound, Typed, Daemon, TableSound
<1>3. rt_table_update(h, d, next, hops, seqno, flags) = found(k, d)
  BY <1>1 DEF rt_table_update
<1>. HIDE DEF added, mute, linked, kept, new, k
<1>4. /\ Tame(h, added)
      /\ added.rt = h.rt
      /\ revive \/ e.next_hop # next => r \in added.fib
  <2>1. CASE revive \/ e.next_hop # next
    <3>1. added = nl_send_add_route_msg(h, d, next, hops)
      BY <1>1, <2>1 DEF added
    <3>. QED
      BY <1>2, <3>1, AddRoute
  <2>2. CASE ~ (revive \/ e.next_hop # next)
    <3>1. added = h
      BY <2>2 DEF added
    <3>. QED
      BY <1>2, <2>2, <3>1, TameSame
  <2>. QED
    BY <2>1, <2>2
<1>5. /\ Tame(h, linked)
      /\ Reliable /\ local_repair /\ linked.rt[d].hello_timer => hops = 1
      /\ Reliable => Routed(linked, d)
  <2>1. CASE hops > 1 /\ e.hcnt = 1
    <3>1. e.next_hop # next
      BY SMTT(30), <1>2, <2>1 DEF EntrySound, EntryBasic
    <3>2. added \in Daemon /\ TableSound(added) /\ added.rt[d] = e
      BY <1>4 DEF Tame, Mild
    <3>. DEFINE x == unheard(e)
    <3>3. /\ x \in Entry /\ x.state = e.state /\ x.flags = e.flags /\ x.hcnt = e.hcnt
          /\ x.next_hop = e.next_hop /\ x.hello_timer = FALSE /\ x.handler = e.handler
          /\ x.rt_timer = e.rt_timer
      BY <1>2 DEF unheard, Entry
    <3>4. mute = [added EXCEPT !.rt[d] = x]
      BY <3>2 DEF mute
    <3>. HIDE DEF x
    <3>5. EntrySound(d, x) /\ (Neighbour(e) => Neighbour(x)) /\ Calm(e, x)
      BY <1>2, <3>3, CalmSame DEF EntrySound, EntryBasic, Neighbour
    <3>6. Tame(added, mute)
      BY <3>2, <3>3, <3>4, <3>5, TameEntry DEF Valid
    <3>7. mute.rt[d] = x /\ mute.fib = added.fib /\ mute \in Daemon /\ TableSound(mute)
      BY SMTT(30), <3>2, <3>3, <3>4, <3>6, EntryType DEF Tame, Mild
    <3>8. /\ mute.rt[d] # NULL
          /\ \A u \in Addr \ {d} : mute.rt[u] # NULL => EntrySound(u, mute.rt[u])
          /\ EntryBasic(d, mute.rt[d]) /\ EntrySound(d, mute.rt[d])
      BY <3>3, <3>5, <3>7, NullAssumption DEF TableSound, EntrySound
    <3>. DEFINE cut == neighbor_link_break(mute, d)
    <3>9. /\ Tame(mute, cut)
          /\ cut.rt[d].hello_timer => mute.rt[d].hello_timer
          /\ \A y \in mute.fib : y.dst = d /\ y.metric # mute.rt[d].hcnt => y \in cut.fib
      BY <3>7, <3>8, LinkBreak
    <3>10. linked = cut
      BY <1>1, <2>1 DEF linked
    <3>. HIDE DEF cut
    <3>11. r \in cut.fib
      <4>1. r \in mute.fib
        BY <1>4, <3>1, <3>7
      <4>. QED
        BY SMTT(30), <2>1, <3>3, <3>7, <3>9, <4>1
    <3>12. Tame(h, linked)
      BY <1>4, <3>6, <3>9, <3>10, TameTame
    <3>13. Routed(linked, d)
      BY <3>10, <3>11 DEF Routed
    <3>. QED
      BY <3>3, <3>7, <3>9, <3>10, <3>12, <3>13
  <2>2. CASE ~ (hops > 1 /\ e.hcnt = 1)
    <3>1. linked = added
      BY <1>1, <2>2 DEF linked
    <3>2. Reliable /\ local_repair /\ linked.rt[d].hello_timer => hops = 1
      BY <1>1, <1>2, <1>4, <2>2, <3>1, SMTT(30) DEF EntrySound
    <3>3. CASE revive \/ e.next_hop # next
      BY <1>4, <3>1, <3>2, <3>3 DEF Routed
    <3>4. CASE ~ (revive \/ e.next_hop # next)
      <4>1. Valid(h, d) /\ Valid(added, d)
        BY <1>2, <1>4, <3>4 DEF Valid, Entry
      <4>. QED
        BY <1>4, <3>1, <3>2, <4>1 DEF Good, Sound, KernelSound, Tame, Mild
    <3>. QED
      BY <3>3, <3>4
  <2>. QED
    BY <2>1, <2>2
<1>6. /\ kept \in SUBSET {"UNIDIR", "REPAIR"}
      /\ "UNIDIR" \in kept => unidir_hack
      /\ "REPAIR" \in kept => local_repair
      /\ Reliable => "REPAIR" \notin kept
  BY <1>2 DEF kept, Entry, EntrySound, EntryBasic
<1>7. linked \in Daemon /\ linked.rt[d] \in Entry /\ EntryBasic(d, linked.rt[d])
  BY <1>5 DEF Tame, Mild, Daemon, TableSound, EntrySound
<1>8. /\ new \in Entry /\ EntrySound(d, new) /\ new.state = "VALID" /\ new.hcnt = hops
      /\ new # NULL /\ new.rt_timer /\ ~ Waiting(new)
  <2>1. /\ new \in Entry /\ EntrySound(d, new) /\ new.state = "VALID" /\ new.hcnt = hops
        /\ new.rt_timer
    BY <1>5, <1>6, <1>7, Updated DEF new
  <2>2. ~ Waiting(new)
    BY <2>1 DEF Waiting
  <2>. QED
    BY <2>1, <2>2, NullAssumption
<1>9. /\ k \in Daemon /\ k.rt[d] = new /\ \A a \in Addr \ {d} : k.rt[a] = linked.rt[a]
      /\ k.seek = linked.seek /\ k.pq = linked.pq /\ k.nfq = linked.nfq
      /\ k.fib = linked.fib /\ k.verdict = linked.verdict
  BY SMTT(30), <1>7, <1>8, EntryType DEF k
<1>10. Sound(linked, X, {}) /\ Steady(linked, {}, Z)
  BY <1>5, TameGood DEF Good
<1>11. Puts(linked, k, d, new)
  BY <1>5, <1>9 DEF Puts, Routed
<1>12. Sound(k, X, {d}) /\ Steady(k, {}, Z) /\ \A p \in k.pq : k.seek[p.dest_addr] # NULL
  BY <1>8, <1>10, <1>11, PutEntry, PutSteady
<1>13. Valid(k, d)
  BY <1>8, <1>9, SMTT(30) DEF Valid
<1>14. Good(found(k, d), X, {}, Z) /\ Kept(k, found(k, d))
  BY <1>12, <1>13, Found
<1>15. \A a \in Addr : h.rt[a] # NULL => k.rt[a] # NULL
  BY <1>5, <1>8, <1>9 DEF Tame, Mild
<1>. QED
  BY <1>3, <1>8, <1>9, <1>14, <1>15 DEF Kept

-----------------------------------------------------------------------------

(* The handlers of AodvProtocol. *)

(* What the lemmas ask of the state, from the invariant. *)
LEMMA SoundBasics ==
    ASSUME NEW h, NEW Z, NEW X, NEW D, Good(h, X, D, Z)
    PROVE  h \in Daemon /\ TableSound(h) /\ Sound(h, X, D) /\ Steady(h, D, Z)
BY DEF Good, Sound, Typed

(* What a tame change leaves, for the next one. *)
LEMMA TameBasics ==
    ASSUME NEW h, NEW g, Tame(h, g)
    PROVE  /\ g \in Daemon
           /\ TableSound(g)
           /\ \A d \in Addr : (h.rt[d] # NULL) <=> (g.rt[d] # NULL)
           /\ h.buf \in Message => g.buf \in Message
BY DEF Tame, Mild

(* An entry of the table. *)
LEMMA EntryOf ==
    ASSUME NEW h \in Daemon, TableSound(h), NEW d \in Addr, h.rt[d] # NULL
    PROVE  /\ h.rt[d] \in Entry
           /\ EntrySound(d, h.rt[d])
           /\ h.rt[d].next_hop \in Addr
           /\ h.rt[d].hcnt \in Hcnt
           /\ h.rt[d].dest_seqno \in Seqno
BY DEF Daemon, TableSound, Entry

(* Zero is a sequence number. *)
LEMMA ZeroSeqno == 0 \in Seqno
BY SMTT(30), TablesAssumption DEF Seqno

(* A new entry may have no flags. *)
LEMMA NoFlags == NewFlags({})
BY DEF NewFlags

(* rt_table_delete() *)
LEMMA Delete ==
    ASSUME NEW Z, NEW X, NEW d \in Addr, NEW h, Sound(h, X, {}), Steady(h, {d}, Z)
    PROVE  Good(rt_table_delete(h, d), X, {}, Z)
<1>. DEFINE F == IF Valid(h, d) THEN nl_send_del_route_msg(h, d, h.rt[d].next_hop, h.rt[d].hcnt) ELSE h
            g == [F EXCEPT !.rt[d] = NULL]
<1>1. rt_table_delete(h, d) = g
  BY DEF rt_table_delete
<1>2. h \in Daemon
  BY DEF Sound, Typed
<1>3. /\ F \in Daemon
      /\ F.rt = h.rt /\ F.seek = h.seek /\ F.pq = h.pq /\ F.nfq = h.nfq /\ F.verdict = h.verdict
      /\ \A r \in h.fib : r.dst # d => r \in F.fib
  BY <1>2, SMTT(30) DEF nl_send_del_route_msg, Daemon
<1>. HIDE DEF F
<1>4. /\ g \in Daemon /\ g.rt[d] = NULL /\ \A a \in Addr \ {d} : g.rt[a] = F.rt[a]
      /\ g.seek = F.seek /\ g.pq = F.pq /\ g.nfq = F.nfq /\ g.fib = F.fib /\ g.verdict = F.verdict
  BY SMTT(30), <1>3, EntryType
<1>. HIDE DEF g
<1>5. \A a \in Addr : Valid(g, a) => a # d /\ Valid(h, a) /\ g.rt[a] = h.rt[a]
  BY SMTT(30), <1>3, <1>4 DEF Valid
<1>6. TableSound(g)
  BY <1>3, <1>4 DEF TableSound, Sound
<1>7. KernelSound(g)
  BY <1>3, <1>4, <1>5 DEF KernelSound, Sound, Routed
<1>8. VerdictSound(g) /\ Typed(g)
  BY <1>3, <1>4 DEF VerdictSound, Sound, Typed
<1>9. BufferSound(g, X, {})
  BY SMTT(30), <1>3, <1>4, <1>5 DEF BufferSound, Sound
<1>10. Steady(g, {}, Z)
  BY <1>3, <1>4 DEF Steady, Ticking
<1>. QED
  BY <1>1, <1>6, <1>7, <1>8, <1>9, <1>10 DEF Good, Sound

(* neighbor_add() *)
LEMMA NeighborAdd ==
    ASSUME NEW Z, NEW X, NEW h, Good(h, X, {}, Z), NEW src \in Addr
    PROVE  Good(neighbor_add(h, src), X, {}, Z)
<1>1. CASE h.rt[src] = NULL
  <2>1. MayInsert(h, src, src, 1, 0, 1, "VALID", {}, Z)
    BY <1>1, SmallHcnt, ZeroSeqno, NoFlags DEF MayInsert
  <2>2. Good(rt_table_insert(h, src, src, 1, 0, 1, "VALID", {}), X, {}, Z)
    BY <2>1, Insert
  <2>. QED
    BY <1>1, <2>2 DEF neighbor_add
<1>2. CASE h.rt[src] # NULL /\ "UNIDIR" \in h.rt[src].flags
  BY <1>2 DEF neighbor_add
<1>3. CASE h.rt[src] # NULL /\ "UNIDIR" \notin h.rt[src].flags
  <2>1. h.rt[src].dest_seqno \in Seqno
    BY <1>3, SoundBasics, EntryOf
  <2>2. h.rt[src].flags \in SUBSET (h.rt[src].flags \cup {"UNIDIR"})
    OBVIOUS
  <2>3. Good(rt_table_update(h, src, src, 1, h.rt[src].dest_seqno, h.rt[src].flags), X, {}, Z)
    BY <1>3, <2>1, <2>2, SmallHcnt, Update
  <2>. QED
    BY <1>3, <2>3 DEF neighbor_add
<1>. QED
  BY <1>1, <1>2, <1>3

-----------------------------------------------------------------------------
(* The daemon's hello timer is nothing to the invariant. *)
LEMMA HelloTimer ==
    ASSUME NEW h \in Daemon, TableSound(h), NEW b \in BOOLEAN
    PROVE  Tame(h, [h EXCEPT !.hello_timer = b])
<1>. DEFINE g == [h EXCEPT !.hello_timer = b]
<1>1. /\ g \in Daemon
      /\ g.rt = h.rt /\ g.seek = h.seek /\ g.pq = h.pq /\ g.nfq = h.nfq
      /\ g.verdict = h.verdict /\ g.buf = h.buf /\ g.fib = h.fib
  BY DEF Daemon
<1>. HIDE DEF g
<1>2. \A a \in Addr : Routed(h, a) => Routed(g, a)
  BY <1>1 DEF Routed
<1>3. Tame(h, g)
  BY <1>1, <1>2, TameRest
<1>. QED
  BY <1>3 DEF g

(* hello_send() *)
LEMMA HelloSend ==
    ASSUME NEW h \in Daemon, TableSound(h), NEW forwarded, NEW silent, NEW told \in SUBSET Addr
    PROVE  Tame(h, hello_send(h, forwarded, silent, told))
<1>. DEFINE N     == IF unidir_hack THEN told ELSE {}
            hello == [type |-> "RREP", dest_addr |-> h.self, dest_seqno |-> h.seqno,
                      orig_addr |-> h.self, hcnt |-> 0, lifetime |-> 1, a |-> FALSE,
                      neighbors |-> N]
            sent  == aodv_socket_send(aodv_socket_new_msg(h, hello), BROADCAST, 1)
            x     == IF silent THEN sent ELSE h
<1>1. N \in SUBSET Addr
  OBVIOUS
<1>2. hello_send(h, forwarded, silent, told) =
          IF optimized_hellos /\ ~ forwarded THEN [h EXCEPT !.hello_timer = FALSE]
          ELSE [x EXCEPT !.hello_timer = TRUE]
  BY DEF hello_send
<1>. HIDE DEF N
<1>3. hello \in Message
  BY <1>1, SmallHcnt DEF Message, RREP, Daemon
<1>. HIDE DEF hello
<1>4. Tame(h, sent)
  BY SMTT(30), <1>3, SendNew
<1>. HIDE DEF sent
<1>5. Tame(h, x)
  BY <1>4, TameSame
<1>. HIDE DEF x
<1>6. Tame(h, [x EXCEPT !.hello_timer = TRUE])
  BY <1>5, TameBasics, HelloTimer, TameTame
<1>. QED
  BY <1>2, <1>6, HelloTimer

(* hello_start() *)
LEMMA HelloStart ==
    ASSUME NEW h \in Daemon, TableSound(h), NEW silent, NEW told \in SUBSET Addr
    PROVE  Tame(h, hello_start(h, silent, told))
BY HelloSend, TameSame DEF hello_start


(* A HELLO arms the timer of an entry. *)
LEMMA Heard ==
    ASSUME NEW h \in Daemon, TableSound(h), NEW d \in Addr, h.rt[d] # NULL,
           Reliable /\ local_repair => h.rt[d].hcnt = 1
    PROVE  Tame(h, [h EXCEPT !.rt[d].hello_timer = TRUE])
<1>. DEFINE e == [h.rt[d] EXCEPT !.hello_timer = TRUE]
<1>1. h.rt[d] \in Entry /\ EntrySound(d, h.rt[d])
  BY EntryOf
<1>2. [h EXCEPT !.rt[d].hello_timer = TRUE] = [h EXCEPT !.rt[d] = e]
  OBVIOUS
<1>3. /\ e \in Entry /\ e.state = h.rt[d].state /\ e.flags = h.rt[d].flags
      /\ e.hcnt = h.rt[d].hcnt /\ e.next_hop = h.rt[d].next_hop /\ e.handler = h.rt[d].handler
      /\ e.rt_timer = h.rt[d].rt_timer
  BY <1>1 DEF Entry
<1>. HIDE DEF e
<1>4. EntrySound(d, e) /\ (Neighbour(h.rt[d]) => Neighbour(e)) /\ Calm(h.rt[d], e)
  BY <1>1, <1>3, CalmSame DEF EntrySound, EntryBasic, Neighbour
<1>. QED
  BY SMTT(30), <1>2, <1>3, <1>4, TameEntry DEF Valid

(* A HELLO is counted. *)
LEMMA HelloCount ==
    ASSUME NEW h \in Daemon, TableSound(h), NEW d \in Addr, h.rt[d] # NULL, NEW n \in Nat
    PROVE  /\ Tame(h, [h EXCEPT !.rt[d].hello_cnt = n])
           /\ [h EXCEPT !.rt[d].hello_cnt = n].rt[d].hcnt = h.rt[d].hcnt
<1>. DEFINE e == [h.rt[d] EXCEPT !.hello_cnt = n]
<1>1. h.rt[d] \in Entry /\ EntrySound(d, h.rt[d])
  BY EntryOf
<1>2. [h EXCEPT !.rt[d].hello_cnt = n] = [h EXCEPT !.rt[d] = e]
  OBVIOUS
<1>3. /\ e \in Entry /\ e.state = h.rt[d].state /\ e.flags = h.rt[d].flags
      /\ e.hcnt = h.rt[d].hcnt /\ e.next_hop = h.rt[d].next_hop /\ e.handler = h.rt[d].handler
      /\ e.rt_timer = h.rt[d].rt_timer
      /\ e.hello_timer = h.rt[d].hello_timer
  BY <1>1 DEF Entry
<1>. HIDE DEF e
<1>4. EntrySound(d, e) /\ (Neighbour(h.rt[d]) => Neighbour(e)) /\ Calm(h.rt[d], e)
  BY <1>1, <1>3, CalmSame DEF EntrySound, EntryBasic, Neighbour
<1>5. Tame(h, [h EXCEPT !.rt[d] = e]) /\ [h EXCEPT !.rt[d] = e].rt[d] = e
  BY SMTT(30), <1>3, <1>4, TameEntry, EntryType DEF Valid
<1>. QED
  BY <1>2, <1>3, <1>5

(* hello_process() *)
LEMMA HelloProcess ==
    ASSUME NEW Z, NEW X, NEW h, Good(h, X, {}, Z), NEW hello \in RREP, NEW recent \in BOOLEAN
    PROVE  Good(hello_process(h, hello, recent), X, {}, Z)
<1>. DEFINE d     == hello.dest_addr
            seqno == hello.dest_seqno
            known == IF h.rt[d] = NULL THEN {} ELSE h.rt[d].flags
            flags == IF unidir_hack /\ h.self \notin hello.neighbors THEN known \cup {"UNIDIR"}
                     ELSE IF h.self \in hello.neighbors THEN known \ {"UNIDIR"}
                     ELSE known
            state == IF receive_n_hellos > 0 THEN "INVALID" ELSE "VALID"
            i     == rt_table_insert(h, d, d, 1, seqno, 1, state, flags)
            j     == [i EXCEPT !.rt[d].hello_cnt = 1]
            u     == rt_table_update(h, d, d, 1, seqno, flags)
            n     == IF recent THEN h.rt[d].hello_cnt + 1 ELSE 1
<1>1. d \in Addr /\ seqno \in Seqno
  BY DEF RREP
<1>2. h \in Daemon /\ TableSound(h)
  BY SoundBasics
<1>3. flags \in SUBSET (known \cup {"UNIDIR"})
  OBVIOUS
<1>4. "UNIDIR" \in flags => unidir_hack
  <2>1. "UNIDIR" \in known => unidir_hack
    BY <1>1, <1>2, EntryOf DEF EntrySound, EntryBasic
  <2>. QED
    BY <2>1
<1>5. CASE h.rt[d] = NULL
  <2>1. hello_process(h, hello, recent) = [j EXCEPT !.rt[d].hello_timer = TRUE]
    BY <1>5 DEF hello_process
  <2>2. NewFlags(flags)
    BY <1>5 DEF NewFlags
  <2>3. state \in {"VALID", "INVALID"}
    OBVIOUS
  <2>. HIDE DEF d, seqno, flags, state
  <2>4. Good(i, X, {}, Z) /\ i.rt[d] # NULL /\ i.rt[d].hcnt = 1
    <3>1. MayInsert(h, d, d, 1, seqno, 1, state, flags, Z)
      BY <1>1, <1>5, <2>2, <2>3, SmallHcnt DEF MayInsert
    <3>. QED
      BY SMTT(30), <3>1, Insert
  <2>. HIDE DEF i
  <2>5. Tame(i, j) /\ j.rt[d].hcnt = 1
    BY <1>1, <2>4, SoundBasics, HelloCount
  <2>. HIDE DEF j
  <2>6. j \in Daemon /\ TableSound(j) /\ j.rt[d] # NULL
    BY <1>1, <2>4, <2>5, TameBasics
  <2>7. Tame(j, [j EXCEPT !.rt[d].hello_timer = TRUE])
    BY <1>1, <2>5, <2>6, Heard
  <2>. QED
    BY <2>1, <2>4, <2>5, <2>7, TameGood
<1>6. CASE h.rt[d] # NULL /\ "UNIDIR" \in flags /\ Valid(h, d) /\ h.rt[d].hcnt > 1
  <2>1. hello_process(h, hello, recent) = [h EXCEPT !.rt[d].hello_timer = TRUE]
    BY <1>6 DEF hello_process
  <2>2. Reliable => ~ local_repair
    BY <1>4, <1>6 DEF Reliable
  <2>. HIDE DEF d, flags
  <2>3. Tame(h, [h EXCEPT !.rt[d].hello_timer = TRUE])
    BY <1>1, <1>2, <1>6, <2>2, Heard
  <2>. QED
    BY <2>1, <2>3, TameGood
<1>7. CASE /\ h.rt[d] # NULL /\ ~ ("UNIDIR" \in flags /\ Valid(h, d) /\ h.rt[d].hcnt > 1)
           /\ h.rt[d].hello_cnt < receive_n_hellos - 1
  <2>1. hello_process(h, hello, recent) = [h EXCEPT !.rt[d].hello_cnt = n]
    BY <1>7 DEF hello_process
  <2>2. n \in Nat
    BY SMTT(30), <1>1, <1>2, <1>7, EntryOf DEF Entry
  <2>. HIDE DEF d, n
  <2>3. Tame(h, [h EXCEPT !.rt[d].hello_cnt = n])
    BY <1>1, <1>2, <1>7, <2>2, HelloCount
  <2>. QED
    BY <2>1, <2>3, TameGood
<1>8. CASE /\ h.rt[d] # NULL /\ ~ ("UNIDIR" \in flags /\ Valid(h, d) /\ h.rt[d].hcnt > 1)
           /\ ~ (h.rt[d].hello_cnt < receive_n_hellos - 1)
  <2>1. hello_process(h, hello, recent) = [u EXCEPT !.rt[d].hello_timer = TRUE]
    BY <1>8 DEF hello_process
  <2>2. flags \in SUBSET (h.rt[d].flags \cup {"UNIDIR"})
    BY <1>3, <1>8
  <2>. HIDE DEF d, seqno, flags
  <2>3. Good(u, X, {}, Z) /\ u.rt[d] # NULL /\ u.rt[d].hcnt = 1
    BY SMTT(30), <1>1, <1>4, <1>8, <2>2, SmallHcnt, Update
  <2>. HIDE DEF u
  <2>4. Tame(u, [u EXCEPT !.rt[d].hello_timer = TRUE])
    BY <1>1, <2>3, SoundBasics, Heard
  <2>. QED
    BY <2>1, <2>3, <2>4, TameGood
<1>. QED
  BY <1>5, <1>6, <1>7, <1>8


-----------------------------------------------------------------------------
(* rreq_send() *)
LEMMA RreqSend ==
    ASSUME NEW h \in Daemon, TableSound(h), NEW dest \in Addr, NEW dest_seqno \in Seqno,
           NEW ttl \in Nat, NEW flags
    PROVE  LET g == rreq_send(h, dest, dest_seqno, ttl, flags)
           IN  Tame(h, g) /\ g.rt = h.rt
<1>. DEFINE id   == (h.rreq_id + 1) % (RREQ_ID_MAX + 1)
            s    == seqno_incr(h.seqno)
            f    == [h EXCEPT !.rreq_id = id, !.seqno = s]
            grat == rreq_gratuitous \/ "GRATUITOUS" \in flags
            m    == [type |-> "RREQ", rreq_id |-> h.rreq_id, dest_addr |-> dest,
                     dest_seqno |-> dest_seqno, orig_addr |-> h.self, orig_seqno |-> f.seqno,
                     hcnt |-> 0, g |-> grat, d |-> FALSE]
            g    == aodv_socket_send(aodv_socket_new_msg(f, m), BROADCAST, ttl)
<1>1. rreq_send(h, dest, dest_seqno, ttl, flags) = g
  BY DEF rreq_send
<1>2. id \in 0 .. RREQ_ID_MAX /\ s \in Seqno
  BY SMTT(30), SeqnoType, TablesAssumption DEF Daemon
<1>3. grat \in BOOLEAN
  OBVIOUS
<1>. HIDE DEF id, s, grat
<1>4. /\ f \in Daemon
      /\ f.rt = h.rt /\ f.seek = h.seek /\ f.pq = h.pq /\ f.nfq = h.nfq
      /\ f.verdict = h.verdict /\ f.buf = h.buf /\ f.fib = h.fib /\ f.seqno = s
  BY <1>2 DEF Daemon
<1>. HIDE DEF f
<1>5. Tame(h, f)
  <2>1. \A a \in Addr : Routed(h, a) => Routed(f, a)
    BY <1>4 DEF Routed
  <2>. QED
    BY <1>4, <2>1, TameRest
<1>6. m \in Message
  BY <1>2, <1>3, <1>4, SmallHcnt DEF Message, RREQ, Daemon
<1>. HIDE DEF m
<1>7. Tame(f, g) /\ g.rt = f.rt
  BY SMTT(30), <1>5, <1>6, TameBasics, SendNew
<1>. HIDE DEF g
<1>8. Tame(h, g)
  BY <1>5, <1>7, TameTame
<1>. QED
  BY <1>1, <1>4, <1>7, <1>8

(* The destination d may be sought. *)
MaySeek(h, d, Z) == (Valid(h, d) => Neighbour(h.rt[d])) /\ Ticking(h, d, Z)

(* A destination is sought from now on, or goes on to be sought. *)
LEMMA StartSeek ==
    ASSUME NEW Z, NEW X, NEW d \in Addr, NEW h, Good(h, X, {d}, Z), MaySeek(h, d, Z), NEW s \in Seek
    PROVE  Good([h EXCEPT !.seek[d] = s], X, {}, Z)
<1>. DEFINE g == [h EXCEPT !.seek[d] = s]
<1>1. s # NULL
  BY NullAssumption
<1>2. /\ g \in Daemon
      /\ g.seek[d] = s
      /\ \A a \in Addr \ {d} : g.seek[a] = h.seek[a]
      /\ g.rt = h.rt /\ g.pq = h.pq /\ g.nfq = h.nfq
      /\ g.fib = h.fib /\ g.verdict = h.verdict
  BY SMTT(30), SoundBasics, SeekType
<1>. HIDE DEF g
<1>3. TableSound(g) /\ KernelSound(g) /\ \A a \in Addr : Valid(g, a) <=> Valid(h, a)
  BY <1>2, TablesSame DEF Good, Sound
<1>4. \A p \in h.pq : p.dest_addr \in Addr
  BY DEF Good, Sound, Typed, Daemon, QPkt
<1>5. BufferSound(g, X, {})
  BY <1>1, <1>2, <1>3, <1>4 DEF Good, Sound, BufferSound, MaySeek
<1>6. Sound(g, X, {})
  BY <1>2, <1>3, <1>5 DEF Good, Sound, Typed, VerdictSound
<1>7. Steady(g, {}, Z)
  BY <1>1, <1>2 DEF Good, Steady, Ticking, MaySeek
<1>. QED
  BY <1>6, <1>7 DEF g, Good

(* A destination that is sought already needs no more. *)
LEMMA StaySeek ==
    ASSUME NEW Z, NEW X, NEW d \in Addr, NEW h, Good(h, X, {d}, Z), MaySeek(h, d, Z), h.seek[d] # NULL
    PROVE  Good(h, X, {}, Z)
<1>1. Sound(h, X, {})
  BY DEF Good, Sound, BufferSound, MaySeek
<1>2. Steady(h, {}, Z)
  BY DEF Good, Steady, MaySeek
<1>. QED
  BY <1>1, <1>2 DEF Good

(* rreq_send() and seek_list_insert() *)
LEMMA SendAndSeek ==
    ASSUME NEW Z, NEW X, NEW d \in Addr, NEW h, Good(h, X, {d}, Z), MaySeek(h, d, Z),
           NEW seqno \in Seqno, NEW ttl \in Nat, NEW flags \in SUBSET {"GRATUITOUS"}
    PROVE  Good(seek_list_insert(rreq_send(h, d, seqno, ttl, flags), d, seqno, ttl, flags), X, {}, Z)
<1>. DEFINE f == rreq_send(h, d, seqno, ttl, flags)
            s == [dest_seqno |-> seqno, ttl |-> ttl, reqs |-> 0, flags |-> flags]
<1>1. Tame(h, f) /\ f.rt = h.rt
  BY SMTT(30), SoundBasics, RreqSend
<1>2. s \in Seek
  BY DEF Seek
<1>3. seek_list_insert(f, d, seqno, ttl, flags) = [f EXCEPT !.seek[d] = s]
  BY DEF seek_list_insert
<1>. HIDE DEF f, s
<1>4. Good(f, X, {d}, Z) /\ MaySeek(f, d, Z)
  BY <1>1, TameGood DEF MaySeek, Valid, Ticking
<1>5. Good([f EXCEPT !.seek[d] = s], X, {}, Z)
  BY <1>2, <1>4, StartSeek
<1>. QED
  BY <1>3, <1>5 DEF f


(* rreq_route_discovery(), for a packet that was put into the buffer *)
LEMMA RouteDiscovery ==
    ASSUME NEW Z, NEW X, NEW dest \in Addr, NEW h, Good(h, X, {dest}, Z), MaySeek(h, dest, Z),
           NEW flags \in SUBSET {"GRATUITOUS"}
    PROVE  Good(rreq_route_discovery(h, dest, flags), X, {}, Z)
<1>. DEFINE e     == h.rt[dest]
            seqno == IF e = NULL THEN 0 ELSE e.dest_seqno
            ttl   == IF ~ expanding_ring_search THEN NET_DIAMETER
                     ELSE IF e = NULL THEN TTL_START ELSE e.hcnt + TTL_INCREMENT
            f     == rt_table_update_timeout(h, dest)
<1>1. h \in Daemon /\ TableSound(h)
  BY SoundBasics
<1>2. seqno \in Seqno
  BY <1>1, ZeroSeqno, EntryOf
<1>3. ttl \in Nat
  BY SMTT(30), <1>1, EntryOf, ProtocolAssumption, TablesAssumption DEF Hcnt
<1>4. CASE h.seek[dest] # NULL
  <2>1. rreq_route_discovery(h, dest, flags) = h
    BY <1>4 DEF rreq_route_discovery
  <2>. QED
    BY <1>4, <2>1, StaySeek
<1>5. CASE h.seek[dest] = NULL
  <2>1. rreq_route_discovery(h, dest, flags) =
            seek_list_insert(rreq_send(f, dest, seqno, ttl, flags), dest, seqno, ttl, flags)
    BY <1>5 DEF rreq_route_discovery
  <2>. HIDE DEF seqno, ttl
  <2>2. /\ Tame(h, f)
        /\ \A a \in Addr : h.rt[a] # NULL => /\ f.rt[a].hcnt = h.rt[a].hcnt
                                             /\ f.rt[a].flags = h.rt[a].flags
    BY <1>1, UpdateTimeout
  <2>. HIDE DEF f
  <2>3. Good(f, X, {dest}, Z) /\ MaySeek(f, dest, Z)
    <3>1. Ticking(f, dest, Z)
      BY <2>2 DEF MaySeek, Ticking, Tame, Mild, Calm
    <3>. QED
      BY <2>2, <3>1, TameGood DEF MaySeek, Tame, Mild
  <2>. QED
    BY <1>2, <1>3, <2>1, <2>3, SendAndSeek
<1>. QED
  BY <1>4, <1>5

(* rreq_local_repair(), for a packet that was put into the buffer *)
LEMMA LocalRepair ==
    ASSUME NEW Z, NEW X, NEW dest \in Addr, NEW h, Good(h, X, {dest}, Z), MaySeek(h, dest, Z),
           h.rt[dest] # NULL, "REPAIR" \in h.rt[dest].flags, NEW src \in Addr
    PROVE  Good(rreq_local_repair(h, dest, src), X, {}, Z)
<1>. DEFINE e     == h.rt[dest]
            seqno == e.dest_seqno
            far   == IF h.rt[src] = NULL THEN 0 ELSE h.rt[src].hcnt \div 2
            ttl   == (IF far > e.hcnt THEN far ELSE e.hcnt) + LOCAL_ADD_TTL
            x     == [e EXCEPT !.handler = "expire", !.rt_timer = TRUE]
            f     == [h EXCEPT !.rt[dest] = x]
<1>1. h \in Daemon /\ TableSound(h)
  BY SoundBasics
<1>2. e \in Entry /\ EntrySound(dest, e) /\ seqno \in Seqno
  BY <1>1, EntryOf
<1>3. ttl \in Nat
  <2>1. far \in Nat
    BY SMTT(30), <1>1, EntryOf, TablesAssumption DEF Hcnt
  <2>2. e.hcnt \in Nat
    BY SMTT(30), <1>2 DEF Entry, Hcnt
  <2>. HIDE DEF far
  <2>. QED
    BY SMTT(30), <2>1, <2>2, ProtocolAssumption
<1>4. CASE h.seek[dest] # NULL
  <2>1. rreq_local_repair(h, dest, src) = h
    BY <1>4 DEF rreq_local_repair
  <2>. QED
    BY <1>4, <2>1, StaySeek
<1>5. CASE h.seek[dest] = NULL
  <2>1. rreq_local_repair(h, dest, src) =
            seek_list_insert(rreq_send(f, dest, seqno, ttl, {}), dest, seqno, ttl, {})
    BY <1>5 DEF rreq_local_repair
  <2>2. /\ x \in Entry /\ x.state = e.state /\ x.flags = e.flags /\ x.hcnt = e.hcnt
        /\ x.next_hop = e.next_hop /\ x.hello_timer = e.hello_timer /\ x.handler = "expire"
        /\ x.rt_timer
    BY <1>2 DEF Entry
  <2>. HIDE DEF seqno, ttl, x
  <2>3. EntrySound(dest, x) /\ (Neighbour(e) => Neighbour(x))
    BY <1>2, <2>2 DEF EntrySound, EntryBasic, Neighbour
  <2>4. Mild(h, f) /\ f.rt[dest] = x /\ \A a \in Addr \ {dest} : f.rt[a] = h.rt[a]
    <3>1. Mild(h, f)
      BY <1>1, <2>2, <2>3, MildEntry DEF Valid
    <3>. QED
      BY <1>1, <3>1 DEF Daemon
  <2>. HIDE DEF f
  <2>5. Good(f, X, {dest}, Z) /\ MaySeek(f, dest, Z)
    <3>1. Sound(f, X, {dest})
      BY <2>4, MildSound DEF Good
    <3>2. Steady(f, {dest}, Z)
      BY <2>4 DEF Good, Steady, Ticking, Mild
    <3>3. Ticking(f, dest, Z)
      BY <2>2, <2>4 DEF Ticking, Runs
    <3>. QED
      BY <2>2, <2>3, <2>4, <3>1, <3>2, <3>3 DEF Good, MaySeek, Valid
  <2>6. {} \in SUBSET {"GRATUITOUS"}
    OBVIOUS
  <2>. QED
    BY <1>2, <1>3, <2>1, <2>5, <2>6, SendAndSeek
<1>. QED
  BY <1>4, <1>5

-----------------------------------------------------------------------------
(* rrep_create() *)
LEMMA RrepCreate ==
    ASSUME NEW h \in Daemon, TableSound(h), NEW hcnt \in Hcnt, NEW dest \in Addr,
           NEW seqno \in Seqno, NEW orig \in Addr, NEW life \in {0, 1}
    PROVE  LET g == rrep_create(h, hcnt, dest, seqno, orig, life)
           IN  Tame(h, g) /\ g.rt = h.rt /\ g.buf \in Message
<1>. DEFINE m == [type |-> "RREP", dest_addr |-> dest, dest_seqno |-> seqno,
                  orig_addr |-> orig, hcnt |-> hcnt, lifetime |-> life,
                  a |-> FALSE, neighbors |-> {}]
<1>1. m \in Message
  BY DEF Message, RREP
<1>2. rrep_create(h, hcnt, dest, seqno, orig, life) = aodv_socket_new_msg(h, m)
  BY DEF rrep_create
<1>. HIDE DEF m
<1>. QED
  BY SMTT(30), <1>1, <1>2, NewMessage

(* The timer for a RREP-ACK is nothing to the invariant. *)
LEMMA AckTimer ==
    ASSUME NEW h \in Daemon, TableSound(h), NEW d \in Addr, h.rt[d] # NULL, NEW b \in BOOLEAN
    PROVE  Tame(h, [h EXCEPT !.rt[d].ack_timer = b])
<1>. DEFINE e == [h.rt[d] EXCEPT !.ack_timer = b]
<1>1. h.rt[d] \in Entry /\ EntrySound(d, h.rt[d])
  BY EntryOf
<1>2. [h EXCEPT !.rt[d].ack_timer = b] = [h EXCEPT !.rt[d] = e]
  OBVIOUS
<1>3. /\ e \in Entry /\ e.state = h.rt[d].state /\ e.flags = h.rt[d].flags
      /\ e.hcnt = h.rt[d].hcnt /\ e.next_hop = h.rt[d].next_hop /\ e.handler = h.rt[d].handler
      /\ e.rt_timer = h.rt[d].rt_timer
      /\ e.hello_timer = h.rt[d].hello_timer
  BY <1>1 DEF Entry
<1>. HIDE DEF e
<1>4. EntrySound(d, e) /\ (Neighbour(h.rt[d]) => Neighbour(e)) /\ Calm(h.rt[d], e)
  BY <1>1, <1>3, CalmSame DEF EntrySound, EntryBasic, Neighbour
<1>. QED
  BY SMTT(30), <1>2, <1>3, <1>4, TameEntry DEF Valid


(* rrep_send(): waiting for a RREP-ACK breaks a link, no more. *)
LEMMA WaitAck ==
    ASSUME NEW h \in Daemon, TableSound(h), NEW rev \in Addr, h.rt[rev] # NULL
    PROVE  Tame(h, rrep_wait_ack(h, rev))
<1>. DEFINE e    == h.rt[rev]
            n    == e.next_hop
            ask  == /\ \/ Valid(h, rev) /\ "UNIDIR" \in e.flags
                       \/ e.hcnt = 1 /\ unidir_hack
                    /\ Valid(h, n)
                    /\ ~ h.rt[n].ack_timer
            deaf == [h.rt[n] EXCEPT !.flags = @ \cup {"UNIDIR"}, !.hello_timer = FALSE]
            mark == [h EXCEPT !.rt[n] = deaf]
            cut  == neighbor_link_break(mark, n)
            wait == [cut EXCEPT !.rt[n].ack_timer = TRUE]
<1>1. ask => rrep_wait_ack(h, rev) = wait
  BY DEF rrep_wait_ack
<1>2. ~ ask => rrep_wait_ack(h, rev) = h
  BY DEF rrep_wait_ack
<1>3. n \in Addr /\ EntrySound(rev, e)
  BY EntryOf
<1>4. CASE ask
  <2>1. unidir_hack
    BY <1>3, <1>4 DEF EntrySound, EntryBasic
  <2>2. h.rt[n] # NULL /\ Valid(h, n)
    BY <1>4 DEF Valid
  <2>. HIDE DEF n, e
  <2>3. h.rt[n] \in Entry /\ EntrySound(n, h.rt[n])
    BY <1>3, <2>2, EntryOf
  <2>4. /\ deaf \in Entry /\ deaf.state = h.rt[n].state /\ deaf.hcnt = h.rt[n].hcnt
        /\ deaf.flags = h.rt[n].flags \cup {"UNIDIR"} /\ deaf.handler = h.rt[n].handler
        /\ deaf.next_hop = h.rt[n].next_hop /\ deaf.hello_timer = FALSE
        /\ deaf.rt_timer = h.rt[n].rt_timer
    BY <2>3 DEF Entry
  <2>. HIDE DEF deaf
  <2>5. EntrySound(n, deaf) /\ (Neighbour(h.rt[n]) => Neighbour(deaf)) /\ Calm(h.rt[n], deaf)
    BY <2>1, <2>3, <2>4 DEF EntrySound, EntryBasic, Neighbour, Calm, Runs, Waiting
  <2>6. Tame(h, mark)
    BY <1>3, <2>2, <2>4, <2>5, TameEntry DEF Valid
  <2>. HIDE DEF mark
  <2>7. mark \in Daemon /\ TableSound(mark) /\ mark.rt[n] # NULL
    BY <1>3, <2>2, <2>6, TameBasics
  <2>8. /\ \A u \in Addr \ {n} : mark.rt[u] # NULL => EntrySound(u, mark.rt[u])
        /\ EntryBasic(n, mark.rt[n]) /\ EntrySound(n, mark.rt[n])
    BY <1>3, <2>7 DEF TableSound, EntrySound
  <2>9. Tame(mark, cut)
    BY <1>3, <2>7, <2>8, LinkBreak
  <2>. HIDE DEF cut
  <2>10. cut \in Daemon /\ TableSound(cut) /\ cut.rt[n] # NULL
    BY <1>3, <2>7, <2>9, TameBasics
  <2>11. Tame(cut, wait)
    BY <1>3, <2>10, AckTimer
  <2>. HIDE DEF wait
  <2>. QED
    BY <1>1, <1>4, <2>6, <2>9, <2>11, TameTame
<1>5. CASE ~ ask
  BY <1>2, <1>5, TameSame
<1>. QED
  BY <1>4, <1>5

(* rrep_send(): whatever the buffer holds by then is a message. *)
LEMMA RrepSend ==
    ASSUME NEW h \in Daemon, TableSound(h), h.buf \in Message, NEW rev \in Addr, h.rt[rev] # NULL,
           NEW fwd \in Addr \cup {NULL}, fwd # NULL => h.rt[fwd] # NULL,
           NEW silent, NEW told \in SUBSET Addr
    PROVE  Tame(h, rrep_send(h, rev, fwd, silent, told))
<1>. DEFINE n    == h.rt[rev].next_hop
            g    == rrep_wait_ack(h, rev)
            sent == aodv_socket_send(g, n, MAXTTL)
            one  == precursor_add(sent, fwd, n)
            two  == precursor_add(one, rev, sent.rt[fwd].next_hop)
            done == IF fwd = NULL THEN sent ELSE two
<1>1. rrep_send(h, rev, fwd, silent, told) =
          IF optimized_hellos THEN hello_start(done, silent, told) ELSE done
  BY DEF rrep_send
<1>2. n \in Addr
  BY EntryOf
<1>3. Tame(h, g)
  BY WaitAck
<1>. HIDE DEF g, n
<1>4. g \in Daemon /\ TableSound(g) /\ g.buf \in Message
  BY <1>3, TameBasics
<1>5. Tame(g, sent)
  BY SMTT(30), <1>2, <1>4, SendMessage, ProtocolAssumption
<1>. HIDE DEF sent
<1>6. Tame(h, sent)
  BY <1>3, <1>5, TameTame
<1>7. Tame(h, done)
  <2>1. CASE fwd = NULL
    BY <1>6, <2>1
  <2>2. CASE fwd # NULL
    <3>1. fwd \in Addr
      BY <2>2
    <3>2. sent \in Daemon /\ TableSound(sent) /\ sent.rt[fwd] # NULL /\ sent.rt[rev] # NULL
      BY <1>6, <2>2, <3>1, TameBasics
    <3>3. Tame(sent, one)
      BY <1>2, <3>1, <3>2, AddPrecursor
    <3>4. sent.rt[fwd].next_hop \in Addr
      BY <3>1, <3>2, EntryOf
    <3>. HIDE DEF one
    <3>5. one \in Daemon /\ TableSound(one) /\ one.rt[rev] # NULL
      BY <3>2, <3>3, TameBasics
    <3>6. Tame(one, two)
      BY <3>4, <3>5, AddPrecursor
    <3>. HIDE DEF two
    <3>. QED
      BY <1>6, <2>2, <3>3, <3>6, TameTame
  <2>. QED
    BY <2>1, <2>2
<1>. HIDE DEF done
<1>8. Tame(done, hello_start(done, silent, told))
  BY <1>7, TameBasics, HelloStart
<1>. QED
  BY <1>1, <1>7, <1>8, TameTame

(* rrep_forward() *)
LEMMA RrepForward ==
    ASSUME NEW h \in Daemon, TableSound(h), NEW rrep \in RREP, NEW rev \in Addr, h.rt[rev] # NULL,
           NEW fwd \in Addr, h.rt[fwd] # NULL, NEW ttl \in Int
    PROVE  Tame(h, rrep_forward(h, rrep, rev, fwd, ttl))
<1>. DEFINE hcnt == h.rt[fwd].hcnt
            n    == h.rt[rev].next_hop
            p    == h.rt[fwd].next_hop
            m    == [rrep EXCEPT !.hcnt = hcnt]
            sent == aodv_socket_send(aodv_socket_new_msg(h, m), n, ttl)
            one  == precursor_add(sent, fwd, n)
            two  == precursor_add(one, rev, p)
<1>1. rrep_forward(h, rrep, rev, fwd, ttl) = rt_table_update_timeout(two, rev)
  BY DEF rrep_forward
<1>2. hcnt \in Hcnt /\ n \in Addr /\ p \in Addr
  BY EntryOf
<1>. HIDE DEF hcnt, n, p
<1>3. m \in Message
  BY <1>2 DEF Message, RREP
<1>. HIDE DEF m
<1>4. Tame(h, sent)
  BY <1>2, <1>3, SendNew
<1>. HIDE DEF sent
<1>5. sent \in Daemon /\ TableSound(sent) /\ sent.rt[fwd] # NULL /\ sent.rt[rev] # NULL
  BY <1>4, TameBasics
<1>6. Tame(sent, one)
  BY <1>2, <1>5, AddPrecursor
<1>. HIDE DEF one
<1>7. one \in Daemon /\ TableSound(one) /\ one.rt[rev] # NULL
  BY <1>5, <1>6, TameBasics
<1>8. Tame(one, two)
  BY <1>2, <1>7, AddPrecursor
<1>. HIDE DEF two
<1>9. Tame(two, rt_table_update_timeout(two, rev))
  BY <1>8, TameBasics, UpdateTimeout
<1>. QED
  BY <1>1, <1>4, <1>6, <1>8, <1>9, TameTame

(* rrep_ack_process() *)
LEMMA RrepAckProcess ==
    ASSUME NEW h \in Daemon, TableSound(h), NEW src \in Addr
    PROVE  Tame(h, rrep_ack_process(h, src))
BY AckTimer, TameSame DEF rrep_ack_process


-----------------------------------------------------------------------------
(* A message from src about the node a, which counts the hops to it:       *)
(* HopCountAssumption of AodvNode.                                         *)
HopsFrom(src, a, hcnt) ==
    /\ hcnt \in Hcnt
    /\ hcnt < HCNT_MAX
    /\ hcnt = 0 <=> src = a

(* The hop count of the route such a message makes. *)
LEMMA HopsOf ==
    ASSUME NEW src, NEW a, NEW hcnt, HopsFrom(src, a, hcnt)
    PROVE  hcnt + 1 \in Hcnt /\ hcnt + 1 # 0 /\ (hcnt + 1 = 1 <=> src = a)
BY SMTT(30), TablesAssumption DEF HopsFrom, Hcnt

(* The route a message makes: a new entry, or another route in the one     *)
(* there is.                                                               *)
LEMMA NewRoute ==
    ASSUME NEW Z, NEW X, NEW h, Good(h, X, {}, Z), NEW d \in Addr, h.rt[d] = NULL,
           NEW next \in Addr, NEW hops \in Hcnt, hops = 1 <=> next = d,
           NEW seqno \in Seqno, NEW life, life # 0 \/ d \in Z.endless
    PROVE  LET g == rt_table_insert(h, d, next, hops, seqno, life, "VALID", {})
           IN  Good(g, X, {}, Z) /\ g.rt[d] # NULL
<1>1. MayInsert(h, d, next, hops, seqno, life, "VALID", {}, Z)
  BY NoFlags DEF MayInsert
<1>. QED
  BY SMTT(30), <1>1, Insert

(* The same where there is an entry. *)
LEMMA OtherRoute ==
    ASSUME NEW Z, NEW X, NEW h, Good(h, X, {}, Z), NEW d \in Addr, h.rt[d] # NULL,
           NEW next \in Addr, NEW hops \in Hcnt, hops # 0, hops = 1 <=> next = d,
           NEW seqno \in Seqno
    PROVE  LET g == rt_table_update(h, d, next, hops, seqno, h.rt[d].flags)
           IN  Good(g, X, {}, Z) /\ g.rt[d] # NULL
<1>. DEFINE flags == h.rt[d].flags
<1>1. flags \in SUBSET (h.rt[d].flags \cup {"UNIDIR"})
  OBVIOUS
<1>2. "UNIDIR" \in flags => unidir_hack
  BY SoundBasics, EntryOf DEF EntrySound, EntryBasic
<1>. HIDE DEF flags
<1>3. LET g == rt_table_update(h, d, next, hops, seqno, flags)
      IN  Good(g, X, {}, Z) /\ g.rt[d] # NULL
  BY SMTT(30), <1>1, <1>2, Update
<1>. QED
  BY <1>3 DEF flags

(* reverse_route() *)
LEMMA ReverseRoute ==
    ASSUME NEW Z, NEW X, NEW h, Good(h, X, {}, Z), NEW rreq \in RREQ, NEW src \in Addr,
           HopsFrom(src, rreq.orig_addr, rreq.hcnt)
    PROVE  LET g == reverse_route(h, rreq, src)
           IN  Good(g, X, {}, Z) /\ g.rt[rreq.orig_addr] # NULL
<1>. DEFINE o     == rreq.orig_addr
            hops  == rreq.hcnt + 1
            seqno == rreq.orig_seqno
            i     == rt_table_insert(h, o, src, hops, seqno, 1, "VALID", {})
            u     == rt_table_update(h, o, src, hops, seqno, h.rt[o].flags)
<1>1. reverse_route(h, rreq, src) =
          IF h.rt[o] = NULL THEN i ELSE IF fresher(h.rt[o], seqno, hops) THEN u ELSE h
  BY DEF reverse_route
<1>2. o \in Addr /\ seqno \in Seqno
  BY DEF RREQ
<1>3. hops \in Hcnt /\ hops # 0 /\ (hops = 1 <=> src = o)
  BY HopsOf
<1>. HIDE DEF o, hops, seqno
<1>4. h.rt[o] = NULL => Good(i, X, {}, Z) /\ i.rt[o] # NULL
  BY <1>2, <1>3, SmallHcnt, NewRoute
<1>5. h.rt[o] # NULL => Good(u, X, {}, Z) /\ u.rt[o] # NULL
  BY SMTT(30), <1>2, <1>3, OtherRoute
<1>. HIDE DEF i, u
<1>. QED
  BY <1>1, <1>4, <1>5 DEF o

(* The host's own sequence number is nothing to the invariant. *)
LEMMA OwnSeqno ==
    ASSUME NEW h \in Daemon, TableSound(h), NEW s \in Seqno
    PROVE  LET g == [h EXCEPT !.seqno = s] IN Tame(h, g) /\ g.rt = h.rt /\ g.self = h.self
<1>. DEFINE g == [h EXCEPT !.seqno = s]
<1>1. /\ g \in Daemon
      /\ g.rt = h.rt /\ g.seek = h.seek /\ g.pq = h.pq /\ g.nfq = h.nfq
      /\ g.verdict = h.verdict /\ g.buf = h.buf /\ g.fib = h.fib /\ g.self = h.self
  BY DEF Daemon
<1>. HIDE DEF g
<1>2. \A a \in Addr : Routed(h, a) => Routed(g, a)
  BY <1>1 DEF Routed
<1>3. Tame(h, g)
  BY <1>1, <1>2, TameRest
<1>. QED
  BY <1>1, <1>3 DEF g

(* A RREP is created and sent. *)
LEMMA Reply ==
    ASSUME NEW h \in Daemon, TableSound(h), NEW hcnt \in Hcnt, NEW dest \in Addr,
           NEW seqno \in Seqno, NEW orig \in Addr, NEW life \in {0, 1}, h.rt[orig] # NULL,
           NEW fwd \in Addr \cup {NULL}, fwd # NULL => h.rt[fwd] # NULL,
           NEW silent, NEW told \in SUBSET Addr
    PROVE  Tame(h, rrep_send(rrep_create(h, hcnt, dest, seqno, orig, life), orig, fwd, silent, told))
<1>. DEFINE f == rrep_create(h, hcnt, dest, seqno, orig, life)
<1>1. Tame(h, f) /\ f.rt = h.rt /\ f.buf \in Message
  BY SMTT(30), RrepCreate
<1>. HIDE DEF f
<1>2. f \in Daemon /\ TableSound(f)
  BY <1>1, TameBasics
<1>3. Tame(f, rrep_send(f, orig, fwd, silent, told))
  BY <1>1, <1>2, RrepSend
<1>4. Tame(h, rrep_send(f, orig, fwd, silent, told))
  BY <1>1, <1>3, TameTame
<1>. QED
  BY <1>4 DEF f

(* rreq_process() where this host is the destination *)
LEMMA RreqReply ==
    ASSUME NEW h \in Daemon, TableSound(h), NEW rreq \in RREQ, h.rt[rreq.orig_addr] # NULL,
           NEW silent, NEW told \in SUBSET Addr
    PROVE  Tame(h, rreq_reply(h, rreq, silent, told))
<1>. DEFINE s == rreq.dest_seqno
            o == rreq.orig_addr
            seqno == IF s = 0 THEN h.seqno
                     ELSE IF int32(h.seqno) < int32(s) THEN s
                     ELSE IF h.seqno = s THEN seqno_incr(h.seqno)
                     ELSE h.seqno
            g == [h EXCEPT !.seqno = seqno]
<1>1. rreq_reply(h, rreq, silent, told) =
          rrep_send(rrep_create(g, 0, g.self, seqno, o, 1), o, NULL, silent, told)
  BY DEF rreq_reply
<1>2. o \in Addr /\ s \in Seqno
  BY DEF RREQ
<1>3. h.seqno \in Seqno /\ h.self \in Addr
  BY DEF Daemon
<1>4. seqno \in Seqno
  BY <1>2, <1>3, SeqnoType
<1>5. h.rt[o] # NULL
  OBVIOUS
<1>. HIDE DEF s, o, seqno
<1>6. Tame(h, g) /\ g.rt = h.rt /\ g.self = h.self
  BY <1>4, OwnSeqno
<1>. HIDE DEF g
<1>7. g \in Daemon /\ TableSound(g) /\ g.self \in Addr
  BY <1>3, <1>6, TameBasics
<1>8. Tame(g, rrep_send(rrep_create(g, 0, g.self, seqno, o, 1), o, NULL, silent, told))
  <2>1. NULL # NULL => g.rt[NULL] # NULL
    OBVIOUS
  <2>. DEFINE self == g.self
  <2>2. self \in Addr
    BY <1>7
  <2>. HIDE DEF self
  <2>3. Tame(g, rrep_send(rrep_create(g, 0, self, seqno, o, 1), o, NULL, silent, told))
    BY <1>2, <1>4, <1>5, <1>6, <1>7, <2>1, <2>2, SmallHcnt, Reply
  <2>. QED
    BY <2>3 DEF self
<1>. QED
  BY <1>1, <1>6, <1>8, TameTame


(* rreq_process() where this host answers for the destination *)
LEMMA RreqIntermediateReply ==
    ASSUME NEW h \in Daemon, TableSound(h), NEW rreq \in RREQ, h.rt[rreq.orig_addr] # NULL,
           h.rt[rreq.dest_addr] # NULL, NEW life \in {0, 1}, NEW silent, NEW told \in SUBSET Addr
    PROVE  Tame(h, rreq_intermediate_reply(h, rreq, life, silent, told))
<1>. DEFINE d == rreq.dest_addr
            o == rreq.orig_addr
            dhcnt == h.rt[d].hcnt
            dseqno == h.rt[d].dest_seqno
            g == rrep_send(rrep_create(h, dhcnt, d, dseqno, o, life), o, d, silent, told)
            ohcnt == g.rt[o].hcnt
            oseqno == g.rt[o].dest_seqno
            k == rrep_send(rrep_create(g, ohcnt, o, oseqno, d, life), d, o, silent, told)
<1>1. rreq_intermediate_reply(h, rreq, life, silent, told) = IF rreq.g THEN k ELSE g
  BY DEF rreq_intermediate_reply
<1>2. d \in Addr /\ o \in Addr /\ h.rt[d] # NULL /\ h.rt[o] # NULL
  BY DEF RREQ
<1>. HIDE DEF d, o
<1>3. dhcnt \in Hcnt /\ dseqno \in Seqno
  BY <1>2, EntryOf
<1>. HIDE DEF dhcnt, dseqno
<1>4. Tame(h, g)
  BY <1>2, <1>3, Reply
<1>. HIDE DEF g
<1>5. g \in Daemon /\ TableSound(g) /\ g.rt[d] # NULL /\ g.rt[o] # NULL
  BY <1>2, <1>4, TameBasics
<1>6. ohcnt \in Hcnt /\ oseqno \in Seqno
  BY <1>2, <1>5, EntryOf
<1>. HIDE DEF ohcnt, oseqno
<1>7. Tame(g, k)
  BY <1>2, <1>5, <1>6, Reply
<1>. HIDE DEF k
<1>. QED
  BY <1>1, <1>4, <1>7, TameTame

(* rreq_forward() *)
LEMMA RreqForward ==
    ASSUME NEW h \in Daemon, TableSound(h), NEW rreq \in RREQ, NEW ttl \in Int
    PROVE  Tame(h, rreq_forward(h, rreq, ttl))
<1>. DEFINE hcnt == u_int8(rreq.hcnt + 1)
            m == [rreq EXCEPT !.hcnt = hcnt]
<1>1. rreq_forward(h, rreq, ttl) = aodv_socket_send(aodv_socket_new_msg(h, m), BROADCAST, ttl)
  BY DEF rreq_forward
<1>2. hcnt \in Hcnt
  BY SMTT(30), TablesAssumption DEF RREQ, Hcnt, u_int8
<1>. HIDE DEF hcnt
<1>3. m \in Message
  BY <1>2 DEF Message, RREQ
<1>. HIDE DEF m
<1>. QED
  BY <1>1, <1>3, SendNew

(* rreq_process() where the RREQ is passed on *)
LEMMA RreqPassOn ==
    ASSUME NEW h \in Daemon, TableSound(h), NEW rreq \in RREQ, NEW ttl \in Nat
    PROVE  Tame(h, rreq_pass_on(h, rreq, ttl))
<1>. DEFINE e == h.rt[rreq.dest_addr]
            seqno == IF e # NULL /\ int32(e.dest_seqno) > int32(rreq.dest_seqno)
                     THEN e.dest_seqno ELSE rreq.dest_seqno
            m == [rreq EXCEPT !.dest_seqno = seqno]
            t == ttl - 1
<1>1. rreq_pass_on(h, rreq, ttl) = IF ttl > 1 THEN rreq_forward(h, m, t) ELSE h
  BY DEF rreq_pass_on
<1>2. seqno \in Seqno
  BY EntryOf DEF RREQ
<1>3. t \in Int
  BY SMTT(30)
<1>. HIDE DEF seqno, t
<1>4. m \in RREQ
  BY <1>2 DEF RREQ
<1>. HIDE DEF m
<1>5. Tame(h, rreq_forward(h, m, t))
  BY <1>3, <1>4, RreqForward
<1>. QED
  BY <1>1, <1>5, TameSame

(* rreq_process() *)
LEMMA RreqProcess ==
    ASSUME NEW Z, NEW X, NEW h, Good(h, X, {}, Z), NEW rreq \in RREQ, NEW src \in Addr,
           HopsFrom(src, rreq.orig_addr, rreq.hcnt), NEW ttl \in Nat, NEW life \in {0, 1},
           NEW silent, NEW told \in SUBSET Addr
    PROVE  Good(rreq_process(h, rreq, src, ttl, life, silent, told), X, {}, Z)
<1>. DEFINE id == <<rreq.orig_addr, rreq.rreq_id>>
            R  == h.records \cup {id}
            f  == [h EXCEPT !.records = R]
            g  == reverse_route(f, rreq, src)
            d  == rreq.dest_addr
<1>1. h \in Daemon /\ TableSound(h) /\ d \in Addr
  BY SoundBasics DEF RREQ
<1>2. R \in SUBSET (Addr \X (0 .. RREQ_ID_MAX))
  BY SMTT(30), <1>1 DEF Daemon, RREQ
<1>3. \/ rreq_process(h, rreq, src, ttl, life, silent, told) = h
      \/ rreq_process(h, rreq, src, ttl, life, silent, told) = rreq_reply(g, rreq, silent, told)
      \/ /\ rreq_process(h, rreq, src, ttl, life, silent, told) =
                rreq_intermediate_reply(g, rreq, life, silent, told)
         /\ Valid(g, d)
      \/ rreq_process(h, rreq, src, ttl, life, silent, told) = rreq_pass_on(g, rreq, ttl)
  BY DEF rreq_process
<1>. HIDE DEF R
<1>4. /\ f \in Daemon
      /\ f.rt = h.rt /\ f.seek = h.seek /\ f.pq = h.pq /\ f.nfq = h.nfq
      /\ f.verdict = h.verdict /\ f.buf = h.buf /\ f.fib = h.fib
  BY <1>1, <1>2 DEF Daemon
<1>. HIDE DEF f
<1>5. Good(f, X, {}, Z)
  <2>1. \A a \in Addr : Routed(h, a) => Routed(f, a)
    BY <1>4 DEF Routed
  <2>. QED
    BY <1>1, <1>4, <2>1, TameRest, TameGood
<1>6. Good(g, X, {}, Z) /\ g.rt[rreq.orig_addr] # NULL
  BY <1>5, ReverseRoute
<1>. HIDE DEF g
<1>7. g \in Daemon /\ TableSound(g)
  BY <1>6, SoundBasics
<1>8. Tame(g, rreq_reply(g, rreq, silent, told))
  BY <1>6, <1>7, RreqReply
<1>9. Valid(g, d) => Tame(g, rreq_intermediate_reply(g, rreq, life, silent, told))
  BY <1>6, <1>7, RreqIntermediateReply DEF Valid
<1>10. Tame(g, rreq_pass_on(g, rreq, ttl))
  BY <1>7, RreqPassOn
<1>. QED
  BY <1>3, <1>6, <1>8, <1>9, <1>10, TameGood


-----------------------------------------------------------------------------
(* rrep_deliver() *)
LEMMA RrepDeliver ==
    ASSUME NEW h \in Daemon, TableSound(h), NEW rrep \in RREP, h.rt[rrep.dest_addr] # NULL,
           NEW was, NEW ttl \in Nat, NEW had_rev
    PROVE  Tame(h, rrep_deliver(h, rrep, was, ttl, had_rev))
<1>. DEFINE d     == rrep.dest_addr
            o     == rrep.orig_addr
            n     == h.rt[d].next_hop
            m     == rrep_ack_create
            ack   == IF rrep.a THEN aodv_socket_send(aodv_socket_new_msg(h, m), n, MAXTTL) ELSE h
            told  == aodv_socket_send(rerr_create(ack, TRUE, {d}), BROADCAST, 1)
            fwd   == [rrep EXCEPT !.a = FALSE]
            t     == ttl - 1
            on    == rrep_forward(ack, fwd, o, d, t)
<1>1. \/ rrep_deliver(h, rrep, was, ttl, had_rev) = ack
      \/ rrep_deliver(h, rrep, was, ttl, had_rev) = told
      \/ rrep_deliver(h, rrep, was, ttl, had_rev) = on /\ Valid(h, o)
  BY DEF rrep_deliver
<1>2. d \in Addr /\ o \in Addr /\ fwd \in RREP /\ h.rt[d] # NULL
  BY DEF RREP
<1>3. m \in Message
  BY DEF Message, RREP_ack, rrep_ack_create
<1>4. t \in Int /\ MAXTTL \in Int
  BY SMTT(30), ProtocolAssumption
<1>. HIDE DEF d, o, m, fwd, t
<1>5. n \in Addr
  BY <1>2, EntryOf
<1>. HIDE DEF n
<1>6. Tame(h, ack)
  <2>1. Tame(h, aodv_socket_send(aodv_socket_new_msg(h, m), n, MAXTTL))
    BY <1>3, <1>4, <1>5, SendNew
  <2>. QED
    BY <2>1, TameSame
<1>. HIDE DEF ack
<1>7. ack \in Daemon /\ TableSound(ack) /\ ack.rt[d] # NULL /\ (Valid(h, o) => ack.rt[o] # NULL)
  BY <1>2, <1>6, TameBasics DEF Valid
<1>8. Tame(ack, told)
  <2>1. {d} \in SUBSET Addr
    BY <1>2
  <2>. QED
    BY <1>7, <2>1, SendError
<1>9. Valid(h, o) => Tame(ack, on)
  BY <1>2, <1>4, <1>7, RrepForward
<1>. HIDE DEF told, on
<1>. QED
  BY SMTT(30), <1>1, <1>6, <1>8, <1>9, TameTame

(* rrep_process() *)
LEMMA RrepProcess ==
    ASSUME NEW Z, NEW X, NEW h, Good(h, X, {}, Z), NEW rrep \in RREP, NEW src \in Addr,
           HopsFrom(src, rrep.dest_addr, rrep.hcnt), rrep.lifetime # 0 \/ rrep.dest_addr \in Z.endless,
           NEW ttl \in Nat, NEW silent, NEW told \in SUBSET Addr
    PROVE  Good(rrep_process(h, rrep, src, ttl, silent, told), X, {}, Z)
<1>. DEFINE d     == rrep.dest_addr
            e     == h.rt[d]
            hops  == rrep.hcnt + 1
            seqno == rrep.dest_seqno
            life  == rrep.lifetime
            i     == rt_table_insert(h, d, src, hops, seqno, life, "VALID", {})
            u     == rt_table_update(h, d, src, hops, seqno, e.flags)
            g     == IF e = NULL THEN i ELSE u
            rev   == h.rt[rrep.orig_addr] # NULL
            done  == rrep_deliver(g, rrep, e, ttl, rev)
<1>1. rrep_process(h, rrep, src, ttl, silent, told) \in {h, done, hello_start(done, silent, told)}
  BY DEF rrep_process
<1>2. d \in Addr /\ seqno \in Seqno /\ (life # 0 \/ d \in Z.endless)
  BY DEF RREP
<1>3. hops \in Hcnt /\ hops # 0 /\ (hops = 1 <=> src = d)
  BY HopsOf
<1>4. Good(g, X, {}, Z) /\ g.rt[d] # NULL
  <2>. HIDE DEF d, hops, seqno, life
  <2>1. e = NULL => Good(i, X, {}, Z) /\ i.rt[d] # NULL
    BY <1>2, <1>3, NewRoute
  <2>2. e # NULL => Good(u, X, {}, Z) /\ u.rt[d] # NULL
    BY SMTT(30), <1>2, <1>3, OtherRoute
  <2>. HIDE DEF i, u
  <2>. QED
    BY <2>1, <2>2
<1>. HIDE DEF g, e, rev
<1>5. g \in Daemon /\ TableSound(g)
  BY <1>4, SoundBasics
<1>6. Tame(g, done)
  BY <1>4, <1>5, RrepDeliver
<1>. HIDE DEF done
<1>7. Tame(done, hello_start(done, silent, told))
  BY <1>6, TameBasics, HelloStart
<1>. QED
  BY <1>1, <1>4, <1>6, <1>7, TameGood

-----------------------------------------------------------------------------
(* rt_table_invalidate() on entries that are as they should be is tame. *)
LEMMA InvalidateTame ==
    ASSUME NEW h \in Daemon, TableSound(h), NEW U \in SUBSET Addr, \A u \in U : h.rt[u] # NULL
    PROVE  LET g == rt_table_invalidate(h, U)
           IN  /\ Tame(h, g)
               /\ \A u \in U : Valid(h, u) => g.rt[u].rt_timer
<1>. DEFINE g == rt_table_invalidate(h, U)
<1>1. /\ \A u \in U : /\ h.rt[u] # NULL
                      /\ EntryBasic(u, h.rt[u])
                      /\ h.rt[u].state = "INVALID" => EntrySound(u, h.rt[u])
      /\ \A u \in Addr \ U : h.rt[u] # NULL => EntrySound(u, h.rt[u])
  BY DEF TableSound, EntrySound
<1>2. /\ g \in Daemon
      /\ SameRest(h, g)
      /\ TableSound(g)
      /\ \A u \in U : /\ g.rt[u] \in Entry /\ g.rt[u].state = "INVALID"
                      /\ Calm(h.rt[u], g.rt[u])
                      /\ h.rt[u].state = "VALID" => g.rt[u].rt_timer
      /\ \A u \in Addr \ U : g.rt[u] = h.rt[u]
      /\ \A r \in h.fib : r.dst \notin U => r \in g.fib
  BY <1>1, Invalidate
<1>. HIDE DEF g
<1>3. \A u \in Addr : (h.rt[u] # NULL) <=> (g.rt[u] # NULL)
  BY <1>2, NullAssumption
<1>4. \A u \in Addr : Valid(g, u) => u \notin U
  BY <1>2 DEF Valid
<1>5. \A u \in Addr : Valid(g, u) => /\ Valid(h, u)
                                     /\ Routed(h, u) => Routed(g, u)
                                     /\ Neighbour(h.rt[u]) => Neighbour(g.rt[u])
  BY <1>2, <1>4 DEF Valid, Routed
<1>6. Tame(h, g)
  <2>1. Mild(h, g)
    BY <1>2, <1>3, <1>5 DEF Mild, SameRest
  <2>2. \A u \in Addr : Calm(h.rt[u], g.rt[u])
    BY <1>2, CalmSame
  <2>. QED
    BY <2>1, <2>2 DEF Tame
<1>. QED
  BY <1>2, <1>6 DEF g, Valid

(* precursor_list_destroy() is tame. *)
LEMMA DestroyTame ==
    ASSUME NEW h \in Daemon, TableSound(h), NEW U \in SUBSET Addr, \A u \in U : h.rt[u] # NULL
    PROVE  LET g == precursor_list_destroy(h, U)
           IN  /\ Tame(h, g)
               /\ \A d \in Addr : h.rt[d] # NULL => g.rt[d].rt_timer = h.rt[d].rt_timer
<1>. DEFINE g == precursor_list_destroy(h, U)
<1>1. /\ g \in Daemon
      /\ SameRest(h, g)
      /\ g.fib = h.fib
      /\ TableSound(g)
      /\ \A d \in Addr : (h.rt[d] # NULL) <=> (g.rt[d] # NULL)
      /\ \A d \in Addr : h.rt[d] # NULL =>
            /\ g.rt[d].state = h.rt[d].state
            /\ g.rt[d].rt_timer = h.rt[d].rt_timer
            /\ Neighbour(h.rt[d]) => Neighbour(g.rt[d])
            /\ Calm(h.rt[d], g.rt[d])
  BY DestroyPrecursors
<1>. HIDE DEF g
<1>2. Tame(h, g)
  <2>1. Mild(h, g)
    BY <1>1 DEF Mild, SameRest, Valid, Routed
  <2>. QED
    BY <1>1, <2>1 DEF Tame
<1>. QED
  BY <1>1, <1>2 DEF g
=============================================================================
