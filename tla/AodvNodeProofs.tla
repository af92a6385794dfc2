--------------------------- MODULE AodvNodeProofs ---------------------------
(***************************************************************************)
(* The rest of the handlers keep the invariant Good: a RERR, the ends of   *)
(* the timers, and a packet of the kernel.  So it is the invariant of a    *)
(* daemon: after every callback, its tables, the buffer and what the       *)
(* kernel knows agree, and entries have the timers that end them.  And     *)
(* the buffer is a PacketBuffer.                                           *)
(***************************************************************************)
EXTENDS Sequences, AodvNode, AodvProtocolProofs, FiniteSetTheorems

(* How long the provers may take for a step. *)
USE ZenonT(20), SMTT(30)

(* rerr_process() gives entries the sequence numbers of the RERR. *)
LEMMA SetSeqnos ==
    ASSUME NEW h \in Daemon, TableSound(h), NEW U \in SUBSET Addr, \A u \in U : h.rt[u] # NULL,
           NEW s \in [Addr -> Seqno]
    PROVE  Tame(h, [h EXCEPT !.rt = [u \in Addr |->
                        IF u \in U THEN [h.rt[u] EXCEPT !.dest_seqno = s[u]] ELSE h.rt[u]]])
<1>. DEFINE R == [u \in Addr |-> IF u \in U THEN [h.rt[u] EXCEPT !.dest_seqno = s[u]] ELSE h.rt[u]]
            g == [h EXCEPT !.rt = R]
<1>1. ASSUME NEW u \in U
      PROVE  /\ R[u] \in Entry /\ R[u].state = h.rt[u].state /\ R[u].flags = h.rt[u].flags
             /\ R[u].hcnt = h.rt[u].hcnt /\ R[u].next_hop = h.rt[u].next_hop
             /\ R[u].handler = h.rt[u].handler /\ R[u].hello_timer = h.rt[u].hello_timer
             /\ R[u].rt_timer = h.rt[u].rt_timer
  <2>1. h.rt[u] \in Entry /\ R[u] = [h.rt[u] EXCEPT !.dest_seqno = s[u]] /\ s[u] \in Seqno
    BY EntryOf
  <2>. HIDE DEF R
  <2>. QED
    BY <2>1 DEF Entry
<1>2. \A u \in Addr \ U : R[u] = h.rt[u]
  OBVIOUS
<1>3. R \in [Addr -> Entry \cup {NULL}]
  BY <1>1, <1>2 DEF Daemon
<1>. HIDE DEF R
<1>4. g \in Daemon /\ g.rt = R /\ g.fib = h.fib /\ SameRest(h, g)
  BY <1>3, TableType
<1>. HIDE DEF g
<1>5. TableSound(g)
  BY SMTT(30), <1>1, <1>2, <1>4 DEF TableSound, EntrySound, EntryBasic
<1>6. \A u \in Addr : (h.rt[u] # NULL) <=> (g.rt[u] # NULL)
  BY <1>1, <1>2, <1>4, NullAssumption
<1>7. \A u \in Addr : Valid(g, u) => /\ Valid(h, u)
                                     /\ Routed(h, u) => Routed(g, u)
                                     /\ Neighbour(h.rt[u]) => Neighbour(g.rt[u])
  BY <1>1, <1>2, <1>4, <1>6 DEF Valid, Routed, Neighbour
<1>8. Tame(h, g)
  <2>1. Mild(h, g)
    BY <1>4, <1>5, <1>6, <1>7 DEF Mild, SameRest
  <2>2. \A u \in Addr : Calm(h.rt[u], g.rt[u])
    BY SMTT(30), <1>1, <1>2, <1>4, CalmSame
  <2>. QED
    BY <2>1, <2>2 DEF Tame
<1>. QED
  BY <1>8 DEF g, R

(* rerr_process() *)
LEMMA RerrProcess ==
    ASSUME NEW h \in Daemon, TableSound(h), NEW rerr \in RERR, NEW src
    PROVE  Tame(h, rerr_process(h, rerr, src))
<1>. DEFINE U == {u \in Addr : /\ \E x \in rerr.udests : x.addr = u
                               /\ Valid(h, u)
                               /\ h.rt[u].next_hop = src}
            seqno(u) == (CHOOSE x \in rerr.udests : x.addr = u).seqno
            s    == [u \in Addr |-> IF u \in U THEN seqno(u) ELSE 0]
            gone == IF rerr.n THEN h ELSE rt_table_invalidate(h, U)
            set  == [gone EXCEPT !.rt = [u \in Addr |->
                        IF u \in U THEN [gone.rt[u] EXCEPT !.dest_seqno = seqno(u)]
                        ELSE gone.rt[u]]]
            told == {u \in U : h.rt[u].precursors # {} /\ "REPAIR" \notin h.rt[u].flags}
            left == IF rerr.n THEN set ELSE precursor_list_destroy(set, U)
            prec == [u \in told |-> h.rt[u].precursors]
<1>1. rerr_process(h, rerr, src) = rerr_send(left, rerr.n, told, prec)
  BY DEF rerr_process
<1>2. /\ U \in SUBSET Addr
      /\ \A u \in U : h.rt[u] # NULL
      /\ told \in SUBSET Addr
  BY DEF Valid
<1>3. rerr.n \in BOOLEAN
  BY DEF RERR
<1>4. s \in [Addr -> Seqno]
  <2>1. ASSUME NEW u \in U PROVE seqno(u) \in Seqno
    <3>1. PICK x \in rerr.udests : x.addr = u
      OBVIOUS
    <3>2. (CHOOSE y \in rerr.udests : y.addr = u) \in rerr.udests
      BY <3>1
    <3>. QED
      BY <3>2 DEF RERR
  <2>. HIDE DEF seqno, U
  <2>. QED
    BY <2>1, ZeroSeqno
<1>5. set = [gone EXCEPT !.rt = [u \in Addr |->
                IF u \in U THEN [gone.rt[u] EXCEPT !.dest_seqno = s[u]] ELSE gone.rt[u]]]
  <2>. HIDE DEF seqno, U, gone
  <2>1. [u \in Addr |-> IF u \in U THEN [gone.rt[u] EXCEPT !.dest_seqno = seqno(u)] ELSE gone.rt[u]] =
        [u \in Addr |-> IF u \in U THEN [gone.rt[u] EXCEPT !.dest_seqno = s[u]] ELSE gone.rt[u]]
    OBVIOUS
  <2>. QED
    BY <2>1
<1>. HIDE DEF U, told, s, set, prec
<1>6. Tame(h, gone)
  BY <1>2, InvalidateTame, TameSame
<1>. HIDE DEF gone
<1>7. gone \in Daemon /\ TableSound(gone) /\ \A u \in U : gone.rt[u] # NULL
  BY <1>2, <1>6, TameBasics
<1>8. Tame(gone, set)
  BY <1>2, <1>4, <1>5, <1>7, SetSeqnos
<1>9. set \in Daemon /\ TableSound(set) /\ \A u \in U : set.rt[u] # NULL
  BY <1>2, <1>7, <1>8, TameBasics
<1>10. Tame(set, left)
  BY <1>2, <1>9, DestroyTame, TameSame
<1>. HIDE DEF left
<1>11. Tame(left, rerr_send(left, rerr.n, told, prec))
  <2>1. left \in Daemon /\ TableSound(left)
    BY <1>10, TameBasics
  <2>. QED
    BY <1>2, <1>3, <2>1, SendErrors
<1>. QED
  BY <1>1, <1>6, <1>8, <1>10, <1>11, TameTame


(* aodv_socket_process_packet(), for a message whose hop count is right *)
LEMMA ProcessPacket ==
    ASSUME NEW Z, NEW X, NEW h, Good(h, X, {}, Z), NEW m \in Message, NEW src \in Addr,
           m.type = "RREQ" => HopsFrom(src, m.orig_addr, m.hcnt),
           m.type = "RREP" => HopsFrom(src, m.dest_addr, m.hcnt),
           m.type = "RREP" => m.lifetime # 0 \/ m.dest_addr \in Z.endless,
           NEW ttl \in Nat, NEW life \in {0, 1}, NEW silent, NEW told \in SUBSET Addr
    PROVE  Good(aodv_socket_process_packet(h, m, src, ttl, life, silent, told), X, {}, Z)
<1>. DEFINE g == neighbor_add(h, src)
            done == aodv_socket_process_packet(h, m, src, ttl, life, silent, told)
<1>1. Good(g, X, {}, Z)
  BY NeighborAdd
<1>2. /\ m.type = "RREQ" => done = rreq_process(g, m, src, ttl, life, silent, told)
      /\ m.type = "RREP" => done = rrep_process(g, m, src, ttl, silent, told)
      /\ m.type = "RERR" => done = rerr_process(g, m, src)
      /\ m.type = "RREP_ACK" => done = rrep_ack_process(g, src)
  BY DEF aodv_socket_process_packet
<1>3. \/ m \in RREQ /\ m.type = "RREQ"
      \/ m \in RREP /\ m.type = "RREP"
      \/ m \in RERR /\ m.type = "RERR"
      \/ m.type = "RREP_ACK"
  BY DEF Message, RREQ, RREP, RERR, RREP_ack
<1>. HIDE DEF g, done
<1>4. CASE m \in RREQ /\ m.type = "RREQ"
  <2>1. Good(rreq_process(g, m, src, ttl, life, silent, told), X, {}, Z)
    BY <1>1, <1>4, RreqProcess
  <2>. QED
    BY <1>2, <1>4, <2>1 DEF done
<1>5. CASE m \in RREP /\ m.type = "RREP"
  <2>1. Good(rrep_process(g, m, src, ttl, silent, told), X, {}, Z)
    BY <1>1, <1>5, RrepProcess
  <2>. QED
    BY <1>2, <1>5, <2>1 DEF done
<1>6. CASE m \in RERR /\ m.type = "RERR"
  <2>1. Good(rerr_process(g, m, src), X, {}, Z)
    BY <1>1, <1>6, SoundBasics, RerrProcess, TameGood
  <2>. QED
    BY <1>2, <1>6, <2>1 DEF done
<1>7. CASE m.type = "RREP_ACK"
  <2>1. Good(rrep_ack_process(g, src), X, {}, Z)
    BY <1>1, SoundBasics, RrepAckProcess, TameGood
  <2>. QED
    BY <1>2, <1>7, <2>1 DEF done
<1>. QED
  BY <1>3, <1>4, <1>5, <1>6, <1>7

-----------------------------------------------------------------------------
(* An entry replaced by one that differs in timers, handler or precursors. *)
LEMMA LikeEntry ==
    ASSUME NEW h \in Daemon, TableSound(h), NEW d \in Addr, h.rt[d] # NULL, NEW e \in Entry,
           e.state = h.rt[d].state, e.hcnt = h.rt[d].hcnt, e.next_hop = h.rt[d].next_hop,
           \/ e.flags = h.rt[d].flags
           \/ e.flags = h.rt[d].flags \ {"REPAIR"},
           e.handler # "repair" \/ e.handler = h.rt[d].handler,
           e.hello_timer => h.rt[d].hello_timer
    PROVE  /\ Mild(h, [h EXCEPT !.rt[d] = e])
           /\ Calm(h.rt[d], e) => Tame(h, [h EXCEPT !.rt[d] = e])
<1>1. h.rt[d] \in Entry /\ EntrySound(d, h.rt[d])
  BY EntryOf
<1>2. EntryBasic(d, e) /\ (Neighbour(h.rt[d]) => Neighbour(e))
  BY <1>1 DEF EntrySound, EntryBasic, Neighbour
<1>3. EntrySound(d, e)
  BY <1>1, <1>2 DEF EntrySound
<1>4. Mild(h, [h EXCEPT !.rt[d] = e])
  BY <1>2, <1>3, MildEntry DEF Valid
<1>5. Calm(h.rt[d], e) => Tame(h, [h EXCEPT !.rt[d] = e])
  BY <1>2, <1>3, TameEntry DEF Valid
<1>. QED
  BY <1>4, <1>5

(* local_repair_timeout(): unless both options are on, the route was given *)
(* up before, so that the kernel loses none that is in use.                *)
LEMMA LocalRepairTimeout ==
    ASSUME NEW h \in Daemon, TableSound(h), NEW d \in Addr, h.rt[d] # NULL,
           Reliable => ~ Valid(h, d)
    PROVE  LET g == local_repair_timeout(h, d)
           IN  /\ Mild(h, g)
               /\ g.rt[d].rt_timer /\ ~ Waiting(g.rt[d])
               /\ \A a \in Addr \ {d} : g.rt[a] = h.rt[a]
<1>. DEFINE e    == h.rt[d]
            x    == [e EXCEPT !.flags = @ \ {"REPAIR"}]
            f    == [h EXCEPT !.rt[d] = x]
            off  == nl_send_del_route_msg(f, d, e.next_hop, e.hcnt)
            sole == {a \in Addr : e.precursors = {a}}
            told == aodv_socket_send(rerr_create(off, FALSE, {d}), rerr_dest(sole), 1)
            sent == IF e.precursors = {} THEN off ELSE told
            y    == [sent.rt[d] EXCEPT !.precursors = {}, !.handler = "delete", !.rt_timer = TRUE]
            done == [sent EXCEPT !.rt[d] = y]
<1>1. local_repair_timeout(h, d) = done
  BY DEF local_repair_timeout
<1>2. e \in Entry
  BY EntryOf
<1>3. /\ x \in Entry /\ x.state = e.state /\ x.hcnt = e.hcnt /\ x.next_hop = e.next_hop
      /\ x.flags = e.flags \ {"REPAIR"} /\ x.handler = e.handler /\ x.hello_timer = e.hello_timer
  BY <1>2 DEF Entry
<1>. HIDE DEF x
<1>4. Mild(h, f)
  BY <1>3, LikeEntry
<1>5. /\ f \in Daemon /\ TableSound(f) /\ f.rt[d] = x
      /\ \A a \in Addr \ {d} : f.rt[a] = h.rt[a]
  <2>1. f.rt[d] = x /\ \A a \in Addr \ {d} : f.rt[a] = h.rt[a]
    BY DEF Daemon
  <2>. HIDE DEF f
  <2>. QED
    BY <1>4, <2>1 DEF Mild
<1>. HIDE DEF f
<1>6. Reliable => ~ Valid(f, d)
  BY <1>3, <1>5 DEF Valid
<1>7. Tame(f, off) /\ off.rt = f.rt
  BY SMTT(30), <1>5, <1>6, DeleteRoute
<1>. HIDE DEF off
<1>8. off \in Daemon /\ TableSound(off)
  BY <1>7, TameBasics
<1>9. Tame(off, told) /\ told.rt = off.rt
  <2>1. {d} \in SUBSET Addr /\ rerr_dest(sole) \in Addr \cup {BROADCAST}
    BY ErrorDest
  <2>. HIDE DEF sole
  <2>. QED
    BY <1>8, <2>1, SendError
<1>. HIDE DEF told
<1>10. Mild(h, sent) /\ sent.rt = f.rt
  BY <1>4, <1>7, <1>9, MildMild DEF Tame
<1>. HIDE DEF sent
<1>11. sent \in Daemon /\ TableSound(sent) /\ sent.rt[d] # NULL
  BY <1>10 DEF Mild
<1>12. sent.rt[d] \in Entry
  BY <1>11, EntryOf
<1>13. /\ y \in Entry /\ y.state = sent.rt[d].state /\ y.hcnt = sent.rt[d].hcnt
       /\ y.next_hop = sent.rt[d].next_hop /\ y.flags = sent.rt[d].flags
       /\ y.handler = "delete" /\ y.hello_timer = sent.rt[d].hello_timer /\ y.rt_timer
  BY <1>12 DEF Entry
<1>. HIDE DEF y
<1>14. Mild(sent, done)
  BY <1>11, <1>13, LikeEntry
<1>15. done.rt[d] = y /\ \A a \in Addr \ {d} : done.rt[a] = sent.rt[a]
  BY <1>11 DEF Daemon
<1>16. ~ Waiting(y)
  BY <1>13 DEF Waiting
<1>. HIDE DEF done
<1>17. Mild(h, done)
  BY <1>10, <1>14, MildMild
<1>. QED
  BY <1>1, <1>5, <1>10, <1>13, <1>15, <1>16, <1>17

(* It gives the entry a timer that deletes it. *)
LEMMA RepairOver ==
    ASSUME NEW Z, NEW X, NEW d \in Addr, NEW h, Sound(h, X, {}), Steady(h, {d}, Z),
           h.rt[d] # NULL, Reliable => ~ Valid(h, d)
    PROVE  Good(local_repair_timeout(h, d), X, {}, Z)
<1>. DEFINE g == local_repair_timeout(h, d)
<1>1. h \in Daemon /\ TableSound(h)
  BY DEF Sound, Typed
<1>2. /\ Mild(h, g)
      /\ g.rt[d].rt_timer /\ ~ Waiting(g.rt[d])
      /\ \A a \in Addr \ {d} : g.rt[a] = h.rt[a]
  BY <1>1, LocalRepairTimeout
<1>. HIDE DEF g
<1>3. Sound(g, X, {}) /\ g.seek = h.seek /\ g.pq = h.pq
  BY <1>2, MildSound DEF Mild
<1>4. Steady(g, {}, Z)
  BY <1>2, <1>3 DEF Steady, Ticking, Runs
<1>. QED
  BY <1>3, <1>4 DEF Good, g

(* route_expire_timeout() *)
LEMMA RouteExpire ==
    ASSUME NEW h \in Daemon, TableSound(h), NEW d \in Addr, h.rt[d] # NULL
    PROVE  LET g == route_expire_timeout(h, d)
           IN  Tame(h, g) /\ (Valid(h, d) => g.rt[d].rt_timer)
<1>1. CASE h.rt[d].hcnt = 1
  <2>1. /\ \A u \in Addr \ {d} : h.rt[u] # NULL => EntrySound(u, h.rt[u])
        /\ EntryBasic(d, h.rt[d]) /\ EntrySound(d, h.rt[d])
    BY DEF TableSound, EntrySound
  <2>2. LET g == neighbor_link_break(h, d)
        IN  Tame(h, g) /\ (Valid(h, d) => g.rt[d].rt_timer)
    BY <1>1, <2>1, LinkBreak
  <2>. QED
    BY <1>1, <2>2 DEF route_expire_timeout
<1>2. CASE h.rt[d].hcnt # 1
  <2>. DEFINE U == {d}
              g == rt_table_invalidate(h, U)
  <2>1. U \in SUBSET Addr /\ (\A u \in U : h.rt[u] # NULL) /\ d \in U
    OBVIOUS
  <2>2. route_expire_timeout(h, d) = precursor_list_destroy(g, U)
    BY <1>2 DEF route_expire_timeout
  <2>. HIDE DEF U
  <2>3. Tame(h, g) /\ (Valid(h, d) => g.rt[d].rt_timer)
    BY <2>1, InvalidateTame
  <2>. HIDE DEF g
  <2>4. g \in Daemon /\ TableSound(g) /\ \A u \in U : g.rt[u] # NULL
    BY <2>1, <2>3, TameBasics
  <2>5. /\ Tame(g, precursor_list_destroy(g, U))
        /\ precursor_list_destroy(g, U).rt[d].rt_timer = g.rt[d].rt_timer
    BY <2>1, <2>4, DestroyTame
  <2>. QED
    BY <2>2, <2>3, <2>5, TameTame
<1>. QED
  BY <1>1, <1>2


(* The end of the timer of an entry: it is set again, the entry is gone,   *)
(* or a repair is under way.                                               *)
LEMMA RtTimeoutSound ==
    ASSUME NEW Z, NEW X, NEW h, Good(h, X, {}, Z), NEW d \in Addr, h.rt[d] # NULL
    PROVE  Good(rt_timeout(h, d), X, {}, Z)
<1>. DEFINE e == [h.rt[d] EXCEPT !.rt_timer = FALSE]
            g == [h EXCEPT !.rt[d] = e]
<1>1. h \in Daemon /\ TableSound(h)
  BY SoundBasics
<1>2. h.rt[d] \in Entry /\ EntrySound(d, h.rt[d])
  BY <1>1, EntryOf
<1>3. /\ h.rt[d].handler = "expire" => rt_timeout(h, d) = route_expire_timeout(g, d)
      /\ h.rt[d].handler = "delete" => rt_timeout(h, d) = rt_table_delete(g, d)
      /\ h.rt[d].handler = "repair" => rt_timeout(h, d) = local_repair_timeout(g, d)
  BY DEF rt_timeout
<1>4. /\ e \in Entry /\ e.state = h.rt[d].state /\ e.hcnt = h.rt[d].hcnt
      /\ e.next_hop = h.rt[d].next_hop /\ e.flags = h.rt[d].flags
      /\ e.handler = h.rt[d].handler /\ e.hello_timer = h.rt[d].hello_timer
  BY <1>2 DEF Entry
<1>. HIDE DEF e
<1>5. Mild(h, g) /\ g.rt[d] = e /\ \A a \in Addr \ {d} : g.rt[a] = h.rt[a]
  <2>1. Mild(h, g)
    BY <1>1, <1>4, LikeEntry
  <2>. QED
    BY <1>1, <2>1 DEF Daemon
<1>. HIDE DEF g
<1>6. /\ Sound(g, X, {}) /\ g \in Daemon /\ TableSound(g) /\ g.rt[d] # NULL
      /\ g.seek = h.seek /\ g.pq = h.pq
  BY <1>5, SoundBasics, MildSound DEF Mild
<1>7. Steady(g, {d}, Z)
  BY <1>5, <1>6 DEF Good, Steady, Ticking
<1>8. h.rt[d].handler = "expire" => Good(route_expire_timeout(g, d), X, {}, Z)
  <2>. DEFINE k == route_expire_timeout(g, d)
  <2>. SUFFICES ASSUME h.rt[d].handler = "expire"
                PROVE  Good(k, X, {}, Z)
    OBVIOUS
  <2>1. Tame(g, k) /\ (Valid(g, d) => k.rt[d].rt_timer)
    BY <1>6, RouteExpire
  <2>. HIDE DEF k
  <2>2. Sound(k, X, {}) /\ Steady(k, {d}, Z) /\ k.seek = g.seek
    <3>1. Sound(g, X, {d})
      BY <1>6 DEF Sound, BufferSound
    <3>2. Good(k, X, {d}, Z)
      BY <1>7, <2>1, <3>1, TameGood DEF Good
    <3>. QED
      BY <1>6, <2>1, <3>2, MildSound DEF Tame, Mild, Good
  <2>3. Calm(e, k.rt[d])
    BY <1>5, <1>6, <2>1 DEF Tame
  <2>4. Waiting(h.rt[d]) => "REPAIR" \in h.rt[d].flags /\ h.seek[d] # NULL
    BY DEF Good, Steady, Ticking
  <2>5. Waiting(e) <=> Waiting(h.rt[d])
    BY <1>4 DEF Waiting
  <2>6. Runs(k.rt[d])
    <3>1. CASE Valid(g, d)
      BY <2>1, <3>1 DEF Runs
    <3>2. CASE ~ Valid(g, d)
      <4>1. Waiting(e)
        BY <1>4, <1>5, <1>6, <3>2 DEF Valid, Waiting, Entry
      <4>. QED
        BY <2>3, <4>1 DEF Calm, Runs
    <3>. QED
      BY <3>1, <3>2
  <2>7. Waiting(k.rt[d]) => "REPAIR" \in k.rt[d].flags /\ k.seek[d] # NULL
    BY <1>4, <1>6, <2>2, <2>3, <2>4, <2>5 DEF Calm
  <2>8. Steady(k, {}, Z)
    BY <2>2, <2>6, <2>7 DEF Steady, Ticking
  <2>. QED
    BY <2>2, <2>8 DEF Good
<1>9. Good(rt_table_delete(g, d), X, {}, Z)
  BY <1>6, <1>7, Delete
<1>10. h.rt[d].handler = "repair" => Good(local_repair_timeout(g, d), X, {}, Z)
  <2>1. h.rt[d].handler = "repair" => ~ Valid(g, d)
    BY <1>2, <1>4, <1>5 DEF EntrySound, Valid
  <2>. QED
    BY <1>6, <1>7, <2>1, RepairOver
<1>11. h.rt[d].handler \in {"expire", "delete", "repair"}
  BY <1>2 DEF Entry
<1>. QED
  BY <1>3, <1>8, <1>9, <1>10, <1>11

(* The discovery of d is given up: its packets are dropped, then it is no  *)
(* longer sought.                                                          *)
LEMMA GiveUp ==
    ASSUME NEW Z, NEW X, NEW h, Good(h, X, {}, Z), NEW d \in Addr
    PROVE  LET g == [packet_queue_set_verdict(h, d, "DROP") EXCEPT !.seek[d] = NULL]
           IN  /\ Sound(g, X, {}) /\ Steady(g, {d}, Z)
               /\ g.rt = h.rt
               /\ \A a \in Addr \ {d} : g.seek[a] = h.seek[a]
<1>. DEFINE P == {p \in h.pq : p.dest_addr = d}
            f == release(h, P, "DROP")
            g == [f EXCEPT !.seek[d] = NULL]
<1>1. packet_queue_set_verdict(h, d, "DROP") = f
  BY DEF packet_queue_set_verdict
<1>2. \A x \in f.pq : \E p \in h.pq \ P : x.dest_addr = p.dest_addr
  BY SMTT(30), ReleaseLeaves DEF Good, Sound
<1>3. \A x \in f.pq : x.dest_addr # d
  BY <1>2
<1>4. Sound(f, X, {}) /\ Steady(f, {}, Z) /\ f.rt = h.rt /\ f.seek = h.seek
  <2>1. Sound(h, X, {}) /\ Steady(h, {}, Z) /\ Typed(h)
    BY DEF Good, Sound
  <2>2. MayLeave(h, P, "DROP", {}, {})
    BY DEF MayLeave
  <2>3. MayGo(h.pq, P)
    BY DEF MayGo
  <2>. HIDE DEF P
  <2>4. Sound(f, X, {}) /\ f.rt = h.rt /\ f.seek = h.seek
    BY SMTT(30), <2>1, <2>2, Release
  <2>5. Steady(f, {}, Z)
    BY <2>1, <2>3, ReleaseSteady
  <2>. QED
    BY <2>4, <2>5
<1>. HIDE DEF f
<1>5. /\ g \in Daemon
      /\ g.seek[d] = NULL
      /\ \A a \in Addr \ {d} : g.seek[a] = f.seek[a]
      /\ g.rt = f.rt /\ g.pq = f.pq /\ g.nfq = f.nfq
      /\ g.fib = f.fib /\ g.verdict = f.verdict
  BY SMTT(30), <1>4, SeekType DEF Sound, Typed
<1>. HIDE DEF g
<1>6. TableSound(g) /\ KernelSound(g) /\ \A a \in Addr : Valid(g, a) <=> Valid(f, a)
  BY <1>4, <1>5, TablesSame DEF Sound
<1>7. \A p \in f.pq : p.dest_addr \in Addr
  BY <1>4 DEF Sound, Typed, Daemon, QPkt
<1>8. BufferSound(g, X, {})
  BY SMTT(30), <1>3, <1>4, <1>5, <1>6, <1>7 DEF Sound, BufferSound
<1>9. Sound(g, X, {})
  BY <1>4, <1>5, <1>6, <1>8 DEF Sound, Typed, VerdictSound
<1>10. Steady(g, {d}, Z)
  BY <1>4, <1>5 DEF Steady, Ticking
<1>. QED
  BY <1>1, <1>4, <1>5, <1>9, <1>10 DEF g

(* route_discovery_timeout() *)
LEMMA DiscoveryTimeout ==
    ASSUME NEW Z, NEW X, NEW h, Good(h, X, {}, Z), NEW d \in Addr, h.seek[d] # NULL
    PROVE  Good(route_discovery_timeout(h, d), X, {}, Z)
<1>. DEFINE s     == h.seek[d]
            wider == expanding_ring_search /\ s.ttl < TTL_THRESHOLD
            ttl   == IF ~ expanding_ring_search THEN s.ttl
                     ELSE IF wider THEN s.ttl + TTL_INCREMENT ELSE NET_DIAMETER
            reqs  == IF wider THEN s.reqs ELSE s.reqs + 1
            again == [s EXCEPT !.ttl = ttl, !.reqs = reqs]
            f     == [h EXCEPT !.seek[d] = again]
            asked == rt_table_update_timeout(f, d)
            sent  == rreq_send(asked, d, again.dest_seqno, again.ttl, again.flags)
            none  == [packet_queue_set_verdict(h, d, "DROP") EXCEPT !.seek[d] = NULL]
<1>1. /\ s.reqs < RREQ_RETRIES => route_discovery_timeout(h, d) = sent
      /\ ~ (s.reqs < RREQ_RETRIES) =>
            route_discovery_timeout(h, d) =
               IF h.rt[d] # NULL /\ "REPAIR" \in h.rt[d].flags THEN local_repair_timeout(none, d)
               ELSE none
  BY DEF route_discovery_timeout
<1>2. h \in Daemon /\ s \in Seek
  BY SMTT(30), SoundBasics DEF Daemon
<1>3. ttl \in Nat /\ reqs \in Nat
  BY SMTT(30), <1>2, ProtocolAssumption DEF Seek
<1>. HIDE DEF ttl, reqs
<1>4. again \in Seek /\ again.dest_seqno \in Seqno /\ again.ttl \in Nat
  BY <1>2, <1>3 DEF Seek
<1>. HIDE DEF again
<1>5. Good(sent, X, {}, Z)
  <2>1. Good(h, X, {d}, Z) /\ MaySeek(h, d, Z)
    BY DEF Good, Sound, BufferSound, MaySeek, Steady
  <2>2. Good(f, X, {}, Z)
    BY <1>4, <2>1, StartSeek
  <2>. HIDE DEF f
  <2>3. Good(asked, X, {}, Z)
    BY <2>2, SoundBasics, UpdateTimeout, TameGood
  <2>. HIDE DEF asked
  <2>4. Tame(asked, sent)
    <3>. DEFINE seqno == again.dest_seqno
                hops  == again.ttl
                flags == again.flags
    <3>1. seqno \in Seqno /\ hops \in Nat
      BY <1>4
    <3>. HIDE DEF seqno, hops, flags
    <3>2. Tame(asked, rreq_send(asked, d, seqno, hops, flags))
      BY <2>3, <3>1, SoundBasics, RreqSend
    <3>. QED
      BY <3>2 DEF seqno, hops, flags
  <2>. QED
    BY <2>3, <2>4, TameGood
<1>. HIDE DEF sent, s
<1>6. /\ Sound(none, X, {}) /\ Steady(none, {d}, Z)
      /\ none.rt = h.rt
      /\ \A a \in Addr \ {d} : none.seek[a] = h.seek[a]
  BY SMTT(30), GiveUp
<1>. HIDE DEF none
<1>7. h.rt[d] # NULL /\ "REPAIR" \in h.rt[d].flags => Good(local_repair_timeout(none, d), X, {}, Z)
  <2>1. h.rt[d] # NULL /\ "REPAIR" \in h.rt[d].flags => (Reliable => ~ Valid(none, d))
    BY <1>6 DEF Sound, TableSound, EntrySound, Valid
  <2>. QED
    BY <1>6, <2>1, RepairOver
<1>8. ~ (h.rt[d] # NULL /\ "REPAIR" \in h.rt[d].flags) => Good(none, X, {}, Z)
  <2>1. Ticking(none, d, Z)
    BY <1>6 DEF Good, Steady, Ticking
  <2>2. ~ (h.rt[d] # NULL /\ "REPAIR" \in h.rt[d].flags) => Steady(none, {}, Z)
    BY <1>6, <2>1 DEF Steady, Ticking
  <2>. QED
    BY <1>6, <2>2 DEF Good
<1>. QED
  BY <1>1, <1>5, <1>7, <1>8


(* hello_timeout(): the neighbour is marked for repair before its link is  *)
(* broken, which makes the mark right.                                     *)
LEMMA HelloTimeoutTame ==
    ASSUME NEW h \in Daemon, TableSound(h), NEW d \in Addr, h.rt[d] # NULL, h.rt[d].hello_timer
    PROVE  Tame(h, hello_timeout(h, d))
<1>. DEFINE x == [h.rt[d] EXCEPT !.hello_timer = FALSE]
            g == [h EXCEPT !.rt[d] = x]
            y == [g.rt[d] EXCEPT !.flags = @ \cup {"REPAIR"}]
            m == [g EXCEPT !.rt[d] = y]
            near == local_repair /\ h.rt[d].hcnt <= MAX_REPAIR_TTL
            marked == IF near THEN m ELSE g
<1>1. hello_timeout(h, d) = IF Valid(h, d) /\ "UNIDIR" \notin h.rt[d].flags
                            THEN neighbor_link_break(marked, d) ELSE g
  BY DEF hello_timeout
<1>2. h.rt[d] \in Entry /\ EntrySound(d, h.rt[d])
  BY EntryOf
<1>3. /\ x \in Entry /\ x.state = h.rt[d].state /\ x.hcnt = h.rt[d].hcnt
      /\ x.next_hop = h.rt[d].next_hop /\ x.flags = h.rt[d].flags
      /\ x.handler = h.rt[d].handler /\ x.hello_timer = FALSE /\ x.rt_timer = h.rt[d].rt_timer
  BY <1>2 DEF Entry
<1>. HIDE DEF x
<1>4. Tame(h, g) /\ g.rt[d] = x
  <2>1. Calm(h.rt[d], x)
    BY <1>3, CalmSame
  <2>2. Tame(h, g)
    BY <1>3, <2>1, LikeEntry
  <2>. QED
    BY <2>2 DEF Daemon
<1>. HIDE DEF g
<1>5. g \in Daemon /\ TableSound(g) /\ g.rt[d] # NULL /\ EntrySound(d, x)
  BY <1>4, TameBasics DEF TableSound
<1>6. CASE ~ (Valid(h, d) /\ "UNIDIR" \notin h.rt[d].flags)
  BY <1>1, <1>4, <1>6
<1>7. CASE Valid(h, d) /\ "UNIDIR" \notin h.rt[d].flags /\ ~ near
  <2>1. /\ \A u \in Addr \ {d} : g.rt[u] # NULL => EntrySound(u, g.rt[u])
        /\ EntryBasic(d, g.rt[d]) /\ EntrySound(d, g.rt[d])
    BY <1>4, <1>5 DEF TableSound, EntrySound
  <2>2. Tame(g, neighbor_link_break(g, d))
    BY <1>5, <2>1, LinkBreak
  <2>3. marked = g
    BY <1>7
  <2>. HIDE DEF marked, near
  <2>. QED
    BY <1>1, <1>4, <1>7, <2>2, <2>3, TameTame
<1>8. CASE Valid(h, d) /\ "UNIDIR" \notin h.rt[d].flags /\ near
  <2>1. /\ y \in Entry /\ y.state = x.state /\ y.hcnt = x.hcnt /\ y.next_hop = x.next_hop
        /\ y.flags = x.flags \cup {"REPAIR"} /\ y.handler = x.handler /\ y.hello_timer = FALSE
        /\ y.rt_timer = x.rt_timer
    BY <1>3, <1>4 DEF Entry
  <2>2. marked = m
    BY <1>8
  <2>3. local_repair
    BY <1>8
  <2>. HIDE DEF y, marked, near
  <2>4. /\ m \in Daemon /\ m.rt[d] = y /\ \A a \in Addr \ {d} : m.rt[a] = g.rt[a]
        /\ m.seek = g.seek /\ m.pq = g.pq /\ m.nfq = g.nfq /\ m.fib = g.fib
        /\ m.verdict = g.verdict /\ m.buf = g.buf
    BY SMTT(30), <1>5, <2>1, EntryType
  <2>. HIDE DEF m
  <2>5. /\ m.rt[d] # NULL
        /\ \A u \in Addr \ {d} : m.rt[u] # NULL => EntrySound(u, m.rt[u])
    BY <1>5, <2>1, <2>4, NullAssumption DEF TableSound
  <2>6. EntryBasic(d, m.rt[d])
    BY SMTT(30), <1>5, <2>1, <2>3, <2>4 DEF EntrySound, EntryBasic
  <2>7. EntrySound(d, m.rt[d]) \/ (m.rt[d].hcnt = 1 /\ Valid(m, d))
    <3>1. CASE Reliable
      <4>1. h.rt[d].hcnt = 1
        BY <1>2, <2>3, <3>1 DEF EntrySound
      <4>. QED
        BY <1>3, <1>8, <2>1, <2>4, <2>5, <4>1 DEF Valid
    <3>2. CASE ~ Reliable
      BY <1>5, <2>1, <2>4, <2>6, <3>2 DEF EntrySound
    <3>. QED
      BY <3>1, <3>2
  <2>. DEFINE k == neighbor_link_break(m, d)
  <2>8. Tame(m, k)
    BY <2>4, <2>5, <2>6, <2>7, LinkBreak
  <2>9. hello_timeout(h, d) = k
    BY <1>1, <1>8, <2>2
  <2>. HIDE DEF k
  <2>10. \A a \in Addr : /\ (m.rt[a] # NULL) <=> (g.rt[a] # NULL)
                         /\ Valid(m, a) => Valid(g, a)
                         /\ Routed(g, a) => Routed(m, a)
                         /\ Neighbour(g.rt[a]) => Neighbour(m.rt[a])
    BY SMTT(30), <1>4, <1>5, <2>1, <2>4, <2>5 DEF Valid, Routed, Neighbour
  <2>11. Tame(g, k)
    <3>1. Mild(g, k)
      BY <2>4, <2>8, <2>10 DEF Tame, Mild
    <3>2. Calm(x, y) /\ \A e : Calm(e, e)
      BY <2>1, CalmSame DEF Calm, Runs, Waiting
    <3>3. \A a \in Addr : Calm(g.rt[a], m.rt[a])
      BY <1>4, <2>4, <3>2
    <3>4. \A a \in Addr : g.rt[a] # NULL => Calm(g.rt[a], k.rt[a])
      BY <2>8, <2>10, <3>3 DEF Tame, Calm
    <3>. QED
      BY <3>1, <3>4 DEF Tame
  <2>. QED
    BY <1>4, <2>9, <2>11, TameTame
<1>. QED
  BY <1>6, <1>7, <1>8

(* rrep_ack_timeout() *)
LEMMA AckTimeoutTame ==
    ASSUME NEW h \in Daemon, TableSound(h), NEW d \in Addr, h.rt[d] # NULL
    PROVE  Tame(h, rrep_ack_timeout(h, d))
<1>. DEFINE f == [h EXCEPT !.rt[d].ack_timer = FALSE]
            B == h.blacklist \cup {d}
            g == [f EXCEPT !.blacklist = B]
<1>1. rrep_ack_timeout(h, d) = g
  BY DEF rrep_ack_timeout, Daemon
<1>2. Tame(h, f) /\ f.blacklist = h.blacklist
  BY AckTimer DEF Daemon
<1>3. B \in SUBSET Addr
  BY DEF Daemon
<1>. HIDE DEF f, B
<1>4. /\ g \in Daemon
      /\ g.rt = f.rt /\ g.seek = f.seek /\ g.pq = f.pq /\ g.nfq = f.nfq
      /\ g.verdict = f.verdict /\ g.buf = f.buf /\ g.fib = f.fib
  BY SMTT(30), <1>2, <1>3, TameBasics DEF Daemon
<1>. HIDE DEF g
<1>5. \A a \in Addr : Routed(f, a) => Routed(g, a)
  BY <1>4 DEF Routed
<1>6. Tame(f, g)
  BY <1>2, <1>4, <1>5, TameBasics, TameRest
<1>. QED
  BY <1>1, <1>2, <1>6, TameTame

-----------------------------------------------------------------------------
(* rt_table_update_route_timeouts() *)
LEMMA Touch ==
    ASSUME NEW h \in Daemon, TableSound(h), NEW d \in Addr
    PROVE  Tame(h, touch(h, d))
<1>. DEFINE e    == h.rt[d]
            next == e.next_hop
            x    == rt_table_update_timeout(h, d)
            g    == IF e.hcnt # 1 \/ e.hello_timer THEN x ELSE h
            y    == rt_table_update_timeout(g, next)
<1>1. CASE ~ Valid(h, d)
  BY <1>1, TameSame DEF touch
<1>2. CASE Valid(h, d)
  <2>1. touch(h, d) \in {g, y}
    BY <1>2 DEF touch
  <2>2. next \in Addr
    BY <1>2, EntryOf DEF Valid
  <2>3. Tame(h, g)
    BY UpdateTimeout, TameSame
  <2>. HIDE DEF g, next
  <2>4. Tame(g, y)
    BY <2>2, <2>3, TameBasics, UpdateTimeout
  <2>. QED
    BY SMTT(30), <2>1, <2>3, <2>4, TameTame
<1>. QED
  BY <1>1, <1>2

(* send_rerr_for_unknown_dest() *)
LEMMA UnknownDest ==
    ASSUME NEW h \in Daemon, TableSound(h), NEW src \in Addr, NEW dest \in Addr
    PROVE  Tame(h, send_rerr_for_unknown_dest(h, src, dest))
<1>. DEFINE f == rt_table_update_timeout(h, dest)
            U == {dest}
            to == IF Valid(h, src) THEN h.rt[src].next_hop ELSE BROADCAST
            g == aodv_socket_send(rerr_create(f, FALSE, U), to, 1)
<1>1. send_rerr_for_unknown_dest(h, src, dest) = g
  BY DEF send_rerr_for_unknown_dest
<1>2. to \in Addr \cup {BROADCAST} /\ U \in SUBSET Addr
  BY EntryOf DEF Valid
<1>3. Tame(h, f)
  BY UpdateTimeout
<1>. HIDE DEF f, to, U
<1>4. Tame(f, g)
  BY <1>2, <1>3, TameBasics, SendError
<1>. QED
  BY <1>1, <1>3, <1>4, TameTame


-----------------------------------------------------------------------------
(* nfqueue_packet_cb() gives the verdict on a packet that is not buffered. *)
LEMMA DirectVerdict ==
    ASSUME NEW Z, NEW p \in PktId, NEW dest \in Addr, NEW k, NEW h, Good(h, {p}, {}, Z),
           NEW v \in {"ACCEPT", "DROP"}, v = "ACCEPT" => Valid(h, dest)
    PROVE  LET pkt == [packet_id |-> p, dest_addr |-> dest, n |-> k]
           IN  Good(nfqueue_set_packet_verdict(h, {pkt}, v), {}, {}, Z)
<1>. DEFINE pkt == [packet_id |-> p, dest_addr |-> dest, n |-> k]
            P == {pkt}
            g == nfqueue_set_packet_verdict(h, P, v)
<1>1. /\ h \in Daemon /\ Finite(h.pq) /\ TableSound(h) /\ KernelSound(h)
      /\ VerdictSound(h) /\ BufferSound(h, {p}, {})
  BY DEF Good, Sound, Typed
<1>2. \A q \in P : q.packet_id = p /\ q.dest_addr = dest
  BY SMTT(30)
<1>3. {q.packet_id : q \in P} = {p}
  BY SMTT(30)
<1>. HIDE DEF P
<1>4. /\ g \in Daemon /\ VerdictSound(g)
      /\ g.nfq = h.nfq \ {q.packet_id : q \in P}
      /\ g.rt = h.rt /\ g.seek = h.seek /\ g.pq = h.pq /\ g.fib = h.fib
  <2>1. \A q \in P : q.packet_id \in PktId /\ q.dest_addr \in Addr
    BY <1>2
  <2>2. v = "ACCEPT" => \A q \in P : Valid(h, q.dest_addr)
    BY <1>2
  <2>. QED
    BY <1>1, <2>1, <2>2, SetVerdict, SMTT(30)
<1>. HIDE DEF g
<1>5. /\ TableSound(g) /\ KernelSound(g)
      /\ \A d \in Addr : Valid(g, d) <=> Valid(h, d)
  BY <1>1, <1>4, TablesSame
<1>6. BufferSound(g, {}, {})
  BY <1>1, <1>3, <1>4, <1>5, SMTT(30) DEF BufferSound
<1>7. Sound(g, {}, {})
  BY <1>1, <1>4, <1>5, <1>6, SMTT(30) DEF Sound, Typed
<1>8. Steady(g, {}, Z)
  BY <1>4, SteadySame DEF Good
<1>. QED
  BY <1>7, <1>8 DEF g, P, Good

(* A packet that is none of the daemon's business leaves NFQUEUE. *)
LEMMA Exempt ==
    ASSUME NEW Z, NEW p \in PktId, NEW h, Good(h, {p}, {}, Z)
    PROVE  Good([h EXCEPT !.nfq = @ \ {p}], {}, {}, Z)
<1>. DEFINE N == h.nfq \ {p}
            g == [h EXCEPT !.nfq = N]
<1>1. /\ h \in Daemon /\ Finite(h.pq) /\ TableSound(h) /\ KernelSound(h)
      /\ VerdictSound(h) /\ BufferSound(h, {p}, {})
  BY DEF Good, Sound, Typed
<1>2. N \in SUBSET PktId
  BY <1>1 DEF Daemon
<1>3. [h EXCEPT !.nfq = @ \ {p}] = g
  OBVIOUS
<1>. HIDE DEF N
<1>4. /\ g \in Daemon /\ g.verdict = h.verdict /\ g.nfq = N
      /\ g.rt = h.rt /\ g.seek = h.seek /\ g.pq = h.pq /\ g.fib = h.fib
  BY <1>1, <1>2 DEF Daemon
<1>. HIDE DEF g
<1>5. /\ TableSound(g) /\ KernelSound(g)
      /\ \A d \in Addr : Valid(g, d) <=> Valid(h, d)
  BY <1>1, <1>4, TablesSame
<1>6. BufferSound(g, {}, {})
  BY SMTT(30), <1>1, <1>4, <1>5 DEF BufferSound, N
<1>7. VerdictSound(g)
  BY <1>1, <1>4 DEF VerdictSound
<1>8. Steady(g, {}, Z)
  BY <1>4, SteadySame DEF Good
<1>. QED
  BY <1>1, <1>3, <1>4, <1>5, <1>6, <1>7, <1>8 DEF Good, Sound, Typed

(* packet_input_handle_packet() *)
LEMMA PacketInput ==
    ASSUME NEW Z, NEW p \in PktId, NEW h, Good(h, {p}, {}, Z), NEW src \in Addr, NEW dest \in Addr,
           NEW forward \in BOOLEAN, NEW exempt \in BOOLEAN,
           NEW flags \in SUBSET {"GRATUITOUS"}, \A q \in Z.line : q.packet_id # p
    PROVE  Good(packet_input_handle_packet(h, p, src, dest, forward, exempt, flags), {}, {}, Z)
<1>. DEFINE f == touch(h, dest)
            g == touch(f, src)
            e == g.rt[dest]
            repair  == e # NULL /\ "REPAIR" \in e.flags
            noroute == ~ Valid(g, dest) \/ (e.hcnt = 1 /\ "UNIDIR" \in e.flags)
            pkt     == [packet_id |-> p, dest_addr |-> dest, n |-> 0]
            queued  == packet_queue_add(g, p, dest)
            told    == send_rerr_for_unknown_dest(g, src, dest)
            done    == packet_input_handle_packet(h, p, src, dest, forward, exempt, flags)
<1>1. done = IF exempt THEN [h EXCEPT !.nfq = @ \ {p}]
             ELSE IF ~ noroute THEN nfqueue_set_packet_verdict(g, {pkt}, "ACCEPT")
             ELSE IF repair THEN rreq_local_repair(queued, dest, src)
             ELSE IF forward THEN nfqueue_set_packet_verdict(told, {pkt}, "DROP")
             ELSE rreq_route_discovery(queued, dest, flags)
  BY DEF packet_input_handle_packet
<1>. HIDE DEF done
<1>2. Good(g, {p}, {}, Z)
  <2>1. h \in Daemon /\ TableSound(h)
    BY SoundBasics
  <2>2. Tame(h, f)
    BY <2>1, Touch
  <2>. HIDE DEF f
  <2>3. Tame(f, g)
    BY <2>2, TameBasics, Touch
  <2>. HIDE DEF g
  <2>. QED
    BY <2>2, <2>3, TameGood
<1>. HIDE DEF g
<1>3. CASE exempt
  BY SMTT(30), <1>1, <1>3, Exempt DEF done
<1>4. CASE ~ exempt /\ ~ noroute
  <2>1. Valid(g, dest)
    BY <1>4
  <2>2. done = nfqueue_set_packet_verdict(g, {pkt}, "ACCEPT")
    BY <1>1, <1>4
  <2>. QED
    BY <1>2, <2>1, <2>2, DirectVerdict DEF done
<1>5. noroute => MaySeek(g, dest, Z)
  BY <1>2 DEF MaySeek, Neighbour, Good, Steady
<1>6. Good(queued, {}, {dest}, Z) /\ queued.rt = g.rt
  <2>1. Sound(g, {p}, {}) /\ Steady(g, {}, Z)
    BY <1>2 DEF Good
  <2>2. Sound(queued, {}, {dest}) /\ queued.rt = g.rt /\ queued.seek = g.seek
    BY <2>1, AddPacket
  <2>3. Steady(queued, {}, Z)
    BY <2>1, AddSteady
  <2>. HIDE DEF queued
  <2>4. Steady(queued, {dest}, Z)
    BY <2>3 DEF Steady
  <2>. QED
    BY <2>2, <2>4 DEF Good
<1>7. MaySeek(g, dest, Z) => MaySeek(queued, dest, Z)
  BY <1>6 DEF MaySeek, Valid, Ticking
<1>. HIDE DEF queued
<1>8. CASE ~ exempt /\ noroute /\ repair
  <2>1. queued.rt[dest] # NULL /\ "REPAIR" \in queued.rt[dest].flags
    BY <1>6, <1>8
  <2>2. MaySeek(queued, dest, Z)
    BY <1>5, <1>7, <1>8
  <2>3. done = rreq_local_repair(queued, dest, src)
    BY <1>1, <1>8
  <2>. QED
    BY <1>6, <2>1, <2>2, <2>3, LocalRepair DEF done
<1>9. CASE ~ exempt /\ noroute /\ ~ repair /\ forward
  <2>1. Tame(g, told)
    BY <1>2, SoundBasics, UnknownDest
  <2>. HIDE DEF told
  <2>2. Good(told, {p}, {}, Z)
    BY <1>2, <2>1, TameGood
  <2>3. done = nfqueue_set_packet_verdict(told, {pkt}, "DROP")
    BY <1>1, <1>9
  <2>4. \A v \in {"ACCEPT", "DROP"} :
           (v = "ACCEPT" => Valid(told, dest)) =>
              Good(nfqueue_set_packet_verdict(told, {pkt}, v), {}, {}, Z)
    BY <2>2, DirectVerdict
  <2>. QED
    BY <2>3, <2>4, SMTT(30) DEF done
<1>10. CASE ~ exempt /\ noroute /\ ~ repair /\ ~ forward
  <2>1. MaySeek(queued, dest, Z)
    BY <1>5, <1>7, <1>10
  <2>2. done = rreq_route_discovery(queued, dest, flags)
    BY <1>1, <1>10
  <2>. QED
    BY <1>6, <2>1, <2>2, RouteDiscovery DEF done
<1>. QED
  BY <1>3, <1>4, <1>8, <1>9, <1>10 DEF done

-----------------------------------------------------------------------------
(* The daemon                                                              *)

(* The destinations that a RREP gave a route with no lifetime. *)
Endless ==
    {r.msg.dest_addr : r \in {q \in Received : q.msg.type = "RREP" /\ q.msg.lifetime = 0}}

(* The line was empty at first. *)
Inv == Good(node, {}, {}, [endless |-> Endless, line |-> {}])

(* What the lemmas about the actions start from: the line was Z.line some  *)
(* time ago, and the packets of that time are still in NFQUEUE.            *)
Begun(Z) ==
    /\ Good(node, {}, {}, Z)
    /\ Z.endless = Endless
    /\ \A p \in Z.line : p.packet_id \in node.nfq

(* Good speaks of these fields only. *)
LEMMA Like ==
    ASSUME NEW h, NEW g \in Daemon, NEW Z, NEW X, NEW D, Good(h, X, D, Z), VerdictSound(g),
           g.rt = h.rt, g.seek = h.seek, g.pq = h.pq, g.nfq = h.nfq, g.fib = h.fib
    PROVE  Good(g, X, D, Z)
<1>1. TableSound(g) /\ KernelSound(g) /\ \A d \in Addr : Valid(g, d) <=> Valid(h, d)
  BY TablesSame DEF Good, Sound
<1>2. BufferSound(g, X, D)
  BY <1>1 DEF Good, Sound, BufferSound
<1>3. Steady(g, D, Z)
  BY SteadySame DEF Good
<1>. QED
  BY <1>1, <1>2, <1>3 DEF Good, Sound, Typed

(* The main loop between two callbacks. *)
LEMMA IdleSound ==
    ASSUME NEW Z, NEW h, Good(h, {}, {}, Z)
    PROVE  /\ Good(Idle(h), {}, {}, Z)
           /\ Idle(h).rt = h.rt /\ Idle(h).seek = h.seek /\ Idle(h).pq = h.pq
           /\ Idle(h).nfq = h.nfq /\ Idle(h).fib = h.fib
           /\ Idle(h).records = h.records /\ Idle(h).blacklist = h.blacklist
<1>. DEFINE g == Idle(h)
<1>1. h \in Daemon
  BY SoundBasics
<1>2. /\ g \in Daemon /\ g.verdict = {}
      /\ g.rt = h.rt /\ g.seek = h.seek /\ g.pq = h.pq /\ g.nfq = h.nfq /\ g.fib = h.fib
      /\ g.records = h.records /\ g.blacklist = h.blacklist
  BY <1>1 DEF Idle, Daemon
<1>. HIDE DEF g
<1>3. VerdictSound(g)
  BY <1>2 DEF VerdictSound
<1>4. Good(g, {}, {}, Z)
  BY <1>2, <1>3, Like
<1>. QED
  BY <1>2, <1>4 DEF g

(* The end of a callback. *)
LEMMA ReturnedSound ==
    ASSUME NEW Z, NEW h, Good(h, {}, {}, Z)
    PROVE  Good(Returned(h), {}, {}, Z)
<1>. DEFINE g == Returned(h)
<1>1. h \in Daemon
  BY SoundBasics
<1>2. /\ g \in Daemon /\ g.verdict = h.verdict
      /\ g.rt = h.rt /\ g.seek = h.seek /\ g.pq = h.pq /\ g.nfq = h.nfq /\ g.fib = h.fib
  BY <1>1 DEF Returned, Daemon
<1>. HIDE DEF g
<1>3. VerdictSound(g)
  BY <1>2 DEF Good, Sound, VerdictSound
<1>4. Good(g, {}, {}, Z)
  BY <1>2, <1>3, Like
<1>. QED
  BY <1>4 DEF g

(* Some timer is gone that Sound says nothing of. *)
LEMMA FieldsSound ==
    ASSUME NEW Z, NEW h, Good(h, {}, {}, Z),
           NEW R \in SUBSET (Addr \X (0 .. RREQ_ID_MAX)), NEW B \in SUBSET Addr, NEW w \in BOOLEAN
    PROVE  /\ Good([h EXCEPT !.records = R], {}, {}, Z)
           /\ Good([h EXCEPT !.blacklist = B], {}, {}, Z)
           /\ Good([h EXCEPT !.wait_on_reboot = w], {}, {}, Z)
<1>. DEFINE r == [h EXCEPT !.records = R]
            b == [h EXCEPT !.blacklist = B]
            z == [h EXCEPT !.wait_on_reboot = w]
<1>1. h \in Daemon
  BY SoundBasics
<1>2. \A g \in {r, b, z} :
         /\ g \in Daemon /\ g.verdict = h.verdict
         /\ g.rt = h.rt /\ g.seek = h.seek /\ g.pq = h.pq /\ g.nfq = h.nfq /\ g.fib = h.fib
  BY SMTT(30), <1>1 DEF Daemon
<1>. HIDE DEF r, b, z
<1>3. ASSUME NEW g \in {r, b, z} PROVE Good(g, {}, {}, Z)
  <2>1. VerdictSound(g)
    BY <1>2 DEF Good, Sound, VerdictSound
  <2>. QED
    BY <1>2, <2>1, Like
<1>. QED
  BY <1>3 DEF r, b, z

(* The facts about finite sets that the packet buffer needs. *)
LEMMA CountingHolds == Counting
<1>1. \A S : IsFiniteSet(S) => Cardinality(S) \in Nat
  BY FS_CardinalityType
<1>2. \A S, T : IsFiniteSet(S) /\ T \subseteq S => IsFiniteSet(T)
  BY FS_Subset
<1>3. \A S, x : IsFiniteSet(S) => IsFiniteSet(S \cup {x})
  BY FS_AddElement
<1>4. ASSUME NEW S, NEW T, NEW f, IsFiniteSet(S), \A y \in T : \E x \in S : y = f[x]
      PROVE  IsFiniteSet(T)
  <2>. DEFINE R == {x \in S : f[x] \in T}  g == [x \in R |-> f[x]]
  <2>1. g \in Surjection(R, T)
    BY <1>4 DEF Surjection
  <2>2. IsFiniteSet(R)
    BY <1>2, <1>4
  <2>. QED
    BY <2>1, <2>2, FS_Surjection
<1>. QED
  BY <1>1, <1>2, <1>3, <1>4 DEF Counting

(* And those about their sizes. *)
LEMMA SizesHold == Sizes
<1>1. ASSUME NEW S, NEW T, IsFiniteSet(S), T \subseteq S, T # S
      PROVE  Cardinality(T) < Cardinality(S)
  <2>1. /\ Cardinality(T) <= Cardinality(S) /\ Cardinality(S) # Cardinality(T)
        /\ Cardinality(T) \in Nat /\ Cardinality(S) \in Nat
    BY <1>1, FS_Subset, FS_CardinalityType
  <2>. QED
    BY <2>1
<1>2. \A S, x : IsFiniteSet(S) /\ x \notin S => Cardinality(S \cup {x}) = Cardinality(S) + 1
  BY FS_AddElement
<1>3. ASSUME NEW S, NEW f, IsFiniteSet(S), \A x, y \in S : f[x] = f[y] => x = y
      PROVE  Cardinality({f[x] : x \in S}) = Cardinality(S)
  <2>. DEFINE T == {f[x] : x \in S}  g == [x \in S |-> f[x]]
  <2>1. g \in Surjection(S, T)
    BY DEF Surjection
  <2>2. g \in Injection(S, T)
    BY <1>3 DEF Injection, IsInjective
  <2>. HIDE DEF T, g
  <2>3. Cardinality(T) = Cardinality(S)
    BY <1>3, <2>1, <2>2, FS_Surjection
  <2>. QED
    BY <2>3 DEF T
<1>4. ASSUME NEW S, NEW f, IsFiniteSet(S), \A x, y \in S : f[x] = f[y] => x = y,
             \A x \in S : f[x] \in 1 .. Cardinality(S)
      PROVE  \A i \in 1 .. Cardinality(S) : \E x \in S : f[x] = i
  <2>. DEFINE T == 1 .. Cardinality(S)  g == [x \in S |-> f[x]]
  <2>1. Cardinality(S) \in Nat
    BY <1>4, FS_CardinalityType
  <2>2. IsFiniteSet(T) /\ Cardinality(T) = Cardinality(S)
    BY SMTT(30), <2>1, FS_Interval
  <2>3. g \in Injection(S, T)
    BY <1>4 DEF Injection, IsInjective
  <2>4. \A x \in S : g[x] = f[x]
    OBVIOUS
  <2>. HIDE DEF T, g
  <2>5. g \in Surjection(S, T)
    BY <2>2, <2>3, FS_Injection
  <2>6. \A i \in T : \E x \in S : g[x] = i
    BY <2>5 DEF Surjection
  <2>. QED
    BY <2>4, <2>6 DEF T
<1>. QED
  BY SMTT(30), <1>1, <1>2, <1>3, <1>4 DEF Sizes

(* host_init() starts with nothing but the routes it finds in the kernel. *)
LEMMA BootSound ==
    ASSUME NEW Z, NEW h, h.nfq = {}, h.fib \in SUBSET KernelRoute
    PROVE  Good(Boot(h), {}, {}, Z) /\ Boot(h).pq = {}
<1>. DEFINE fresh == [self |-> Self, seqno |-> 1, rreq_id |-> 0,
                  rt |-> [d \in Addr |-> NULL], seek |-> [d \in Addr |-> NULL],
                  pq |-> {}, nfq |-> h.nfq, fib |-> h.fib, records |-> {}, blacklist |-> {},
                  wait_on_reboot |-> WaitOnReboot, hello_timer |-> FALSE,
                  buf |-> NULL, out |-> {}, verdict |-> {}]
            T == {}
<1>1. Boot(h) = IF optimized_hellos THEN fresh ELSE hello_start(fresh, TRUE, T)
  BY DEF Boot
<1>2. 1 \in Seqno /\ 0 \in 0 .. RREQ_ID_MAX
  BY SMTT(30), TablesAssumption DEF Seqno
<1>3. /\ fresh \in Daemon
      /\ fresh.pq = {} /\ fresh.nfq = {} /\ fresh.verdict = {}
      /\ \A d \in Addr : fresh.rt[d] = NULL /\ fresh.seek[d] = NULL
  BY <1>2, NodeAssumption DEF Daemon
<1>. HIDE DEF fresh
<1>4. TableSound(fresh) /\ KernelSound(fresh) /\ VerdictSound(fresh)
  BY <1>3 DEF TableSound, KernelSound, VerdictSound, Valid
<1>5. BufferSound(fresh, {}, {})
  BY <1>3 DEF BufferSound
<1>6. Finite(fresh.pq)
  BY <1>3, FS_EmptySet, CountingHolds DEF Finite
<1>7. Good(fresh, {}, {}, Z)
  BY <1>3, <1>4, <1>5, <1>6, FlowsEmpty DEF Good, Sound, Typed, Steady, Ticking
<1>8. T \in SUBSET Addr
  OBVIOUS
<1>. HIDE DEF T
<1>9. Tame(fresh, hello_start(fresh, TRUE, T))
  BY <1>3, <1>4, <1>8, HelloStart
<1>10. hello_start(fresh, TRUE, T).pq = {}
  BY <1>3, <1>9 DEF Tame, Mild
<1>. QED
  BY <1>1, <1>3, <1>7, <1>9, <1>10, TameGood


-----------------------------------------------------------------------------
(* The actions of the daemon keep the invariant: first, messages. *)
LEMMA ToldType ==
    ASSUME NEW h, NEW T \in Told(h)
    PROVE  T \in SUBSET Addr
BY DEF Told, hello_neighbors

(* aodv_socket_read() *)
LEMMA ReceiveSound ==
    ASSUME NEW Z, Begun(Z), Receive
    PROVE  Good(node', {}, {}, Z)
<1>1. PICK r \in Received, life \in Lifetimes, x \in HelloChoice(node) :
         node' = Returned(aodv_socket_process_packet(Idle(node), r.msg, r.src, r.ttl,
                                                     life, x[1], x[2]))
  BY DEF Receive
<1>. DEFINE h == Idle(node)
            m == r.msg
            src == r.src
            ttl == r.ttl
            silent == x[1]
            T == x[2]
            g == aodv_socket_process_packet(h, m, src, ttl, life, silent, T)
<1>2. Good(h, {}, {}, Z)
  BY IdleSound DEF Begun
<1>3. m \in Message /\ src \in Addr /\ ttl \in Nat /\ life \in {0, 1}
  BY NodeAssumption
<1>4. /\ m.type = "RREQ" => m \in RREQ
      /\ m.type = "RREP" => m \in RREP
  BY <1>3 DEF Message, RREQ, RREP, RERR, RREP_ack
<1>5. m.type = "RREQ" => HopsFrom(src, m.orig_addr, m.hcnt)
  <2>1. m.type = "RREQ" => m.hcnt < HCNT_MAX /\ (m.hcnt = 0 <=> src = m.orig_addr)
    BY HopCountAssumption
  <2>2. m.type = "RREQ" => m.hcnt \in Hcnt
    BY <1>4 DEF RREQ
  <2>. QED
    BY <2>1, <2>2 DEF HopsFrom
<1>6. m.type = "RREP" => HopsFrom(src, m.dest_addr, m.hcnt)
  <2>1. m.type = "RREP" => m.hcnt < HCNT_MAX /\ (m.hcnt = 0 <=> src = m.dest_addr)
    BY HopCountAssumption
  <2>2. m.type = "RREP" => m.hcnt \in Hcnt
    BY <1>4 DEF RREP
  <2>. QED
    BY <2>1, <2>2 DEF HopsFrom
<1>7. T \in SUBSET Addr
  <2>1. CASE optimized_hellos
    <3>1. T \in Told(node)
      BY <2>1 DEF HelloChoice
    <3>. QED
      BY <3>1, ToldType
  <2>2. CASE ~ optimized_hellos
    BY SMTT(30), <2>2 DEF HelloChoice
  <2>. QED
    BY <2>1, <2>2
<1>8. node' = Returned(g)
  BY <1>1
<1>9. m.type = "RREP" => m.lifetime # 0 \/ m.dest_addr \in Z.endless
  BY DEF Endless, Begun
<1>. HIDE DEF h, m, src, ttl, silent, T
<1>10. Good(g, {}, {}, Z)
  BY <1>2, <1>3, <1>5, <1>6, <1>7, <1>9, ProcessPacket
<1>. HIDE DEF g
<1>. QED
  BY <1>8, <1>10, ReturnedSound

(* hello_process() *)
LEMMA ReceiveHelloSound ==
    ASSUME NEW Z, Begun(Z), ReceiveHello
    PROVE  Good(node', {}, {}, Z)
<1>1. PICK m \in Hellos, recent \in BOOLEAN : node' = Returned(hello_process(Idle(node), m, recent))
  BY DEF ReceiveHello
<1>. DEFINE h == Idle(node)
            g == hello_process(h, m, recent)
<1>2. Good(h, {}, {}, Z)
  BY IdleSound DEF Begun
<1>3. m \in RREP
  BY NodeAssumption
<1>4. node' = Returned(g)
  BY <1>1
<1>. HIDE DEF h
<1>5. Good(g, {}, {}, Z)
  BY <1>2, <1>3, HelloProcess
<1>. HIDE DEF g
<1>. QED
  BY <1>4, <1>5, ReturnedSound

(* nfqueue_packet_cb(): the packet is in NFQUEUE and nowhere else. *)
LEMMA PacketInSound ==
    ASSUME NEW Z, Begun(Z), PacketIn
    PROVE  Good(node', {}, {}, Z)
<1>1. PICK p \in PktId \ node.nfq, k \in Packets :
         node' = Returned(packet_input_handle_packet(
                            [Idle(node) EXCEPT !.nfq = @ \cup {p}], p,
                            k.src, k.dest, k.forward, k.exempt, k.flags))
  BY DEF PacketIn
<1>. DEFINE i == Idle(node)
            N == i.nfq \cup {p}
            h == [i EXCEPT !.nfq = N]
            src == k.src
            dest == k.dest
            forward == k.forward
            exempt == k.exempt
            flags == k.flags
            g == packet_input_handle_packet(h, p, src, dest, forward, exempt, flags)
<1>2. Good(i, {}, {}, Z) /\ i.nfq = node.nfq
  BY IdleSound DEF Begun
<1>3. /\ src \in Addr /\ dest \in Addr /\ forward \in BOOLEAN /\ exempt \in BOOLEAN
      /\ flags \in SUBSET {"GRATUITOUS"}
  BY NodeAssumption
<1>4. node' = Returned(g)
  BY <1>1
<1>. HIDE DEF i, src, dest, forward, exempt, flags
<1>5. /\ i \in Daemon /\ Finite(i.pq) /\ TableSound(i) /\ KernelSound(i)
      /\ VerdictSound(i) /\ BufferSound(i, {}, {}) /\ N \in SUBSET PktId
  BY <1>2 DEF Good, Sound, Typed, Daemon
<1>6. /\ h \in Daemon /\ h.verdict = i.verdict /\ h.nfq = i.nfq \cup {p}
      /\ h.rt = i.rt /\ h.seek = i.seek /\ h.pq = i.pq /\ h.fib = i.fib
  <2>. HIDE DEF N
  <2>1. /\ h \in Daemon /\ h.verdict = i.verdict /\ h.nfq = N
        /\ h.rt = i.rt /\ h.seek = i.seek /\ h.pq = i.pq /\ h.fib = i.fib
    BY <1>5 DEF Daemon
  <2>. QED
    BY <2>1 DEF N
<1>. HIDE DEF h
<1>7. TableSound(h) /\ KernelSound(h) /\ \A d \in Addr : Valid(h, d) <=> Valid(i, d)
  BY <1>5, <1>6, TablesSame
<1>8. BufferSound(h, {p}, {})
  BY <1>2, <1>5, <1>6, <1>7 DEF BufferSound
<1>9. VerdictSound(h)
  BY <1>5, <1>6 DEF VerdictSound
<1>10. Good(h, {p}, {}, Z)
  <2>1. Steady(h, {}, Z)
    BY <1>2, <1>6, SteadySame DEF Good
  <2>. QED
    BY <1>5, <1>6, <1>7, <1>8, <1>9, <2>1 DEF Good, Sound, Typed
<1>11. p \in PktId /\ \A q \in Z.line : q.packet_id # p
  BY DEF Begun
<1>12. Good(g, {}, {}, Z)
  BY <1>3, <1>10, <1>11, PacketInput
<1>. HIDE DEF g
<1>. QED
  BY <1>4, <1>12, ReturnedSound


-----------------------------------------------------------------------------
(* Timers: those of a routing table entry, *)
LEMMA EntryTimeoutsSound ==
    ASSUME NEW Z, Begun(Z), NEW d \in Addr, RtTimeout(d) \/ HelloTimeout(d) \/ AckTimeout(d)
    PROVE  Good(node', {}, {}, Z)
<1>. DEFINE h == Idle(node)
            x == rt_timeout(h, d)
            y == hello_timeout(h, d)
            z == rrep_ack_timeout(h, d)
<1>1. Good(h, {}, {}, Z) /\ h.rt = node.rt
  BY IdleSound DEF Begun
<1>2. /\ node.rt[d] # NULL
      /\ \/ node' = Returned(x)
         \/ node.rt[d].hello_timer /\ node' = Returned(y)
         \/ node' = Returned(z)
  BY DEF RtTimeout, HelloTimeout, AckTimeout
<1>. HIDE DEF h
<1>3. h \in Daemon /\ TableSound(h) /\ h.rt[d] # NULL
  BY <1>1, <1>2, SoundBasics
<1>4. Good(x, {}, {}, Z)
  BY <1>1, <1>3, RtTimeoutSound
<1>5. node.rt[d].hello_timer => Good(y, {}, {}, Z)
  <2>1. ASSUME h.rt[d].hello_timer PROVE Tame(h, y)
    BY <1>3, <2>1, HelloTimeoutTame
  <2>. HIDE DEF y
  <2>. QED
    BY <1>1, <2>1, TameGood
<1>6. Good(z, {}, {}, Z)
  <2>1. Tame(h, z)
    BY <1>3, AckTimeoutTame
  <2>. HIDE DEF z
  <2>. QED
    BY <1>1, <2>1, TameGood
<1>. HIDE DEF x, y, z
<1>. QED
  BY <1>2, <1>4, <1>5, <1>6, ReturnedSound

(* of an entry of the seek list, *)
LEMMA SeekTimeoutSound ==
    ASSUME NEW Z, Begun(Z), NEW d \in Addr, SeekTimeout(d)
    PROVE  Good(node', {}, {}, Z)
<1>. DEFINE h == Idle(node)
            g == route_discovery_timeout(h, d)
<1>1. Good(h, {}, {}, Z) /\ h.seek = node.seek
  BY IdleSound DEF Begun
<1>2. node.seek[d] # NULL /\ node' = Returned(g)
  BY DEF SeekTimeout
<1>. HIDE DEF h
<1>3. Good(g, {}, {}, Z)
  BY <1>1, <1>2, DiscoveryTimeout
<1>. HIDE DEF g
<1>. QED
  BY <1>2, <1>3, ReturnedSound

(* of the HELLOs, *)
LEMMA SendHelloSound ==
    ASSUME NEW Z, Begun(Z), SendHello
    PROVE  Good(node', {}, {}, Z)
<1>1. PICK forwarded \in BOOLEAN, silent \in BOOLEAN, T \in Told(node) :
         node' = Returned(hello_send([Idle(node) EXCEPT !.hello_timer = FALSE],
                                     forwarded, silent, T))
  BY DEF SendHello
<1>. DEFINE i == Idle(node)
            h == [i EXCEPT !.hello_timer = FALSE]
            g == hello_send(h, forwarded, silent, T)
<1>2. Good(i, {}, {}, Z)
  BY IdleSound DEF Begun
<1>3. node' = Returned(g)
  BY <1>1
<1>. HIDE DEF i
<1>4. Tame(i, h)
  BY <1>2, SoundBasics, HelloTimer
<1>. HIDE DEF h
<1>5. Tame(h, g)
  BY <1>4, TameBasics, ToldType, HelloSend
<1>. HIDE DEF g
<1>6. Good(g, {}, {}, Z)
  BY <1>2, <1>4, <1>5, TameGood
<1>. QED
  BY <1>3, <1>6, ReturnedSound

(* of the RREQ records, the blacklist and the wait on reboot, *)
LEMMA FieldTimeoutsSound ==
    ASSUME NEW Z, Begun(Z), RecordTimeout \/ BlacklistTimeout \/ RebootTimeout
    PROVE  Good(node', {}, {}, Z)
<1>. DEFINE h == Idle(node)
<1>1. /\ Good(h, {}, {}, Z)
      /\ h \in Daemon
  BY IdleSound, SoundBasics DEF Begun
<1>2. \/ \E r \in node.records : node' = [h EXCEPT !.records = h.records \ {r}]
      \/ \E a \in node.blacklist : node' = [h EXCEPT !.blacklist = h.blacklist \ {a}]
      \/ node' = [h EXCEPT !.wait_on_reboot = FALSE]
  BY DEF RecordTimeout, BlacklistTimeout, RebootTimeout
<1>. HIDE DEF h
<1>3. /\ \A r : h.records \ {r} \in SUBSET (Addr \X (0 .. RREQ_ID_MAX))
      /\ \A a : h.blacklist \ {a} \in SUBSET Addr
  BY <1>1 DEF Daemon
<1>4. CASE \E r \in node.records : node' = [h EXCEPT !.records = h.records \ {r}]
  <2>1. PICK r : node' = [h EXCEPT !.records = h.records \ {r}]
    BY <1>4
  <2>. DEFINE R == h.records \ {r}
  <2>2. R \in SUBSET (Addr \X (0 .. RREQ_ID_MAX)) /\ node' = [h EXCEPT !.records = R]
    BY <1>3, <2>1
  <2>. HIDE DEF R
  <2>3. \A w \in BOOLEAN, B \in SUBSET Addr : Good([h EXCEPT !.records = R], {}, {}, Z)
    BY <1>1, <2>2, FieldsSound
  <2>. QED
    BY <2>2, <2>3
<1>5. CASE \E a \in node.blacklist : node' = [h EXCEPT !.blacklist = h.blacklist \ {a}]
  <2>1. PICK a : node' = [h EXCEPT !.blacklist = h.blacklist \ {a}]
    BY <1>5
  <2>. DEFINE B == h.blacklist \ {a}
              R == {}
  <2>2. B \in SUBSET Addr /\ node' = [h EXCEPT !.blacklist = B]
    BY <1>3, <2>1
  <2>3. R \in SUBSET (Addr \X (0 .. RREQ_ID_MAX))
    OBVIOUS
  <2>. HIDE DEF B, R
  <2>4. \A w \in BOOLEAN : Good([h EXCEPT !.blacklist = B], {}, {}, Z)
    BY <1>1, <2>2, <2>3, FieldsSound
  <2>. QED
    BY <2>2, <2>4
<1>6. CASE node' = [h EXCEPT !.wait_on_reboot = FALSE]
  <2>. DEFINE B == {}
              R == {}
              w == FALSE
  <2>1. B \in SUBSET Addr /\ R \in SUBSET (Addr \X (0 .. RREQ_ID_MAX)) /\ w \in BOOLEAN
    OBVIOUS
  <2>2. node' = [h EXCEPT !.wait_on_reboot = w]
    BY <1>6
  <2>. HIDE DEF B, R, w
  <2>3. Good([h EXCEPT !.wait_on_reboot = w], {}, {}, Z)
    BY <1>1, <2>1, FieldsSound
  <2>. QED
    BY <2>2, <2>3
<1>. QED
  BY <1>2, <1>4, <1>5, <1>6


(* and of the buffer. *)
LEMMA GarbageCollectSound ==
    ASSUME NEW Z, Begun(Z), GarbageCollect
    PROVE  Good(node', {}, {}, Z)
<1>1. PICK k \in Nat : node' = packet_queue_garbage_collect(Idle(node), k)
  BY DEF GarbageCollect
<1>. DEFINE h == Idle(node)
            P == {p \in h.pq : p.n <= k}
<1>2. Good(h, {}, {}, Z)
  BY IdleSound DEF Begun
<1>3. node' = release(h, P, "DROP")
  BY <1>1 DEF packet_queue_garbage_collect
<1>4. MayLeave(h, P, "DROP", {}, {})
  BY DEF MayLeave
<1>. HIDE DEF h, P
<1>5. Good(release(h, P, "DROP"), {}, {}, Z)
  <2>1. Sound(h, {}, {}) /\ Steady(h, {}, Z)
    BY <1>2 DEF Good
  <2>. DEFINE g == release(h, P, "DROP")
  <2>2. Sound(g, {}, {})
    BY <1>4, <2>1, Release
  <2>3. Steady(g, {}, Z)
    <3>1. \A p \in h.pq : p.n \in Int
      BY <2>1 DEF Sound, Typed, Daemon, QPkt
    <3>2. \A p, q \in h.pq : p.n < q.n /\ q.n <= k => p.n <= k
      BY SMTT(30), <1>1, <3>1
    <3>3. MayGo(h.pq, P)
      BY <3>2 DEF MayGo, P
    <3>. QED
      BY <2>1, <3>3, ReleaseSteady DEF Sound
  <2>. HIDE DEF g
  <2>. QED
    BY <2>2, <2>3 DEF g, Good
<1>. QED
  BY <1>3, <1>5

(* cleanup() and a new start, or a crash and one: NFQUEUE is empty. *)
LEMMA StartSound ==
    ASSUME NEW Z, Begun(Z), Restart \/ Crash
    PROVE  Good(node', {}, {}, Z)
<1>. DEFINE h == Idle(node)
            r == rt_table_destroy(h)
            f == packet_queue_destroy(r)
            c == [node EXCEPT !.nfq = {}]
<1>1. Good(h, {}, {}, Z) /\ h \in Daemon
  BY IdleSound, SoundBasics DEF Begun
<1>2. node \in Daemon
  BY SoundBasics DEF Begun
<1>3. node' = Returned(Boot(f)) \/ node' = Returned(Boot(c))
  BY DEF Restart, Crash
<1>4. c.nfq = {} /\ c.fib \in SUBSET KernelRoute
  BY <1>2 DEF Daemon
<1>. HIDE DEF c, h
<1>5. h.nfq = {p.packet_id : p \in h.pq} /\ h.fib \in SUBSET KernelRoute
  BY <1>1 DEF Good, Sound, BufferSound, Daemon
<1>6. r.pq = h.pq /\ r.nfq = h.nfq /\ r.fib \in SUBSET KernelRoute
  BY <1>1, <1>5 DEF rt_table_destroy, Daemon
<1>7. f.nfq = r.nfq \ {p.packet_id : p \in r.pq} /\ f.fib = r.fib
  BY <1>1 DEF packet_queue_destroy, release, nfqueue_set_packet_verdict, rt_table_destroy, Daemon
<1>. HIDE DEF r, f
<1>8. f.nfq = {} /\ f.fib \in SUBSET KernelRoute
  BY <1>5, <1>6, <1>7
<1>9. Good(Boot(f), {}, {}, Z) /\ Good(Boot(c), {}, {}, Z)
  BY <1>4, <1>8, BootSound
<1>. QED
  BY <1>3, <1>9, ReturnedSound

(* The daemon starts with the invariant. *)
LEMMA InitSound ==
    ASSUME Init
    PROVE  Inv
<1>. DEFINE h == [nfq |-> {}, fib |-> {}]
<1>1. h.nfq = {} /\ h.fib \in SUBSET KernelRoute
  OBVIOUS
<1>2. node = Returned(Boot(h))
  BY DEF Init
<1>. HIDE DEF h
<1>3. \A Z : Good(Boot(h), {}, {}, Z)
  BY <1>1, BootSound
<1>. QED
  BY <1>2, <1>3, ReturnedSound DEF Inv

(* Nothing waits at first. *)
LEMMA InitEmpty == ASSUME Init PROVE node.pq = {}
<1>. DEFINE h == [nfq |-> {}, fib |-> {}]
            b == Boot(h)
<1>1. h.nfq = {} /\ h.fib \in SUBSET KernelRoute
  OBVIOUS
<1>2. node = Returned(b)
  BY DEF Init
<1>. HIDE DEF h
<1>3. \A Z : Good(b, {}, {}, Z) /\ b.pq = {}
  BY <1>1, BootSound
<1>. HIDE DEF b
<1>4. b \in Daemon
  BY <1>3, SoundBasics
<1>. QED
  BY <1>2, <1>3, <1>4 DEF Returned, Daemon

(* Every callback keeps the invariant. *)
LEMMA NextSound ==
    ASSUME NEW Z, Begun(Z), [Next]_node
    PROVE  Good(node', {}, {}, Z)
<1>1. CASE Receive
  BY <1>1, ReceiveSound
<1>2. CASE ReceiveHello
  BY <1>2, ReceiveHelloSound
<1>3. CASE PacketIn
  BY <1>3, PacketInSound
<1>4. CASE \E d \in Addr : RtTimeout(d) \/ HelloTimeout(d) \/ AckTimeout(d)
  BY <1>4, EntryTimeoutsSound
<1>5. CASE \E d \in Addr : SeekTimeout(d)
  BY <1>5, SeekTimeoutSound
<1>6. CASE SendHello
  BY <1>6, SendHelloSound
<1>7. CASE RecordTimeout \/ BlacklistTimeout \/ RebootTimeout
  BY <1>7, FieldTimeoutsSound
<1>8. CASE GarbageCollect
  BY <1>8, GarbageCollectSound
<1>9. CASE Restart \/ Crash
  BY <1>9, StartSound
<1>10. CASE UNCHANGED node
  BY <1>10 DEF Begun
<1>. QED
  BY <1>1, <1>2, <1>3, <1>4, <1>5, <1>6, <1>7, <1>8, <1>9, <1>10 DEF Next

-----------------------------------------------------------------------------
(* After every callback of the main loop, the routing table, the seek      *)
(* list, the buffer, NFQUEUE and the kernel's routes fit together.         *)
THEOREM DaemonInvariant == Spec => []Inv
<1>1. Init => Inv
  BY InitSound
<1>2. Inv /\ [Next]_node => Inv'
  <2>. SUFFICES ASSUME Inv, [Next]_node
                PROVE  Inv'
    OBVIOUS
  <2>. DEFINE Z == [endless |-> Endless, line |-> {}]
  <2>1. Begun(Z)
    BY DEF Inv, Begun
  <2>. HIDE DEF Z
  <2>2. Good(node', {}, {}, Z)
    BY <2>1, NextSound
  <2>. QED
    BY <2>2 DEF Inv, Z
<1>. QED
  BY <1>1, <1>2, PTL DEF Spec

(* Whatever it receives and whatever timers expire, in any order, the      *)
(* daemon keeps its state within its types: sequence numbers and hop       *)
(* counts stay in their width (seqno_incr(), rt_table_insert()).           *)
THEOREM DaemonTypeOK == Spec => []TypeOK
<1>1. Inv => TypeOK
  BY DEF Inv, Good, Sound, Typed, TypeOK
<1>. QED
  BY <1>1, DaemonInvariant, PTL

(* No packet is stranded in the buffer: packet_queue_set_verdict() is      *)
(* called wherever a seek ends, so each waits for a discovery under way.   *)
THEOREM PacketsAreSought == Spec => []BufferedAreSought
<1>1. Inv => BufferedAreSought
  BY DEF Inv, Good, Sound, BufferSound, BufferedAreSought
<1>. QED
  BY <1>1, DaemonInvariant, PTL

(* The ids in NFQUEUE are those in the buffer, each of them once, although *)
(* packet_queue_add() evicts, packet_queue_garbage_collect() drops, and    *)
(* packet_queue_set_verdict() lets go of packets.                          *)
THEOREM PacketsAreHeldOnce == Spec => []EachPacketHeldOnce
<1>1. Inv => EachPacketHeldOnce
  BY DEF Inv, Good, Sound, BufferSound, EachPacketHeldOnce
<1>. QED
  BY <1>1, DaemonInvariant, PTL

(* rt_table_insert() and rt_table_update() end the discovery of a route    *)
(* they make valid.                                                        *)
THEOREM SeeksHaveNoRoute == Spec => []SoughtHasNoRoute
<1>1. Inv => SoughtHasNoRoute
  BY DEF Inv, Good, Sound, BufferSound, Neighbour, SoughtHasNoRoute
<1>. QED
  BY <1>1, DaemonInvariant, PTL

(* nfqueue_set_packet_verdict() gives ACCEPT only when the routing table   *)
(* and, through nl_send_add_route_msg(), the kernel have the route: unless *)
(* the options -u and -L are used together.                                *)
THEOREM AcceptedPacketsAreRouted ==
    ASSUME ~ (unidir_hack /\ local_repair)
    PROVE  Spec => []AcceptedAreRouted
<1>1. Inv => AcceptedAreRouted
  BY DEF Inv, Good, Sound, VerdictSound, Reliable, AcceptedAreRouted
<1>. QED
  BY <1>1, DaemonInvariant, PTL

(* Every route the daemon uses is in the kernel's table, under the same    *)
(* condition: rt_table_insert() and rt_table_update() add it, and only     *)
(* rt_table_invalidate() takes it out.                                     *)
THEOREM ValidRoutesAreInKernel ==
    ASSUME ~ (unidir_hack /\ local_repair)
    PROVE  Spec => []ValidIsInKernel
<1>1. Inv => ValidIsInKernel
  BY DEF Inv, Good, Sound, KernelSound, Routed, Reliable, ValidIsInKernel
<1>. QED
  BY <1>1, DaemonInvariant, PTL

(* A route under local repair is out of use until rt_table_update() gives  *)
(* it a new next hop, under the same condition; the run with both options  *)
(* shows that it is needed.                                                *)
THEOREM RepairedRoutesAreInvalid ==
    ASSUME ~ (unidir_hack /\ local_repair)
    PROVE  Spec => []RepairIsInvalid
<1>1. Inv => RepairIsInvalid
  BY DEF Inv, Good, Sound, TableSound, EntrySound, Reliable, Valid, RepairIsInvalid
<1>. QED
  BY <1>1, DaemonInvariant, PTL

(* No entry stays in the routing table for good: the timer that ends it    *)
(* runs, or a discovery does whose end sets that timer. It holds for every *)
(* destination but those of a RREP with lifetime 0, for which              *)
(* rt_table_insert() and rt_table_update() set no timer.                   *)
THEOREM OnlyEndlessStay ==
    Spec => [](\A d \in Addr \ Endless :
                 node.rt[d] # NULL => node.rt[d].rt_timer \/ node.seek[d] # NULL)
<1>1. Inv => \A d \in Addr \ Endless :
                node.rt[d] # NULL => node.rt[d].rt_timer \/ node.seek[d] # NULL
  BY DEF Inv, Good, Steady, Ticking, Runs
<1>. QED
  BY <1>1, DaemonInvariant, PTL

(* So every entry goes where all the RREPs give their routes a lifetime:   *)
(* when route_expire_timeout(), route_delete_timeout(), the repair or the  *)
(* discovery ends, none of them leaves an entry without a successor.       *)
THEOREM EntriesExpire ==
    ASSUME \A r \in Received : r.msg.type = "RREP" => r.msg.lifetime # 0
    PROVE  Spec => []NoImmortalEntry
<1>1. Endless = {}
  BY DEF Endless
<1>2. Inv => NoImmortalEntry
  BY <1>1 DEF Inv, Good, Steady, Ticking, Runs, NoImmortalEntry
<1>. QED
  BY <1>2, DaemonInvariant, PTL

-----------------------------------------------------------------------------
(* The buffer as a PacketBuffer *)

(* The packet at a place of the line. *)
At(Q, i) == CHOOSE p \in Q : p.n = i

(* A line is the sequence of its packets. *)
LEMMA LineIs ==
    ASSUME NEW Q, Lined(Q)
    PROVE  /\ Cardinality(Q) \in Nat
           /\ DOMAIN Line(Q) = 1 .. Cardinality(Q)
           /\ Len(Line(Q)) = Cardinality(Q)
           /\ \A i \in 1 .. Cardinality(Q) :
                 /\ At(Q, i) \in Q /\ At(Q, i).n = i
                 /\ Line(Q)[i] = [id |-> At(Q, i).packet_id, dest |-> At(Q, i).dest_addr]
           /\ \A p \in Q : p.n \in 1 .. Cardinality(Q) /\ At(Q, p.n) = p
<1>. DEFINE c == Cardinality(Q)
<1>1. c \in Nat
  BY DEF Lined, Finite, Counting
<1>2. \A i \in 1 .. c : At(Q, i) \in Q /\ At(Q, i).n = i
  BY DEF Lined, At
<1>3. \A p \in Q : p.n \in 1 .. c /\ At(Q, p.n) = p
  BY <1>2 DEF Lined
<1>4. Line(Q) = [i \in 1 .. c |-> [id |-> At(Q, i).packet_id, dest |-> At(Q, i).dest_addr]]
  BY DEF Line, At
<1>. HIDE DEF c
<1>5. DOMAIN Line(Q) = 1 .. c /\ Len(Line(Q)) = c
  BY SMTT(30), <1>1, <1>4
<1>6. \A i \in 1 .. c : Line(Q)[i] = [id |-> At(Q, i).packet_id, dest |-> At(Q, i).dest_addr]
  BY <1>4
<1>. QED
  BY <1>1, <1>2, <1>3, <1>5, <1>6 DEF c

(* What PacketBuffer asks of a step from the line l to the line m. *)
Follows(l, m) ==
    \E n \in 0 .. Len(m) : \E was \in [1 .. n -> DOMAIN l] :
        /\ \A i \in 1 .. n : m[i] = l[was[i]]
        /\ \A i, j \in 1 .. n : i < j => was[i] < was[j]
        /\ \A i, j \in DOMAIN l :
              i < j /\ l[i].dest = l[j].dest /\ i \in {was[k] : k \in 1 .. n} =>
                 j \in {was[k] : k \in 1 .. n}
        /\ \A i, j \in DOMAIN m : i # j => m[i].id # m[j].id
        /\ \A i \in DOMAIN l, j \in n + 1 .. Len(m) : l[i].id # m[j].id

(* A line that flows follows. *)
LEMMA FlowsFollows ==
    ASSUME NEW Q, NEW R, Lined(Q), Flows(Q, R)
    PROVE  Follows(Line(Q), Line(R))
<1>. DEFINE l == Line(Q)
            m == Line(R)
            c == Cardinality(Q)
            d == Cardinality(R)
<1>1. /\ Lined(R)
      /\ \A x \in R, p \in Q : x.packet_id = p.packet_id => x.dest_addr = p.dest_addr
      /\ \A x, y \in R, p, q \in Q :
            x.packet_id = p.packet_id /\ y.packet_id = q.packet_id /\ x.n < y.n => p.n < q.n
      /\ \A x \in R, p, q \in Q :
            x.packet_id = p.packet_id /\ p.n < q.n /\ p.dest_addr = q.dest_addr =>
               \E y \in R : y.packet_id = q.packet_id
  BY DEF Flows
<1>2. PICK n \in 0 .. d : \A x \in R : x.n <= n <=> \E p \in Q : x.packet_id = p.packet_id
  BY DEF Flows
<1>3. /\ c \in Nat /\ DOMAIN l = 1 .. c
      /\ \A i \in 1 .. c : /\ At(Q, i) \in Q /\ At(Q, i).n = i
                           /\ l[i] = [id |-> At(Q, i).packet_id, dest |-> At(Q, i).dest_addr]
      /\ \A p \in Q : p.n \in 1 .. c /\ At(Q, p.n) = p
  BY LineIs
<1>4. /\ d \in Nat /\ DOMAIN m = 1 .. d /\ Len(m) = d
      /\ \A i \in 1 .. d : /\ At(R, i) \in R /\ At(R, i).n = i
                           /\ m[i] = [id |-> At(R, i).packet_id, dest |-> At(R, i).dest_addr]
      /\ \A x \in R : x.n \in 1 .. d /\ At(R, x.n) = x
  BY <1>1, LineIs
<1>. DEFINE w(i) == CHOOSE p \in Q : At(R, i).packet_id = p.packet_id
            was == [i \in 1 .. n |-> w(i).n]
<1>5. \A i \in 1 .. c : l[i].id = At(Q, i).packet_id /\ l[i].dest = At(Q, i).dest_addr
  BY SMTT(30), <1>3
<1>6. \A i \in 1 .. d : m[i].id = At(R, i).packet_id /\ m[i].dest = At(R, i).dest_addr
  BY SMTT(30), <1>4
<1>. HIDE DEF l, m, c, d
<1>7. ASSUME NEW i \in 1 .. n
      PROVE  /\ i \in 1 .. d
             /\ At(R, i) \in R /\ At(R, i).n = i
             /\ w(i) \in Q /\ At(R, i).packet_id = w(i).packet_id
             /\ At(R, i).dest_addr = w(i).dest_addr
             /\ was[i] = w(i).n /\ was[i] \in 1 .. c /\ At(Q, was[i]) = w(i)
  <2>1. i \in 1 .. d /\ i <= n
    BY SMTT(30), <1>2, <1>4
  <2>2. At(R, i) \in R /\ At(R, i).n = i
    BY <1>4, <2>1
  <2>3. \E p \in Q : At(R, i).packet_id = p.packet_id
    BY <1>2, <2>1, <2>2
  <2>4. w(i) \in Q /\ At(R, i).packet_id = w(i).packet_id
    BY <2>3
  <2>. HIDE DEF w
  <2>5. was[i] = w(i).n
    OBVIOUS
  <2>. HIDE DEF was
  <2>. QED
    BY <1>1, <1>3, <2>1, <2>2, <2>4, <2>5
<1>. HIDE DEF w
<1>8. was \in [1 .. n -> DOMAIN l]
  <2>1. \A i \in 1 .. n : w(i).n \in DOMAIN l
    BY <1>3, <1>7
  <2>. QED
    BY <2>1
<1>. HIDE DEF was
<1>9. ASSUME NEW i \in 1 .. n PROVE m[i] = l[was[i]]
  <2>1. /\ m[i] = [id |-> At(R, i).packet_id, dest |-> At(R, i).dest_addr]
        /\ l[was[i]] = [id |-> At(Q, was[i]).packet_id, dest |-> At(Q, was[i]).dest_addr]
    BY <1>3, <1>4, <1>7
  <2>. QED
    BY <1>7, <2>1
<1>10. ASSUME NEW i \in 1 .. n, NEW j \in 1 .. n, i < j PROVE was[i] < was[j]
  <2>1. w(i).n < w(j).n
    BY SMTT(30), <1>1, <1>7, <1>10
  <2>. QED
    BY <1>7, <2>1
<1>11. ASSUME NEW i \in DOMAIN l, NEW j \in DOMAIN l, i < j, l[i].dest = l[j].dest,
              NEW k \in 1 .. n, i = was[k]
       PROVE  \E g \in 1 .. n : j = was[g]
  <2>1. At(Q, i) = w(k) /\ w(k).n = i
    BY <1>7, <1>11
  <2>. DEFINE q == At(Q, j)
  <2>2. q \in Q /\ q.n = j /\ q.dest_addr = w(k).dest_addr
    BY <1>3, <1>5, <1>11, <2>1
  <2>. HIDE DEF q
  <2>3. PICK y \in R : y.packet_id = q.packet_id
    <3>1. At(R, k) \in R /\ w(k) \in Q /\ At(R, k).packet_id = w(k).packet_id
      BY <1>7
    <3>2. w(k).n < q.n
      BY <1>11, <2>1, <2>2
    <3>. QED
      BY <1>1, <2>2, <3>1, <3>2
  <2>4. y.n <= n /\ y.n \in 1 .. d /\ At(R, y.n) = y
    BY <1>2, <1>4, <2>2, <2>3
  <2>5. y.n \in 1 .. n
    BY SMTT(30), <1>2, <1>4, <2>4
  <2>6. w(y.n) \in Q /\ w(y.n).packet_id = q.packet_id /\ was[y.n] = w(y.n).n
    BY <1>7, <2>3, <2>4, <2>5
  <2>7. w(y.n) = q
    BY <2>2, <2>6 DEF Lined
  <2>. QED
    BY <2>2, <2>5, <2>6, <2>7
<1>12. ASSUME NEW i \in DOMAIN m, NEW j \in DOMAIN m, i # j PROVE m[i].id # m[j].id
  <2>1. /\ At(R, i) \in R /\ At(R, i).n = i /\ m[i].id = At(R, i).packet_id
        /\ At(R, j) \in R /\ At(R, j).n = j /\ m[j].id = At(R, j).packet_id
    BY <1>4, <1>6
  <2>. QED
    BY SMTT(30), <1>1, <1>12, <2>1 DEF Lined
<1>13. ASSUME NEW i \in DOMAIN l, NEW j \in n + 1 .. Len(m) PROVE l[i].id # m[j].id
  <2>1. j \in 1 .. d /\ ~ (j <= n)
    BY <1>2, <1>4
  <2>2. /\ At(R, j) \in R /\ At(R, j).n = j /\ m[j].id = At(R, j).packet_id
        /\ At(Q, i) \in Q /\ l[i].id = At(Q, i).packet_id
    BY <1>3, <1>4, <1>5, <1>6, <2>1
  <2>. QED
    BY <1>2, <2>1, <2>2
<1>14. n \in 0 .. Len(m)
  BY <1>2, <1>4
<1>15. \A i, j \in DOMAIN l :
         i < j /\ l[i].dest = l[j].dest /\ i \in {was[k] : k \in 1 .. n} =>
            j \in {was[k] : k \in 1 .. n}
  BY <1>11
<1>. QED
  BY <1>8, <1>9, <1>10, <1>12, <1>13, <1>14, <1>15 DEF Follows, l, m

(* The places of the buffer are in order. *)
LEMMA BufferLined == ASSUME Inv PROVE Lined(node.pq)
<1>1. Lined({})
  BY CountingHolds, SizesHold, FS_EmptySet, EmptyLined
<1>2. Flows({}, node.pq)
  BY DEF Inv, Good, Steady
<1>. QED
  BY <1>1, <1>2 DEF Flows

(* aodvd's packet_queue.c implements PacketBuffer, whatever the callbacks  *)
(* of the main loop do: no packet is overtaken by a later one for the same *)
(* destination, none waits twice, and newcomers join behind.               *)
THEOREM DaemonQueueIsABuffer == Spec => BuffersInOrder
<1>1. Init => Buffer!Init
  <2>. SUFFICES ASSUME Init PROVE Line(node.pq) = <<>>
    BY DEF Buffer!Init
  <2>1. node.pq = {}
    BY InitEmpty
  <2>2. Cardinality({}) = 0
    BY FS_EmptySet
  <2>. QED
    BY SMTT(30), <2>1, <2>2 DEF Line
<1>2. Inv /\ [Next]_node => [Buffer!Step]_(Line(node.pq))
  <2>. SUFFICES ASSUME Inv, [Next]_node PROVE Buffer!Step
    OBVIOUS
  <2>1. PICK Q : Q = node.pq
    OBVIOUS
  <2>2. Lined(Q)
    BY <2>1, BufferLined
  <2>. DEFINE Z == [endless |-> Endless, line |-> Q]
  <2>3. Z.endless = Endless /\ Z.line = Q
    OBVIOUS
  <2>. HIDE DEF Z
  <2>4. Good(node, {}, {}, Z)
    <3>1. Flows(Z.line, node.pq)
      BY <2>1, <2>3, FlowsSame
    <3>. QED
      BY <2>3, <3>1 DEF Inv, Good, Steady, Ticking
  <2>5. \A p \in Q : p.packet_id \in node.nfq
    BY <2>1, <2>4 DEF Good, Sound, BufferSound
  <2>6. Good(node', {}, {}, Z)
    BY <2>3, <2>4, <2>5, NextSound DEF Begun
  <2>7. Flows(Q, node'.pq)
    BY <2>3, <2>6 DEF Good, Steady
  <2>8. Follows(Line(node.pq), Line(node'.pq))
    BY <2>1, <2>2, <2>7, FlowsFollows
  <2>. QED
    BY <2>8 DEF Follows, Buffer!Step, Buffer!MayStay
<1>. QED
  BY <1>1, <1>2, DaemonInvariant, PTL DEF Spec, BuffersInOrder, Buffer!Spec
=============================================================================
