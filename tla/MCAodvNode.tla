----------------------------- MODULE MCAodvNode -----------------------------
(***************************************************************************)
(* Instances of AodvNode: the host, its neighbour nbr, the node remote,    *)
(* which is reached through nbr or directly, and client, whose packets the *)
(* host forwards.                                                          *)
(***************************************************************************)
EXTENDS AodvNode, TLC

CONSTANTS host, nbr, remote, client, p1, p2, p3

ThreeNodes == {host, nbr, remote}
FourNodes == {host, nbr, remote, client}
OnePacket == {p1}
ThreePackets == {p1, p2, p3}
MCSymmetry == Permutations({p1, p2, p3})

Request(id, dest, dseq, orig, oseq, hcnt) ==
    [type |-> "RREQ", rreq_id |-> id, dest_addr |-> dest, dest_seqno |-> dseq,
     orig_addr |-> orig, orig_seqno |-> oseq, hcnt |-> hcnt, g |-> FALSE, d |-> FALSE]
Reply(dest, dseq, orig, hcnt, life) ==
    [type |-> "RREP", dest_addr |-> dest, dest_seqno |-> dseq, orig_addr |-> orig,
     hcnt |-> hcnt, lifetime |-> life, a |-> FALSE, neighbors |-> {}]
Hello(a, seqno, nbrs) ==
    [type |-> "RREP", dest_addr |-> a, dest_seqno |-> seqno, orig_addr |-> a,
     hcnt |-> 0, lifetime |-> 1, a |-> FALSE, neighbors |-> nbrs]
Error(a, seqno) ==
    [type |-> "RERR", n |-> FALSE, udests |-> {[addr |-> a, seqno |-> seqno]}]
From(a, ttl, m) == [src |-> a, ttl |-> ttl, msg |-> m]
Data(a, b, fwd) == [src |-> a, dest |-> b, forward |-> fwd, exempt |-> FALSE, flags |-> {}]

(* Discovery and buffering: replies about remote through nbr, its requests *)
(* heard through nbr and directly, errors of nbr.                          *)
BufferReceived ==
    {From(nbr, 2, Reply(remote, q, host, 1, 1)) : q \in {1, 2}}
    \cup {From(nbr, 2, Request(0, host, 0, remote, 1, 1)),
          From(remote, 2, Request(0, host, 0, remote, 2, 0))}
    \cup {From(nbr, 1, Error(remote, 2))}
BufferHellos == {Hello(nbr, 1, {})}
BufferPackets == {Data(host, remote, FALSE), Data(host, nbr, FALSE)}

(* Local repair of the route to remote through nbr, which client uses. *)
RepairReceived ==
    {From(nbr, 2, Reply(remote, 1, client, 1, 1)), From(nbr, 2, Reply(remote, 2, host, 2, 1)),
     From(client, 2, Request(0, remote, 0, client, 1, 0)), From(nbr, 1, Error(remote, 2))}
RepairHellos == {Hello(nbr, 1, {})}
RepairPackets == {Data(client, remote, TRUE), Data(host, remote, FALSE)}

(* Links that may be unidirectional: HELLOs of nbr that name this host or  *)
(* do not, a request of nbr for this host, an acknowledgement, a route to  *)
(* remote through nbr.                                                     *)
UnidirReceived ==
    {From(nbr, 2, Request(0, host, 1, nbr, 1, 0)), From(nbr, 1, [type |-> "RREP_ACK"]),
     From(nbr, 2, Reply(remote, 1, host, 1, 1))}
UnidirHellos == {Hello(nbr, 1, {}), Hello(nbr, 1, {host})}
UnidirPackets == {Data(host, nbr, FALSE), [Data(host, nbr, FALSE) EXCEPT !.exempt = TRUE]}

(* As before, with nbr asking for remote, and remote heard directly, too. *)
MeshReceived == UnidirReceived \cup {From(nbr, 2, Request(0, remote, 0, nbr, 1, 0))}
MeshHellos == UnidirHellos \cup {Hello(remote, 1, {}), Hello(remote, 1, {host})}

(* A reply with nothing left of its lifetime. *)
ZeroReceived == {From(nbr, 2, Reply(remote, 1, host, 1, life)) : life \in {0, 1}}

(* A request for this host that knows an earlier of its sequence numbers. *)
RolloverReceived == {From(nbr, 2, Request(0, host, 1, nbr, 1, 0))}
SendOne == {Data(host, remote, FALSE)}
Nothing == {}
=============================================================================
