------------------------------ MODULE MCKaodv -------------------------------
(***************************************************************************)
(* A gateway between two nodes a and b: its own packets, one that is       *)
(* forwarded and one that is encapsulated.                                 *)
(***************************************************************************)
EXTENDS Kaodv, TLC

CONSTANTS host, a, b, bcast, p1, p2, wlan, eth, d1, d2

TwoPackets == {p1, p2}
TwoDaemons == {d1, d2}
MCSymmetry == Permutations(TwoPackets) \cup Permutations(TwoDaemons)
Packet(hook, src, dst, proto, inner) ==
    [hook |-> hook, src |-> src, dst |-> dst, proto |-> proto, inner |-> inner, dev |-> wlan]
TheKinds ==
    {Packet("LOCAL_OUT", host, b, "data", NULL),
     Packet("PRE_ROUTING", a, b, "data", NULL),
     Packet("PRE_ROUTING", a, host, "mipe", [dst |-> b, proto |-> "data"])}
Named == <<wlan, eth, wlan>>
Route(dst, nhop, flags) == [type |-> "ADDROUTE", dst |-> dst, nhop |-> nhop, time |-> 2, flags |-> flags]
TheMessages ==
    {Route(b, a, {}), Route(b, a, {"REPAIR"}), Route(a, a, {}),
     Route(b, a, {"GW_ENCAP"}), [type |-> "DELROUTE", dst |-> b], [type |-> "NOROUTE_FOUND", dst |-> b],
     [type |-> "CONFIG", active_route_timeout |-> 2, is_gateway |-> FALSE]}
=============================================================================
