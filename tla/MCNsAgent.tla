----------------------------- MODULE MCNsAgent -----------------------------
(* One agent, two nodes around it and an Internet host behind one of them. *)
EXTENDS NsAgent, TLC

CONSTANTS self, bcast, nbr, far, web, p1, p2

MCRoutes == {[dest |-> nbr, next_hop |-> nbr, hcnt |-> 1],
             [dest |-> far, next_hop |-> nbr, hcnt |-> 2]}

MCKind(src, dst, ttl, forwards, enc) ==
    [src |-> src, dst |-> dst, ttl |-> ttl, forwards |-> forwards, enc |-> enc]

(* Our own packet to far, and one to forward there. *)
MCMesh == p1 :> MCKind(self, far, 2, 0, FALSE) @@ p2 :> MCKind(nbr, far, 2, 1, FALSE)

(* The same, and the other packet has reached its last hop. *)
MCExpiring == p1 :> MCKind(self, far, 2, 0, FALSE) @@ p2 :> MCKind(nbr, far, 1, 1, FALSE)

(* Our own packet to the Internet, and one that comes to us as a gateway. *)
MCGateway == p1 :> MCKind(self, web, 2, 0, FALSE) @@ p2 :> MCKind(nbr, self, 2, 1, TRUE)

MCSettings ==
    {[llfeedback |-> TRUE, local_repair |-> TRUE, wait_on_reboot |-> TRUE,
      optimized_hellos |-> FALSE, internet_gw_mode |-> FALSE, precursors |-> TRUE,
      inet |-> {}, load |-> MCMesh],
     [llfeedback |-> TRUE, local_repair |-> FALSE, wait_on_reboot |-> FALSE,
      optimized_hellos |-> FALSE, internet_gw_mode |-> FALSE, precursors |-> FALSE,
      inet |-> {}, load |-> MCExpiring],
     [llfeedback |-> FALSE, local_repair |-> TRUE, wait_on_reboot |-> FALSE,
      optimized_hellos |-> TRUE, internet_gw_mode |-> FALSE, precursors |-> TRUE,
      inet |-> {}, load |-> MCMesh],
     [llfeedback |-> TRUE, local_repair |-> FALSE, wait_on_reboot |-> FALSE,
      optimized_hellos |-> FALSE, internet_gw_mode |-> TRUE, precursors |-> FALSE,
      inet |-> {web}, load |-> MCGateway]}
=============================================================================
