---------------------------- MODULE PacketBuffer ----------------------------
(***************************************************************************)
(* What every packet buffer of AODV-UU promises while a route is sought,   *)
(* whether it is the daemon's packet queue, the queue of the kernel module *)
(* or the packet queue of the ns-2 agent: a packet joins behind those      *)
(* already waiting, no packet waits twice, none changes its destination    *)
(* while it waits, and a packet is let go only together with, or after,    *)
(* every earlier packet for the same destination.                          *)
(***************************************************************************)
EXTENDS Naturals, Sequences

VARIABLE line   \* the waiting packets [id, dest], the earliest first

Init == line = <<>>

(* Those at the indices in kept stay, and the others may leave: no packet  *)
(* stays that came before one of them for the same destination.            *)
MayStay(kept) ==
    \A i, j \in DOMAIN line :
        i < j /\ line[i].dest = line[j].dest /\ i \in kept => j \in kept

(* Some packets leave, the others, the first n of the line to be, keep     *)
(* their order, and then more may join, each for the first time.           *)
Step ==
    \E n \in 0 .. Len(line') : \E was \in [1 .. n -> DOMAIN line] :
        /\ \A i \in 1 .. n : line'[i] = line[was[i]]
        /\ \A i, j \in 1 .. n : i < j => was[i] < was[j]
        /\ MayStay({was[i] : i \in 1 .. n})
        /\ \A i, j \in DOMAIN line' : i # j => line'[i].id # line'[j].id
        /\ \A i \in DOMAIN line, j \in n + 1 .. Len(line') : line[i].id # line'[j].id

Spec == Init /\ [][Step]_line
=============================================================================
