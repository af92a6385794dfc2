------------------------------ MODULE RateLimit -----------------------------
(***************************************************************************)
(* The rate limit of aodv_socket_send() (src/network/aodv_socket.c): for   *)
(* RREQs and for RERRs, the times of the last messages are kept in an      *)
(* array of one place less than the limit, and the message that would need *)
(* one more within a second is dropped.  AodvStart composes this with the  *)
(* life of the daemon, which sends from its main loop.                     *)
(***************************************************************************)
EXTENDS Integers, Sequences, FiniteSets

CONSTANTS RATELIMIT,   \* RREQ_RATELIMIT and RERR_RATELIMIT, which are equal
          SECOND,      \* clock units in a second, the 1000 ms of the test
          MaxClock     \* bound: the clock stops here

ASSUME RateLimitAssumption ==
    /\ RATELIMIT \in Nat \ {0, 1}
    /\ SECOND \in Nat \ {0}
    /\ MaxClock \in Nat

Limited == {"RREQ", "RERR"}

VARIABLES clock,   \* gettimeofday()
          ratel,   \* rreq_ratel up to num_rreq, and rerr_ratel up to num_rerr
          sent,    \* history: when each message that passed was sent
          fate     \* history: what became of the last message

rateVars == <<clock, ratel, sent, fate>>

RateInit ==
    /\ clock = 0
    /\ ratel = [k \in Limited |-> <<>>]
    /\ sent = [k \in Limited |-> <<>>]
    /\ fate = <<"none", "sent">>

(* The bugs of comparing with the last message, and of an earlier second. *)
drop_last(r) == Len(r) = RATELIMIT - 1 /\ clock - r[Len(r)] < SECOND
drop_early(r) == Len(r) = RATELIMIT - 1 /\ clock - r[1] < SECOND - 1

(* The test for a full array. *)
drop(r) == Len(r) = RATELIMIT - 1 /\ clock - r[1] < SECOND

(* memmove() and memcpy(), or just memcpy() into the next free place. *)
record(r) == Append(IF Len(r) = RATELIMIT - 1 THEN Tail(r) ELSE r, clock)

(* aodv_socket_send() of a message of type k *)
aodv_socket_send(k) ==
    /\ UNCHANGED clock
    /\ IF drop(ratel[k])
       THEN fate' = <<k, "dropped">> /\ UNCHANGED <<ratel, sent>>
       ELSE /\ fate' = <<k, "sent">>
            /\ ratel' = [ratel EXCEPT ![k] = record(@)]
            /\ sent' = [sent EXCEPT ![k] = Append(@, clock)]

Tick ==
    /\ clock < MaxClock
    /\ clock' = clock + 1
    /\ UNCHANGED <<ratel, sent>>
    /\ fate' = <<"none", "sent">>

-----------------------------------------------------------------------------
(* The arrays rreq_ratel and rerr_ratel are never written beyond their end. *)
RateTypeOK ==
    /\ clock \in 0 .. MaxClock
    /\ DOMAIN ratel = Limited /\ DOMAIN sent = Limited
    /\ \A k \in Limited : /\ ratel[k] \in Seq(0 .. MaxClock)
                          /\ Len(ratel[k]) <= RATELIMIT - 1
                          /\ sent[k] \in Seq(0 .. MaxClock)
    /\ fate \in (Limited \cup {"none"}) \X {"sent", "dropped"}

(* RFC 3561, 6.3 and 6.11: no more than RATELIMIT messages of a kind leave *)
(* within a second, whatever the times aodv_socket_send() is called at.    *)
NoMoreThanLimit ==
    \A k \in Limited : \A i, j \in DOMAIN sent[k] :
        j - i >= RATELIMIT => sent[k][j] - sent[k][i] >= SECOND

(* A message is dropped by aodv_socket_send() only when others of its own  *)
(* kind have used up the second: RREQs do not silence RERRs.               *)
DroppedForOwnKind ==
    fate[2] = "dropped" =>
        Cardinality({i \in DOMAIN sent[fate[1]] : clock - sent[fate[1]][i] < SECOND})
            >= RATELIMIT - 1
=============================================================================
