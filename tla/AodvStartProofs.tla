-------------------------- MODULE AodvStartProofs ---------------------------
(***************************************************************************)
(* The rate limit of aodv_socket_send(), for every limit and every length  *)
(* of a second, in the daemon of AodvStart: whatever else the process      *)
(* does, the arrays of times stay what they are but for Send and Clock.    *)
(* Then the invariant of the process around it, Alive, and the proof that  *)
(* its start keeps it, service by service, up to the main loop.            *)
(***************************************************************************)
EXTENDS AodvStart, TLAPS

(* How long the provers may take for a step. *)
USE ZenonT(20), SMTT(30)

-----------------------------------------------------------------------------
(* The rate limit                                                          *)

(* At time c the array r holds the times of the last of the messages s     *)
(* that were sent, all of them as long as it is not full; times do not go  *)
(* back; and messages that are RATELIMIT - 1 apart are a second apart,     *)
(* which is one better than asked.                                         *)
Holds(r, s, c) ==
    /\ r \in Seq(0 .. MaxClock) /\ s \in Seq(0 .. MaxClock)
    /\ Len(r) <= RATELIMIT - 1
    /\ Len(r) <= Len(s)
    /\ Len(r) < RATELIMIT - 1 => Len(s) = Len(r)
    /\ \A i \in 1 .. Len(r) : r[i] = s[Len(s) - Len(r) + i]
    /\ \A i \in 1 .. Len(s) : s[i] <= c
    /\ \A i, j \in 1 .. Len(s) : i <= j => s[i] <= s[j]
    /\ \A i, j \in 1 .. Len(s) : j - i >= RATELIMIT - 1 => s[j] - s[i] >= SECOND

(* So it is for both kinds, and what was dropped just now met a full array *)
(* within the second.                                                      *)
RateInv ==
    /\ clock \in 0 .. MaxClock
    /\ DOMAIN ratel = Limited /\ DOMAIN sent = Limited
    /\ fate \in (Limited \cup {"none"}) \X {"sent", "dropped"}
    /\ \A k \in Limited : Holds(ratel[k], sent[k], clock)
    /\ fate[2] = "dropped" =>
          /\ fate[1] \in Limited
          /\ Len(ratel[fate[1]]) = RATELIMIT - 1
          /\ clock - ratel[fate[1]][1] < SECOND

(* One message more passes aodv_socket_send(): drop() has found a free     *)
(* place or an oldest time that is a second ago, and record() stores now.  *)
LEMMA RecordHolds ==
    ASSUME NEW c \in 0 .. MaxClock, c = clock, NEW r, NEW s, Holds(r, s, c), ~ drop(r)
    PROVE  Holds(record(r), Append(s, c), c)
<1>. DEFINE n == Len(s)  m == Len(r)  t == Append(s, c)  q == record(r)  R == RATELIMIT - 1
<1>1. c \in Nat /\ MaxClock \in Nat /\ SECOND \in Nat /\ R \in Nat \ {0}
  BY SMTT(30), RateLimitAssumption
<1>2. /\ r \in Seq(0 .. MaxClock) /\ s \in Seq(0 .. MaxClock)
      /\ m \in Nat /\ n \in Nat /\ m <= R /\ m <= n /\ (m < R => n = m)
  BY SMTT(30) DEF Holds
<1>3. \A i \in 1 .. n : s[i] \in Nat /\ s[i] <= c
  BY SMTT(30), <1>1, <1>2 DEF Holds
<1>4. /\ \A i, j \in 1 .. n : i <= j => s[i] <= s[j]
      /\ \A i, j \in 1 .. n : j - i >= R => s[j] - s[i] >= SECOND
      /\ \A i \in 1 .. m : r[i] = s[n - m + i]
  BY DEF Holds
<1>5. /\ t \in Seq(0 .. MaxClock) /\ Len(t) = n + 1 /\ t[n + 1] = c
      /\ \A i \in 1 .. n : t[i] = s[i]
  BY SMTT(30), <1>2
<1>6. /\ q \in Seq(0 .. MaxClock) /\ Len(q) \in Nat
      /\ m < R => Len(q) = m + 1 /\ q[m + 1] = c /\ \A i \in 1 .. m : q[i] = r[i]
      /\ m = R => Len(q) = m /\ q[m] = c /\ \A i \in 1 .. m - 1 : q[i] = r[i + 1]
  <2>1. CASE m < R
    <3>1. q = Append(r, c)
      BY SMTT(30), <2>1, <1>1, <1>2 DEF record
    <3>. QED
      BY SMTT(30), <2>1, <3>1, <1>1, <1>2
  <2>2. CASE m = R
    <3>1. q = Append(Tail(r), c)
      BY <2>2 DEF record
    <3>2. r # <<>> /\ Tail(r) \in Seq(0 .. MaxClock) /\ Len(Tail(r)) = m - 1
          /\ \A i \in 1 .. m - 1 : Tail(r)[i] = r[i + 1]
      <4>1. r # <<>>
        BY <2>2, <1>1, <1>2
      <4>2. Tail(r) \in Seq(0 .. MaxClock) /\ Len(Tail(r)) = m - 1
        BY SMTT(30), <4>1, <1>2
      <4>3. ASSUME NEW i \in 1 .. m - 1  PROVE Tail(r)[i] = r[i + 1]
        BY SMTT(30), <4>1, <4>2, <1>2
      <4>. QED
        BY <4>1, <4>2, <4>3
    <3>. HIDE DEF q
    <3>3. q \in Seq(0 .. MaxClock) /\ Len(q) = m /\ q[m] = c
      BY SMTT(30), <3>1, <3>2, <1>1, <1>2
    <3>4. \A i \in 1 .. m - 1 : q[i] = Tail(r)[i]
      BY SMTT(30), <3>1, <3>2, <1>1, <1>2
    <3>. QED
      BY SMTT(30), <2>2, <3>2, <3>3, <3>4, <1>1, <1>2
  <2>. QED
    BY SMTT(30), <2>1, <2>2, <1>1, <1>2
<1>. HIDE DEF n, m, t, q, R
<1>7. m = R => c - r[1] >= SECOND
  <2>1. m = R => ~ (c - r[1] < SECOND)
    BY DEF drop, m, R
  <2>2. m = R => 1 \in 1 .. m /\ n - m + 1 \in 1 .. n
    BY SMTT(30), <1>1, <1>2
  <2>3. m = R => r[1] \in Nat
    BY <2>2, <1>3, <1>4
  <2>. QED
    BY SMTT(30), <2>1, <2>3, <1>1
<1>8. \A i \in 1 .. n + 1 : t[i] \in Nat /\ t[i] <= c /\ (i # n + 1 => t[i] = s[i] /\ i \in 1 .. n)
  BY SMTT(30), <1>1, <1>2, <1>3, <1>5
<1>9. \A i, j \in 1 .. n + 1 : i <= j => t[i] <= t[j]
  <2>. TAKE i, j \in 1 .. n + 1
  <2>. HAVE i <= j
  <2>1. CASE j = n + 1
    BY <2>1, <1>5, <1>8
  <2>2. CASE j # n + 1
    BY SMTT(30), <2>2, <1>2, <1>4, <1>8
  <2>. QED
    BY <2>1, <2>2
<1>10. \A i, j \in 1 .. n + 1 : j - i >= R => t[j] - t[i] >= SECOND
  <2>. TAKE i, j \in 1 .. n + 1
  <2>. HAVE j - i >= R
  <2>0. i \in 1 .. n /\ t[i] = s[i] /\ n >= R
    BY SMTT(30), <1>1, <1>2, <1>8
  <2>1. CASE j = n + 1
    <3>1. m = R
      BY SMTT(30), <2>0, <1>1, <1>2
    <3>2. r[1] = s[n - m + 1] /\ n - m + 1 \in 1 .. n /\ i <= n - m + 1
      BY SMTT(30), <2>1, <3>1, <1>1, <1>2, <1>4
    <3>3. s[i] <= r[1] /\ r[1] \in Nat
      BY <2>0, <3>2, <1>3, <1>4
    <3>4. t[j] = c
      BY <2>1, <1>5
    <3>. QED
      BY SMTT(30), <2>0, <3>1, <3>3, <3>4, <1>1, <1>3, <1>7
  <2>2. CASE j # n + 1
    BY <2>0, <2>2, <1>4, <1>8
  <2>. QED
    BY <2>1, <2>2
<1>11. \A i \in 1 .. Len(q) : q[i] = t[Len(t) - Len(q) + i]
  <2>. TAKE i \in 1 .. Len(q)
  <2>1. CASE m < R
    <3>0. i \in 1 .. m + 1 /\ Len(t) - Len(q) + i = i
      <4>1. Len(q) = m + 1 /\ Len(t) = n + 1 /\ n = m /\ m \in Nat
        BY <2>1, <1>2, <1>5, <1>6
      <4>. QED
        BY SMTT(30), <4>1
    <3>. SUFFICES q[i] = t[i]
      BY <3>0
    <3>1. CASE i = m + 1
      BY <2>1, <3>1, <1>2, <1>5, <1>6
    <3>2. CASE i # m + 1
      BY SMTT(30), <2>1, <3>0, <3>2, <1>2, <1>4, <1>5, <1>6
    <3>. QED
      BY <3>1, <3>2
  <2>2. CASE m = R
    <3>0. i \in 1 .. m /\ Len(t) - Len(q) + i = n + 1 - m + i
      <4>1. Len(q) = m /\ Len(t) = n + 1 /\ m \in Nat /\ n \in Nat
        BY <2>2, <1>2, <1>5, <1>6
      <4>. QED
        BY SMTT(30), <4>1
    <3>. SUFFICES q[i] = t[n + 1 - m + i]
      BY <3>0
    <3>1. CASE i = m
      BY SMTT(30), <2>2, <3>1, <1>2, <1>5, <1>6
    <3>2. CASE i # m
      <4>1. i + 1 \in 1 .. m /\ i \in 1 .. m - 1 /\ n - m + (i + 1) = n + 1 - m + i
            /\ n + 1 - m + i \in 1 .. n
        BY SMTT(30), <3>0, <3>2, <1>2
      <4>2. q[i] = s[n - m + (i + 1)]
        BY <2>2, <4>1, <1>4, <1>6
      <4>. QED
        BY <4>1, <4>2, <1>5
    <3>. QED
      BY <3>1, <3>2
  <2>. QED
    BY SMTT(30), <2>1, <2>2, <1>1, <1>2
<1>12. Len(q) <= R /\ Len(q) <= n + 1 /\ (Len(q) < R => n + 1 = Len(q))
  BY SMTT(30), <1>1, <1>2, <1>6
<1>. QED
  <2>1. Len(t) = n + 1 /\ q \in Seq(0 .. MaxClock) /\ t \in Seq(0 .. MaxClock)
    BY <1>5, <1>6
  <2>2. \A i \in 1 .. Len(t) : t[i] <= c
    BY <2>1, <1>8
  <2>3. \A i, j \in 1 .. Len(t) : i <= j => t[i] <= t[j]
    BY <2>1, <1>9
  <2>4. \A i, j \in 1 .. Len(t) : j - i >= R => t[j] - t[i] >= SECOND
    BY <2>1, <1>10
  <2>6. Len(q) <= R /\ Len(q) <= Len(t) /\ (Len(q) < R => Len(t) = Len(q))
    BY <2>1, <1>12
  <2>. QED
    BY <2>1, <2>2, <2>3, <2>4, <2>6, <1>11 DEF Holds, t, q, R

-----------------------------------------------------------------------------
(* Time passes. *)
LEMMA LaterHolds ==
    ASSUME NEW r, NEW s, NEW c \in 0 .. MaxClock, Holds(r, s, c)
    PROVE  Holds(r, s, c + 1)
<1>1. \A i \in 1 .. Len(s) : s[i] \in Int /\ s[i] <= c + 1
  <2>1. s \in Seq(0 .. MaxClock) /\ \A i \in 1 .. Len(s) : s[i] <= c
    BY DEF Holds
  <2>. QED
    BY SMTT(30), <2>1, RateLimitAssumption
<1>. QED
  BY <1>1 DEF Holds

LEMMA RateInitInv == RateInit => RateInv
<1>. SUFFICES ASSUME RateInit PROVE RateInv
  OBVIOUS
<1>1. clock \in 0 .. MaxClock /\ DOMAIN ratel = Limited /\ DOMAIN sent = Limited
  BY SMTT(30), RateLimitAssumption DEF RateInit
<1>2. fate \in (Limited \cup {"none"}) \X {"sent", "dropped"} /\ fate[2] # "dropped"
  BY DEF RateInit
<1>3. ASSUME NEW k \in Limited PROVE Holds(ratel[k], sent[k], clock)
  <2>1. ratel[k] = <<>> /\ sent[k] = <<>>
    BY DEF RateInit
  <2>. QED
    BY SMTT(30), <2>1, RateLimitAssumption DEF Holds
<1>. QED
  BY <1>1, <1>2, <1>3 DEF RateInv

(* aodv_socket_send() of one message *)
LEMMA SendInv == ASSUME RateInv, NEW k \in Limited, aodv_socket_send(k) PROVE RateInv'
<1>1. clock' = clock /\ clock \in 0 .. MaxClock
  BY DEF RateInv, aodv_socket_send
<1>2. CASE drop(ratel[k])
  <2>1. fate' = <<k, "dropped">> /\ ratel' = ratel /\ sent' = sent
    BY <1>2 DEF aodv_socket_send
  <2>2. Len(ratel[k]) = RATELIMIT - 1 /\ clock - ratel[k][1] < SECOND
    BY <1>2 DEF drop
  <2>. QED
    BY <1>1, <2>1, <2>2 DEF RateInv
<1>3. CASE ~ drop(ratel[k])
  <2>1. /\ fate' = <<k, "sent">>
        /\ ratel' = [ratel EXCEPT ![k] = record(@)]
        /\ sent' = [sent EXCEPT ![k] = Append(@, clock)]
    BY <1>3 DEF aodv_socket_send
  <2>2. Holds(record(ratel[k]), Append(sent[k], clock), clock)
    BY <1>1, <1>3, RecordHolds DEF RateInv
  <2>3. ASSUME NEW j \in Limited PROVE Holds(ratel'[j], sent'[j], clock')
    BY <1>1, <2>1, <2>2 DEF RateInv
  <2>4. DOMAIN ratel' = Limited /\ DOMAIN sent' = Limited
    BY <2>1 DEF RateInv
  <2>5. fate' \in (Limited \cup {"none"}) \X {"sent", "dropped"} /\ fate'[2] # "dropped"
    BY <2>1
  <2>. QED
    BY <1>1, <2>3, <2>4, <2>5 DEF RateInv
<1>. QED
  BY <1>2, <1>3

LEMMA TickInv == ASSUME RateInv, Tick PROVE RateInv'
<1>1. clock' = clock + 1 /\ clock \in 0 .. MaxClock /\ clock' \in 0 .. MaxClock
  BY SMTT(30), RateLimitAssumption DEF RateInv, Tick
<1>2. ratel' = ratel /\ sent' = sent /\ fate' = <<"none", "sent">>
  BY DEF Tick
<1>3. ASSUME NEW k \in Limited PROVE Holds(ratel'[k], sent'[k], clock')
  BY <1>1, <1>2, LaterHolds DEF RateInv
<1>4. fate' \in (Limited \cup {"none"}) \X {"sent", "dropped"} /\ fate'[2] # "dropped"
  BY <1>2
<1>. QED
  BY <1>1, <1>2, <1>3, <1>4 DEF RateInv

-----------------------------------------------------------------------------
(* The rest of the daemon leaves the limit alone. *)
LEMMA StepKeeps == ASSUME NEW label, NEW q, Step(label, q) PROVE UNCHANGED rateVars
  BY DEF Step

LEMMA DaemonKeeps == ASSUME Daemon PROVE UNCHANGED rateVars
<1>. USE StepKeeps
<1>1. CASE usage \/ options \/ detach \/ log_init \/ packet_queue_init \/ search
  BY <1>1 DEF usage, options, detach, log_init, packet_queue_init, search, Fails
<1>2. CASE host_init \/ get_if_info_fails \/ set_kernel_options \/ nl_init \/ nfqueue_init
  BY <1>2 DEF host_init, get_if_info_fails, set_kernel_options, nl_init, nfqueue_init, Fails
<1>3. CASE sockets \/ llf_init \/ timers_set \/ timer_age_queue \/ Aged
  BY <1>3 DEF sockets, aodv_socket_init, llf_init, timers_set, timer_age_queue, Aged
<1>4. CASE Detached \/ Decided \/ packet_queue_timeout \/ wait_on_reboot_timeout \/ hello_send
  BY <1>4 DEF Detached, Decided, packet_queue_timeout, wait_on_reboot_timeout, hello_send
<1>5. CASE print_rt_table \/ pselect \/ nl_rt_callback \/ nfqueue_fd_callback
  BY <1>5 DEF print_rt_table, pselect, nl_rt_callback, nfqueue_fd_callback
<1>6. CASE aodv_socket_read \/ llf_callback \/ exit
  BY <1>6 DEF aodv_socket_read, llf_callback, exit
<1>. QED
  BY <1>1, <1>2, <1>3, <1>4, <1>5, <1>6 DEF Daemon

LEMMA NextRateInv == RateInv /\ [Next]_vars => RateInv'
<1>. SUFFICES ASSUME RateInv, [Next]_vars PROVE RateInv'
  OBVIOUS
<1>1. CASE UNCHANGED rateVars
  BY <1>1 DEF RateInv, rateVars
<1>2. CASE Send
  BY <1>2, SendInv DEF Send
<1>3. CASE Clock
  BY <1>3, TickInv DEF Clock
<1>4. CASE signal_handler \/ Arrive \/ Kill \/ Ended \/ UNCHANGED vars
  <2>1. UNCHANGED rateVars
    BY <1>4, StepKeeps DEF signal_handler, Arrive, Kill, Ended, vars
  <2>. QED
    BY <2>1, <1>1
<1>5. CASE Daemon
  BY <1>1, <1>5, DaemonKeeps
<1>. QED
  BY <1>2, <1>3, <1>4, <1>5 DEF Next

(* The inductive invariant of the limit, in the whole life of a daemon.    *)
THEOREM RateInvariant == Spec => []RateInv
<1>1. Init => RateInv
  BY RateInitInv DEF Init
<1>2. QED
  BY <1>1, NextRateInv, PTL DEF Spec

(* The daemon never sends more than RATELIMIT messages of a kind within a  *)
(* second, for every limit and whenever its callbacks call                 *)
(* aodv_socket_send().                                                     *)
THEOREM RateIsLimited == Spec => []NoMoreThanLimit
<1>1. RateInv => NoMoreThanLimit
  <2>. SUFFICES ASSUME RateInv, NEW k \in Limited,
                       NEW i \in DOMAIN sent[k], NEW j \in DOMAIN sent[k], j - i >= RATELIMIT
                PROVE  sent[k][j] - sent[k][i] >= SECOND
    BY DEF NoMoreThanLimit
  <2>1. Holds(ratel[k], sent[k], clock)
    BY DEF RateInv
  <2>2. DOMAIN sent[k] = 1 .. Len(sent[k])
    BY SMTT(30), <2>1 DEF Holds
  <2>3. j - i >= RATELIMIT - 1
    BY SMTT(30), <2>1, <2>2, RateLimitAssumption DEF Holds
  <2>. QED
    BY <2>1, <2>2, <2>3 DEF Holds
<1>2. QED
  BY <1>1, RateInvariant, PTL

-----------------------------------------------------------------------------
(* The life of the process                                                 *)

Timers == {"gc", "worb", "hello", "rt_log"}
Funcs == {"nl", "nfq", "aodv", "llf"}
Tags == Services \cup {"stdin", "stdout", "stderr", Free}
Fds == 0 .. MaxFd \cup {NoFd}
Dests == UNION {o.dests : o \in Settings}
Packets == UNION {o.packets : o \in Settings}
Devs == [enabled : BOOLEAN, sock : Fds]
Watches == [fd : 0 .. MaxFd, func : Funcs]

(* The labels of main(), up to where each service is started. *)
Down == {"exit", "ended"}
PreLog == {"options", "detach", "log"}
PreTimers == PreLog \cup {"queue"}
PreIf == PreTimers \cup {"host"}
PreNl == PreIf \cup {"interface", "options_set", "netlink"}
PreNfq == PreNl \cup {"nfqueue"}
PreLlf == PreNfq \cup {"sockets", "llf"}
PreLoop == PreLlf \cup {"timers_set"}
Loop == {"age", "timers", "release", "select", "callbacks"}
Labels == PreLoop \cup Loop \cup Down

Process ==
    [at : Labels, opt : Options, atexit : BOOLEAN, sig : BOOLEAN, ret : Fds,
     fd : [0 .. MaxFd -> Tags], log_file_fd : Fds, log_rt_fd : Fds, rtnl_sock : Fds, rth_fd : Fds,
     nfq_handle : Fds, nfq_queue : BOOLEAN, nfq_socket : Fds, dev : Seq(Devs), cb : Seq(Watches),
     tq : SUBSET Timers, due : SUBSET Timers, rfds : SUBSET Nat, worb : BOOLEAN,
     rt : SUBSET Dests, fib : SUBSET Dests, pq : SUBSET Packets, kq : SUBSET Packets,
     hand : SUBSET Packets, todo : SUBSET Packets, abandoned : SUBSET Packets,
     misused : BOOLEAN, back : Loop, cleaned : 0 .. 7, iw_cached : BOOLEAN]

(* What cleanup() closes is what was opened for it, is free by now, or is  *)
(* the 0 of memory that nobody has written to; and 0 is never the queue.   *)
Own(p) ==
    /\ p.nfq_queue => p.nfq_handle # NoFd
    /\ p.nfq_handle # NoFd => p.nfq_handle # 0 /\ p.fd[p.nfq_handle] = "nfq"
    /\ p.rth_fd \notin {0, NoFd} => p.fd[p.rth_fd] \in {"llf", Free}
    /\ p.log_file_fd # NoFd => p.fd[p.log_file_fd] \in {"log", Free}
    /\ \A i \in 1 .. Len(p.dev) : p.dev[i].sock \notin {0, NoFd} => p.fd[p.dev[i].sock] \in {"aodv", Free}
    /\ Len(p.cb) <= CALLBACK_FUNCS

(* What has to be known of finite sets and of least numbers to count       *)
(* descriptors.  These are facts of the library, and InitOK in             *)
(* AodvLifeProofs takes them from there.  Here they go with the            *)
(* descriptors, so that no other proof has to look them up.                *)
Counting ==
    /\ \A S : IsFiniteSet(S) => Cardinality(S) \in Nat
    /\ \A S, T : IsFiniteSet(S) /\ T \subseteq S => IsFiniteSet(T)
    /\ \A S, x : IsFiniteSet(S) => IsFiniteSet(S \cup {x}) /\ Cardinality(S \cup {x}) <= Cardinality(S) + 1
    /\ \A S, T : IsFiniteSet(S) /\ IsFiniteSet(T) =>
          IsFiniteSet(S \cup T) /\ Cardinality(S \cup T) <= Cardinality(S) + Cardinality(T)
    /\ \A S, T, f : /\ IsFiniteSet(S) /\ IsFiniteSet(T) /\ f \in [S -> T]
                    /\ \A x, y \in S : f[x] = f[y] => x = y
          => Cardinality(S) <= Cardinality(T)
    /\ \A n \in Nat : IsFiniteSet(1 .. n) /\ Cardinality(1 .. n) = n
    /\ \A n \in Nat : IsFiniteSet(0 .. n) /\ Cardinality(0 .. n) = n + 1
    /\ \A I \in SUBSET Nat : I # {} => Min(I) \in I /\ \A i \in I : Min(I) <= i
    /\ IsFiniteSet({}) /\ Cardinality({}) = 0

(* Until exit(), there is at most one descriptor of each of these; the     *)
(* others are counted by the devices, and by the leaks.  What was opened   *)
(* is still open.                                                          *)
Singles == {"stdin", "stdout", "stderr", "log", "rt_log", "syslog", "if", "nl", "nfq", "llf"}
Leaks(p) == {n \in 0 .. MaxFd : p.fd[n] = "iw"}
Tidy(p) ==
    /\ Counting
    /\ \A m, n \in 0 .. MaxFd : p.fd[m] = p.fd[n] /\ p.fd[m] \in Singles => m = n
    /\ \A n \in 0 .. MaxFd : p.fd[n] = "aodv" => n # 0 /\ \E i \in 1 .. Len(p.dev) : p.dev[i].sock = n
    /\ Cardinality(Leaks(p)) <= MaxLeaks
    /\ Len(p.dev) <= MAX_NR_INTERFACES
    /\ p.nfq_queue => p.nfq_handle # NoFd
    /\ p.nfq_handle # NoFd => p.nfq_handle # 0 /\ p.fd[p.nfq_handle] = "nfq"
    /\ p.rth_fd \notin {0, NoFd} => p.fd[p.rth_fd] = "llf"
    /\ p.log_file_fd # NoFd => p.fd[p.log_file_fd] = "log"
    /\ \A i \in 1 .. Len(p.dev) :
          p.dev[i].sock # 0 => p.dev[i].sock # NoFd /\ p.fd[p.dev[i].sock] = "aodv"
    /\ \A i \in 1 .. Len(p.cb) : p.fd[p.cb[i].fd] = p.cb[i].func
    /\ Len(p.cb) <= CALLBACK_FUNCS

(* No descriptor is watched twice, and every socket of a device is. *)
Watched(p) ==
    /\ \A i, j \in 1 .. Len(p.cb) : p.cb[i].fd = p.cb[j].fd => i = j
    /\ \A i \in 1 .. Len(p.dev) : p.dev[i].sock # 0 =>
          \E j \in 1 .. Len(p.cb) : p.cb[j] = [fd |-> p.dev[i].sock, func |-> "aodv"]

(* What is open, and watched, at label l.  From nl_init() on descriptor 0  *)
(* is taken, so that the socket of a device is never 0.                    *)
Opened(p, tag) == \E n \in 0 .. MaxFd : p.fd[n] = tag
WatchedFor(p, func) == \E i \in 1 .. Len(p.cb) : p.cb[i].func = func
Staged(p, l) ==
    /\ l \in {"options", "detach"} =>
          \A n \in 0 .. MaxFd : p.fd[n] \in {"stdin", "stdout", "stderr", Free}
    /\ l \in PreLog => ~Opened(p, "log") /\ ~Opened(p, "rt_log")
    /\ Opened(p, "if") <=> l = "interface"
    /\ l \in PreNl => ~Opened(p, "nl")
    /\ l \in PreNfq => ~Opened(p, "nfq")
    /\ l \in PreLlf => ~Opened(p, "llf")
    /\ l \in PreIf => p.dev = <<>>
    /\ l = "interface" => Len(p.dev) < Len(p.opt.names) /\ Len(p.dev) < MAX_NR_INTERFACES
    /\ l \notin PreNl => /\ p.fd[0] # Free /\ WatchedFor(p, "nl")
                         /\ p.rtnl_sock # NoFd /\ p.fd[p.rtnl_sock] = "nl"
    /\ l \notin PreNfq => WatchedFor(p, "nfq")
    /\ l \notin PreNfq \cup {"sockets"} =>
          \A i \in 1 .. Len(p.dev) : p.dev[i].enabled => p.dev[i].sock # 0

Files(p) == Own(p) /\ (p.at \notin Down => Tidy(p) /\ Watched(p) /\ Staged(p, p.at))

(* Routes are there in the main loop, and until cleanup() deletes them on  *)
(* the netlink socket that is still open.                                  *)
Routes(p) ==
    /\ p.fib \subseteq p.rt /\ p.rt \subseteq p.opt.dests
    /\ p.rt # {} => /\ p.at \in Loop \/ (p.at = "exit" /\ p.cleaned = 0)
                    /\ p.atexit /\ p.rtnl_sock # NoFd /\ p.fd[p.rtnl_sock] = "nl"

(* Packets are held in the main loop, and until cleanup() decides on them, *)
(* which is before it gives up the queue; none is in hand then.            *)
Held(p) ==
    /\ p.pq \cup p.kq \cup p.hand \cup p.todo \subseteq p.opt.packets
    /\ p.at # "release" => p.hand = {} /\ p.todo = {}
    /\ p.pq # {} => p.at \in Loop \/ (p.at \in Down /\ p.cleaned < 5)
    /\ p.abandoned = {}
    /\ p.at \notin Down => p.cleaned = 0
    /\ p.cleaned >= 6 => p.nfq_handle = NoFd
    /\ p.at \notin {"options", "detach"} \cup Down => p.atexit

Aging(p) == p.due \subseteq p.tq /\ (p.at \notin PreTimers \cup Down => "gc" \in p.tq)

Alive(p) == p \in Process /\ Files(p) /\ Routes(p) /\ Held(p) /\ Aging(p) /\ ~ p.misused

-----------------------------------------------------------------------------
(* There is always a descriptor left                                       *)

LEMMA TenSingles == ASSUME Counting PROVE IsFiniteSet(Singles) /\ Cardinality(Singles) <= 10
<1>. DEFINE A == {"stdin", "stdout", "stderr"}  B == {"log", "rt_log", "syslog"}
            C == {"if", "nl", "nfq"}  D == {"llf"}  AB == A \cup B  ABC == AB \cup C
<1>1. /\ \A S : IsFiniteSet(S) => Cardinality(S) \in Nat
      /\ \A S, x : IsFiniteSet(S) => IsFiniteSet(S \cup {x}) /\ Cardinality(S \cup {x}) <= Cardinality(S) + 1
      /\ \A S, T : IsFiniteSet(S) /\ IsFiniteSet(T) =>
            IsFiniteSet(S \cup T) /\ Cardinality(S \cup T) <= Cardinality(S) + Cardinality(T)
      /\ IsFiniteSet({}) /\ Cardinality({}) = 0
  BY DEF Counting
<1>2. \A S, x : IsFiniteSet(S) => /\ IsFiniteSet(S \cup {x}) /\ Cardinality(S) \in Nat
                                  /\ Cardinality(S \cup {x}) \in Nat
                                  /\ Cardinality(S \cup {x}) <= Cardinality(S) + 1
  BY <1>1
<1>3. ASSUME NEW x, NEW y, NEW z PROVE IsFiniteSet({x, y, z}) /\ Cardinality({x, y, z}) <= 3
  <2>. DEFINE O == {}  X == {x}  Y == {x, y}  Z == {x, y, z}
  <2>1. X = O \cup {x} /\ Y = X \cup {y} /\ Z = Y \cup {z} /\ IsFiniteSet(O) /\ Cardinality(O) = 0
    BY <1>1
  <2>. HIDE DEF O, X, Y, Z
  <2>2. /\ IsFiniteSet(X) /\ Cardinality(X) \in Nat /\ Cardinality(X) <= Cardinality(O) + 1
        /\ IsFiniteSet(Y) /\ Cardinality(Y) \in Nat /\ Cardinality(Y) <= Cardinality(X) + 1
        /\ IsFiniteSet(Z) /\ Cardinality(Z) \in Nat /\ Cardinality(Z) <= Cardinality(Y) + 1
    BY <1>2, <2>1
  <2>3. IsFiniteSet(Z) /\ Cardinality(Z) <= 3
    BY SMTT(30), <2>1, <2>2
  <2>. QED
    BY <2>3 DEF Z
<1>4. /\ IsFiniteSet(A) /\ Cardinality(A) <= 3 /\ IsFiniteSet(B) /\ Cardinality(B) <= 3
      /\ IsFiniteSet(C) /\ Cardinality(C) <= 3
  BY <1>3
<1>5. Singles = ABC \cup D
  BY DEF Singles
<1>. HIDE DEF A, B, C
<1>6. IsFiniteSet(AB) /\ Cardinality(AB) <= 6
  BY SMTT(30), <1>1, <1>4
<1>. HIDE DEF AB
<1>7. IsFiniteSet(ABC) /\ Cardinality(ABC) <= 9
  BY SMTT(30), <1>1, <1>4, <1>6
<1>. HIDE DEF ABC
<1>8. IsFiniteSet(ABC \cup D) /\ Cardinality(ABC \cup D) <= Cardinality(ABC) + 1
  BY <1>1, <1>7
<1>9. Cardinality(ABC) \in Nat /\ Cardinality(ABC \cup D) \in Nat
  BY <1>1, <1>7, <1>8
<1>. QED
  BY SMTT(30), <1>5, <1>7, <1>8, <1>9

(* The open descriptors are counted by the services that opened them. *)
LEMMA Room ==
    ASSUME NEW p \in Process, Tidy(p)
    PROVE  \E n \in 0 .. MaxFd : p.fd[n] = Free
<1>. SUFFICES ASSUME \A n \in 0 .. MaxFd : p.fd[n] # Free PROVE FALSE
  OBVIOUS
<1>. DEFINE N == 0 .. MaxFd
            L == 1 .. Len(p.dev)
            A == {n \in N : p.fd[n] \in Singles}
            B == {n \in N : p.fd[n] = "aodv"}
            C == Leaks(p)
            f == [n \in A |-> p.fd[n]]
            g == [n \in B |-> CHOOSE i \in L : p.dev[i].sock = n]
<1>1. /\ p.fd \in [N -> Tags] /\ p.dev \in Seq(Devs) /\ Len(p.dev) \in Nat
      /\ MaxFd \in Nat /\ MaxLeaks \in Nat /\ MAX_NR_INTERFACES \in Nat
      /\ MaxFd >= 10 + MAX_NR_INTERFACES + MaxLeaks
  BY SMTT(30), StartAssumption DEF Process
<1>2. /\ \A S : IsFiniteSet(S) => Cardinality(S) \in Nat
      /\ \A S, T : IsFiniteSet(S) /\ T \subseteq S => IsFiniteSet(T)
      /\ \A S, T : IsFiniteSet(S) /\ IsFiniteSet(T) =>
            IsFiniteSet(S \cup T) /\ Cardinality(S \cup T) <= Cardinality(S) + Cardinality(T)
      /\ \A S, T, h : /\ IsFiniteSet(S) /\ IsFiniteSet(T) /\ h \in [S -> T]
                      /\ \A x, y \in S : h[x] = h[y] => x = y
            => Cardinality(S) <= Cardinality(T)
  BY DEF Tidy, Counting
<1>3. N = (A \cup B) \cup C
  BY <1>1 DEF Leaks, Tags, Services, Singles
<1>4. IsFiniteSet(N) /\ Cardinality(N) = MaxFd + 1 /\ IsFiniteSet(L) /\ Cardinality(L) = Len(p.dev)
  BY <1>1 DEF Tidy, Counting
<1>5. A \subseteq N /\ B \subseteq N /\ C \subseteq N
  BY DEF Leaks
<1>6. IsFiniteSet(A) /\ IsFiniteSet(B) /\ IsFiniteSet(C)
  <2>. HIDE DEF A, B, C, N
  <2>. QED
    BY <1>2, <1>4, <1>5
<1>7. f \in [A -> Singles] /\ \A m, n \in A : f[m] = f[n] => m = n
  BY DEF Tidy
<1>8. g \in [B -> L] /\ \A m, n \in B : g[m] = g[n] => m = n
  <2>1. \A n \in B : g[n] \in L /\ p.dev[g[n]].sock = n
    BY DEF Tidy
  <2>. QED
    BY <2>1
<1>9. Cardinality(C) <= MaxLeaks /\ Len(p.dev) <= MAX_NR_INTERFACES
  BY DEF Tidy
<1>10. IsFiniteSet(Singles) /\ Cardinality(Singles) <= 10
  BY TenSingles DEF Tidy
<1>. HIDE DEF A, B, C, N, L, f, g
<1>11. Cardinality(A) <= Cardinality(Singles)
  BY <1>2, <1>6, <1>7, <1>10
<1>12. Cardinality(B) <= Cardinality(L)
  BY <1>2, <1>4, <1>6, <1>8
<1>13. /\ IsFiniteSet(A \cup B)
       /\ Cardinality(A \cup B) <= Cardinality(A) + Cardinality(B)
       /\ Cardinality((A \cup B) \cup C) <= Cardinality(A \cup B) + Cardinality(C)
  BY <1>2, <1>6
<1>14. /\ Cardinality(A) \in Nat /\ Cardinality(B) \in Nat /\ Cardinality(C) \in Nat
       /\ Cardinality(A \cup B) \in Nat /\ Cardinality(Singles) \in Nat
  BY <1>2, <1>6, <1>10, <1>13
<1>. QED
  BY SMTT(30), <1>1, <1>3, <1>4, <1>9, <1>10, <1>11, <1>12, <1>13, <1>14

-----------------------------------------------------------------------------
(* Opening and closing                                                     *)

(* What is true of the files depends on these alone. *)
LEMMA SameFiles ==
    ASSUME NEW p, NEW q, q.fd = p.fd, q.dev = p.dev, q.cb = p.cb, q.nfq_queue = p.nfq_queue,
           q.nfq_handle = p.nfq_handle, q.rth_fd = p.rth_fd, q.log_file_fd = p.log_file_fd
    PROVE  /\ Tidy(p) => Tidy(q)
           /\ Own(p) => Own(q)
           /\ Watched(p) => Watched(q)
           /\ q.rtnl_sock = p.rtnl_sock /\ q.opt.names = p.opt.names =>
                 \A l : Staged(p, l) => Staged(q, l)
<1>1. Tidy(p) => Tidy(q)
  BY SMTT(30) DEF Tidy, Leaks
<1>2. Own(p) => Own(q)
  BY DEF Own
<1>3. Watched(p) => Watched(q)
  BY SMTT(30) DEF Watched
<1>4. ASSUME q.rtnl_sock = p.rtnl_sock, q.opt.names = p.opt.names, NEW l, Staged(p, l)
      PROVE  Staged(q, l)
  BY SMTT(30), <1>4 DEF Staged, Opened, WatchedFor
<1>. QED
  BY <1>1, <1>2, <1>3, <1>4

LEMMA TidyOwns == ASSUME NEW p, Tidy(p) PROVE Own(p)
  BY DEF Tidy, Own

LEMMA TidyParts ==
    ASSUME NEW q, Counting,
           \A m, n \in 0 .. MaxFd : q.fd[m] = q.fd[n] /\ q.fd[m] \in Singles => m = n,
           \A n \in 0 .. MaxFd : q.fd[n] = "aodv" => n # 0 /\ \E i \in 1 .. Len(q.dev) : q.dev[i].sock = n,
           Cardinality(Leaks(q)) <= MaxLeaks, Len(q.dev) <= MAX_NR_INTERFACES,
           q.nfq_queue => q.nfq_handle # NoFd,
           q.nfq_handle # NoFd => q.nfq_handle # 0 /\ q.fd[q.nfq_handle] = "nfq",
           q.rth_fd \notin {0, NoFd} => q.fd[q.rth_fd] = "llf",
           q.log_file_fd # NoFd => q.fd[q.log_file_fd] = "log",
           \A i \in 1 .. Len(q.dev) :
              q.dev[i].sock # 0 => q.dev[i].sock # NoFd /\ q.fd[q.dev[i].sock] = "aodv",
           \A i \in 1 .. Len(q.cb) : q.fd[q.cb[i].fd] = q.cb[i].func,
           Len(q.cb) <= CALLBACK_FUNCS
    PROVE  Tidy(q)
  BY DEF Tidy

(* Nothing is opened or closed, and what else changes fits. *)
LEMMA TidyWith ==
    ASSUME NEW p, Tidy(p), NEW q, q.fd = p.fd, q.dev = p.dev,
           \/ q.nfq_queue = p.nfq_queue /\ q.nfq_handle = p.nfq_handle
           \/ q.nfq_handle # NoFd /\ q.nfq_handle # 0 /\ q.fd[q.nfq_handle] = "nfq",
           q.rth_fd = p.rth_fd \/ q.rth_fd = NoFd \/ q.fd[q.rth_fd] = "llf",
           q.log_file_fd = p.log_file_fd \/ q.fd[q.log_file_fd] = "log",
           \/ q.cb = p.cb
           \/ Len(q.cb) <= CALLBACK_FUNCS /\ \A i \in 1 .. Len(q.cb) : p.fd[q.cb[i].fd] = q.cb[i].func
    PROVE  Tidy(q)
<1>1. Leaks(q) = Leaks(p)
  BY DEF Leaks
<1>2. /\ q.nfq_queue => q.nfq_handle # NoFd
      /\ q.nfq_handle # NoFd => q.nfq_handle # 0 /\ q.fd[q.nfq_handle] = "nfq"
  BY DEF Tidy
<1>3. /\ q.rth_fd \notin {0, NoFd} => q.fd[q.rth_fd] = "llf"
      /\ q.log_file_fd # NoFd => q.fd[q.log_file_fd] = "log"
  BY DEF Tidy
<1>4. (\A i \in 1 .. Len(q.cb) : q.fd[q.cb[i].fd] = q.cb[i].func) /\ Len(q.cb) <= CALLBACK_FUNCS
  <2>1. (\A i \in 1 .. Len(p.cb) : p.fd[p.cb[i].fd] = p.cb[i].func) /\ Len(p.cb) <= CALLBACK_FUNCS
    BY DEF Tidy
  <2>. QED
    BY SMTT(30), <2>1
<1>5. Counting /\ Cardinality(Leaks(q)) <= MaxLeaks /\ Len(q.dev) <= MAX_NR_INTERFACES
  BY <1>1 DEF Tidy
<1>6. \A m, n \in 0 .. MaxFd : q.fd[m] = q.fd[n] /\ q.fd[m] \in Singles => m = n
  BY DEF Tidy
<1>7. \A n \in 0 .. MaxFd : q.fd[n] = "aodv" => n # 0 /\ \E i \in 1 .. Len(q.dev) : q.dev[i].sock = n
  <2>1. \A n \in 0 .. MaxFd : p.fd[n] = "aodv" => n # 0 /\ \E i \in 1 .. Len(p.dev) : p.dev[i].sock = n
    BY DEF Tidy
  <2>. QED
    BY SMTT(30), <2>1
<1>8. \A i \in 1 .. Len(q.dev) :
         q.dev[i].sock # 0 => q.dev[i].sock # NoFd /\ q.fd[q.dev[i].sock] = "aodv"
  <2>1. \A i \in 1 .. Len(p.dev) :
           p.dev[i].sock # 0 => p.dev[i].sock # NoFd /\ p.fd[p.dev[i].sock] = "aodv"
    BY DEF Tidy
  <2>. QED
    BY SMTT(30), <2>1
<1>. QED
  BY <1>2, <1>3, <1>4, <1>5, <1>6, <1>7, <1>8, TidyParts

(* The lowest descriptor that is free, *)
Put(p, n, t) == [p EXCEPT !.fd[n] = t, !.ret = n]
Lowest(p, n) == n \in 0 .. MaxFd /\ p.fd[n] = Free /\ \A m \in 0 .. MaxFd : m < n => p.fd[m] # Free

LEMMA OpenAt ==
    ASSUME NEW p \in Process, Tidy(p), NEW t
    PROVE  \E n \in 0 .. MaxFd : Lowest(p, n) /\ open(p, t) = Put(p, n, t)
<1>. DEFINE S == {m \in 0 .. MaxFd : p.fd[m] = Free}  n == Min(S)
<1>1. S # {} /\ S \subseteq Nat
  BY SMTT(30), Room
<1>2. n \in S /\ \A m \in S : n <= m
  <2>. HIDE DEF S
  <2>. QED
    BY <1>1 DEF Tidy, Counting
<1>3. open(p, t) = Put(p, n, t)
  BY DEF open, Put
<1>4. ASSUME NEW m \in 0 .. MaxFd, m < n PROVE p.fd[m] # Free
  <2>. HIDE DEF n
  <2>. QED
    BY SMTT(30), <1>2, <1>4, StartAssumption
<1>. QED
  <2>. HIDE DEF n
  <2>. QED
    BY <1>2, <1>3, <1>4 DEF Lowest

(* and what does not change when it is taken. *)
Others(p, q) ==
    /\ q.at = p.at /\ q.opt = p.opt /\ q.atexit = p.atexit /\ q.sig = p.sig
    /\ q.log_file_fd = p.log_file_fd /\ q.log_rt_fd = p.log_rt_fd /\ q.rtnl_sock = p.rtnl_sock
    /\ q.rth_fd = p.rth_fd /\ q.nfq_handle = p.nfq_handle /\ q.nfq_queue = p.nfq_queue
    /\ q.nfq_socket = p.nfq_socket /\ q.dev = p.dev /\ q.cb = p.cb
    /\ q.tq = p.tq /\ q.due = p.due /\ q.rfds = p.rfds /\ q.worb = p.worb
    /\ q.rt = p.rt /\ q.fib = p.fib /\ q.pq = p.pq /\ q.kq = p.kq /\ q.hand = p.hand
    /\ q.todo = p.todo /\ q.abandoned = p.abandoned /\ q.misused = p.misused
    /\ q.back = p.back /\ q.cleaned = p.cleaned /\ q.iw_cached = p.iw_cached

With(p, f, n) == [p EXCEPT !.fd = f, !.ret = n]

LEMMA WithParts ==
    ASSUME NEW p \in Process, NEW f \in [0 .. MaxFd -> Tags], NEW n \in Fds
    PROVE  /\ With(p, f, n) \in Process /\ With(p, f, n).fd = f /\ With(p, f, n).ret = n
           /\ Others(p, With(p, f, n))
  BY DEF With, Process, Others

LEMMA PutParts ==
    ASSUME NEW p \in Process, NEW n \in 0 .. MaxFd, NEW t \in Tags, NEW q, q = Put(p, n, t)
    PROVE  /\ q \in Process /\ q.fd = [p.fd EXCEPT ![n] = t] /\ q.ret = n
           /\ Others(p, q)
<1>. DEFINE f == [p.fd EXCEPT ![n] = t]
<1>1. f \in [0 .. MaxFd -> Tags] /\ q = With(p, f, n) /\ n \in Fds
  BY DEF Put, With, Process, Fds
<1>. HIDE DEF f
<1>2. q \in Process /\ q.fd = f /\ q.ret = n /\ Others(p, q)
  BY SMTT(30), <1>1, WithParts
<1>. QED
  BY <1>2 DEF f

LEMMA DevParts ==
    ASSUME NEW p \in Process, NEW i \in 1 .. Len(p.dev)
    PROVE  p.dev[i] \in Devs /\ p.dev[i].sock \in Fds /\ p.dev[i].enabled \in BOOLEAN
<1>1. p.dev \in Seq(Devs)
  BY DEF Process
<1>2. p.dev[i] \in Devs
  BY SMTT(30), <1>1
<1>. QED
  BY <1>2 DEF Devs

LEMMA CbParts ==
    ASSUME NEW p \in Process, NEW i \in 1 .. Len(p.cb)
    PROVE  p.cb[i] \in Watches /\ p.cb[i].fd \in 0 .. MaxFd /\ p.cb[i].func \in Funcs
<1>1. p.cb \in Seq(Watches)
  BY DEF Process
<1>2. p.cb[i] \in Watches
  BY SMTT(30), <1>1
<1>. QED
  BY <1>2 DEF Watches

(* A descriptor that there is one of is opened. *)
LEMMA PutTidy ==
    ASSUME NEW p \in Process, NEW n \in 0 .. MaxFd, p.fd[n] = Free, Tidy(p),
           NEW t \in Singles \cup {"iw"}, t \in Singles => ~Opened(p, t),
           t = "iw" => Cardinality(Leaks(p)) < MaxLeaks
    PROVE  Tidy(Put(p, n, t))
<1>. DEFINE q == Put(p, n, t)
<1>1. /\ q \in Process /\ q.fd = [p.fd EXCEPT ![n] = t] /\ p.fd \in [0 .. MaxFd -> Tags]
      /\ q.dev = p.dev /\ q.cb = p.cb /\ q.nfq_queue = p.nfq_queue
      /\ q.nfq_handle = p.nfq_handle /\ q.rth_fd = p.rth_fd /\ q.log_file_fd = p.log_file_fd
  <2>1. t \in Tags /\ p.fd \in [0 .. MaxFd -> Tags]
    BY DEF Process, Tags, Singles, Services
  <2>2. q \in Process /\ q.fd = [p.fd EXCEPT ![n] = t] /\ Others(p, q)
    BY SMTT(30), <2>1, PutParts
  <2>. QED
    BY <2>1, <2>2 DEF Others
<1>. HIDE DEF q
<1>2. \A m, k \in 0 .. MaxFd : q.fd[m] = q.fd[k] /\ q.fd[m] \in Singles => m = k
  BY SMTT(30), <1>1 DEF Tidy, Opened
<1>3. \A m \in 0 .. MaxFd : q.fd[m] = "aodv" => m # 0 /\ \E i \in 1 .. Len(q.dev) : q.dev[i].sock = m
  BY SMTT(30), <1>1 DEF Tidy, Singles
<1>4. Cardinality(Leaks(q)) <= MaxLeaks
  <2>1. CASE t # "iw"
    <3>1. Leaks(q) = Leaks(p)
      BY <1>1, <2>1 DEF Leaks, Free
    <3>. QED
      BY <3>1 DEF Tidy
  <2>2. CASE t = "iw"
    <3>1. Leaks(q) = Leaks(p) \cup {n}
      BY <1>1, <2>2 DEF Leaks
    <3>2. IsFiniteSet(0 .. MaxFd) /\ Leaks(p) \subseteq 0 .. MaxFd
      BY StartAssumption DEF Leaks, Tidy, Counting
    <3>3. IsFiniteSet(Leaks(p)) /\ Cardinality(Leaks(p)) \in Nat
      BY <3>2 DEF Tidy, Counting
    <3>4. Cardinality(Leaks(q)) \in Nat /\ Cardinality(Leaks(q)) <= Cardinality(Leaks(p)) + 1
      BY <3>1, <3>3 DEF Tidy, Counting
    <3>. QED
      BY SMTT(30), <2>2, <3>3, <3>4, StartAssumption
  <2>. QED
    BY <2>1, <2>2
<1>5. /\ Len(q.dev) <= MAX_NR_INTERFACES /\ (q.nfq_queue => q.nfq_handle # NoFd)
      /\ q.nfq_handle # NoFd => q.nfq_handle # 0 /\ q.fd[q.nfq_handle] = "nfq"
      /\ q.rth_fd \notin {0, NoFd} => q.fd[q.rth_fd] = "llf"
      /\ q.log_file_fd # NoFd => q.fd[q.log_file_fd] = "log"
      /\ Len(q.cb) <= CALLBACK_FUNCS
  BY SMTT(30), <1>1 DEF Tidy, Process, Fds, Free
<1>6. /\ \A i \in 1 .. Len(q.dev) :
            q.dev[i].sock # 0 => q.dev[i].sock # NoFd /\ q.fd[q.dev[i].sock] = "aodv"
      /\ \A i \in 1 .. Len(q.cb) : q.fd[q.cb[i].fd] = q.cb[i].func
  <2>1. \A i \in 1 .. Len(p.dev) : p.dev[i].sock \in Fds
    BY DevParts
  <2>2. \A i \in 1 .. Len(p.cb) : p.cb[i].fd \in 0 .. MaxFd /\ p.cb[i].func # Free
    BY CbParts DEF Funcs, Free
  <2>. QED
    BY SMTT(30), <1>1, <2>1, <2>2 DEF Tidy, Fds, Free
<1>. QED
  BY <1>2, <1>3, <1>4, <1>5, <1>6 DEF Tidy, q

(* Nothing is opened but what is in T. *)
NoNew(p, q, T) == \A x \in Services \ T : Opened(q, x) => Opened(p, x)

(* open() for a service that has none yet *)
Took(p, q, n, t) ==
    /\ Lowest(p, n) /\ q \in Process /\ Others(p, q) /\ Tidy(q)
    /\ q.fd = [p.fd EXCEPT ![n] = t] /\ q.fd[n] = t /\ NoNew(p, q, {t}) /\ q.ret = n

LEMMA Opening ==
    ASSUME NEW p \in Process, Tidy(p), NEW t \in Singles \cup {"iw"}, t \in Singles => ~Opened(p, t),
           t = "iw" => Cardinality(Leaks(p)) < MaxLeaks
    PROVE  \E n \in 0 .. MaxFd : Took(p, open(p, t), n, t)
<1>1. PICK n \in 0 .. MaxFd : Lowest(p, n) /\ open(p, t) = Put(p, n, t)
  BY OpenAt
<1>. DEFINE q == open(p, t)
<1>2. t \in Tags /\ p.fd[n] = Free
  BY <1>1 DEF Lowest, Tags, Singles, Services
<1>3. q \in Process /\ q.fd = [p.fd EXCEPT ![n] = t] /\ q.ret = n /\ Others(p, q)
  BY <1>1, <1>2, PutParts
<1>4. Tidy(q)
  BY <1>1, <1>2, PutTidy
<1>. HIDE DEF q
<1>5. NoNew(p, q, {t}) /\ q.fd[n] = t
  <2>1. p.fd \in [0 .. MaxFd -> Tags]
    BY DEF Process
  <2>. QED
    BY <1>3, <2>1 DEF NoNew, Opened
<1>6. Took(p, q, n, t)
  BY <1>1, <1>3, <1>4, <1>5 DEF Took
<1>. QED
  BY <1>6 DEF q

LEMMA OpenFor ==
    ASSUME NEW p \in Process, Tidy(p), NEW t \in Singles, ~Opened(p, t)
    PROVE  \E n \in 0 .. MaxFd : Took(p, open(p, t), n, t)
<1>1. t # "iw"
  BY DEF Singles
<1>. QED
  BY <1>1, Opening

(* What syslog() and the wireless tools open is in nobody's way. *)
LEMMA StagedStays ==
    ASSUME NEW p \in Process, NEW q, NEW n \in 0 .. MaxFd, NEW t \in {"syslog", "iw"},
           p.fd[n] = Free, q.fd = [p.fd EXCEPT ![n] = t], Others(p, q),
           NEW l, l \notin {"options", "detach"}, Staged(p, l)
    PROVE  Staged(q, l)
<1>1. p.fd \in [0 .. MaxFd -> Tags] /\ p.rtnl_sock \in Fds /\ 0 \in 0 .. MaxFd
  BY SMTT(30), StartAssumption DEF Process
<1>2. \A x \in Services : x \notin {"syslog", "iw"} => (Opened(p, x) <=> Opened(q, x))
  BY <1>1 DEF Opened, Free, Services
<1>3. /\ Opened(q, "log") <=> Opened(p, "log")
      /\ Opened(q, "rt_log") <=> Opened(p, "rt_log")
      /\ Opened(q, "if") <=> Opened(p, "if")
      /\ Opened(q, "nl") <=> Opened(p, "nl")
      /\ Opened(q, "nfq") <=> Opened(p, "nfq")
      /\ Opened(q, "llf") <=> Opened(p, "llf")
  BY <1>2 DEF Services
<1>4. /\ q.dev = p.dev /\ q.cb = p.cb /\ q.opt = p.opt /\ q.rtnl_sock = p.rtnl_sock
  BY DEF Others
<1>5. /\ p.fd[0] # Free => q.fd[0] # Free
      /\ p.rtnl_sock # NoFd /\ p.fd[p.rtnl_sock] = "nl" => q.fd[p.rtnl_sock] = "nl"
  BY <1>1 DEF Fds, Free
<1>. QED
  BY SMTT(30), <1>3, <1>4, <1>5 DEF Staged, WatchedFor

LEMMA SyslogOK ==
    ASSUME NEW p \in Process, Tidy(p), NEW q, q = syslog(p)
    PROVE  /\ q \in Process /\ Others(p, q) /\ Tidy(q)
           /\ \A l : l \notin {"options", "detach"} /\ Staged(p, l) => Staged(q, l)
           /\ \A m \in 0 .. MaxFd : p.fd[m] # Free => q.fd[m] = p.fd[m]
           /\ NoNew(p, q, {"syslog"})
<1>1. CASE \E n \in 0 .. MaxFd : p.fd[n] = "syslog"
  BY <1>1 DEF syslog, Others, NoNew
<1>2. CASE ~ \E n \in 0 .. MaxFd : p.fd[n] = "syslog"
  <2>1. q = open(p, "syslog") /\ ~Opened(p, "syslog") /\ "syslog" \in Singles
    BY <1>2 DEF syslog, Opened, Singles
  <2>2. PICK n \in 0 .. MaxFd : Took(p, q, n, "syslog")
    BY <2>1, OpenFor
  <2>3. /\ p.fd[n] = Free /\ q \in Process /\ Others(p, q) /\ Tidy(q)
        /\ q.fd = [p.fd EXCEPT ![n] = "syslog"] /\ NoNew(p, q, {"syslog"})
    BY <2>2 DEF Lowest, Took
  <2>4. \A m \in 0 .. MaxFd : p.fd[m] # Free => q.fd[m] = p.fd[m]
    <3>1. p.fd \in [0 .. MaxFd -> Tags]
      BY DEF Process
    <3>. QED
      BY <2>3, <3>1
  <2>. QED
    BY <2>2, <2>3, <2>4, StagedStays
<1>. QED
  BY <1>1, <1>2

(* A line for the log file does no harm, so that alog() opens syslog and,  *)
(* with an error, exits.                                                   *)
LEMMA AlogIs ==
    ASSUME NEW p \in Process, Own(p)
    PROVE  /\ alog(p, "LOG_NOTICE") = syslog(p)
           /\ alog(p, "LOG_ERR") = Goto(syslog(p), "exit")
<1>1. ASSUME p.log_file_fd \notin {0, NoFd}
      PROVE  [p EXCEPT !.misused = @ \/ p.fd[p.log_file_fd] \notin {"log", Free}] = p
  <2>1. p.fd[p.log_file_fd] \in {"log", Free} /\ p.misused \in BOOLEAN
    BY <1>1 DEF Own, Process
  <2>2. (p.misused \/ p.fd[p.log_file_fd] \notin {"log", Free}) = p.misused
    BY <2>1
  <2>3. [p EXCEPT !.misused = p.misused] = p
    BY DEF Process
  <2>. QED
    BY <2>2, <2>3
<1>2. write_to_log_file(p) = p
  BY <1>1 DEF write_to_log_file
<1>. QED
  BY <1>2 DEF alog

LEMMA GotoParts ==
    ASSUME NEW p \in Process, NEW l \in Labels, NEW q, q = Goto(p, l)
    PROVE  /\ q \in Process /\ q.at = l /\ q.fd = p.fd /\ q.ret = p.ret
           /\ q.opt = p.opt /\ q.atexit = p.atexit /\ q.sig = p.sig
           /\ q.log_file_fd = p.log_file_fd /\ q.log_rt_fd = p.log_rt_fd /\ q.rtnl_sock = p.rtnl_sock
           /\ q.rth_fd = p.rth_fd /\ q.nfq_handle = p.nfq_handle /\ q.nfq_queue = p.nfq_queue
           /\ q.nfq_socket = p.nfq_socket /\ q.dev = p.dev /\ q.cb = p.cb
           /\ q.tq = p.tq /\ q.due = p.due /\ q.rfds = p.rfds /\ q.worb = p.worb
           /\ q.rt = p.rt /\ q.fib = p.fib /\ q.pq = p.pq /\ q.kq = p.kq /\ q.hand = p.hand
           /\ q.todo = p.todo /\ q.abandoned = p.abandoned /\ q.misused = p.misused
           /\ q.back = p.back /\ q.cleaned = p.cleaned /\ q.iw_cached = p.iw_cached
  BY DEF Goto, Process

-----------------------------------------------------------------------------
(* The start: until the loop there are no routes and no packets            *)

SameNet(p, q) ==
    /\ q.opt.dests = p.opt.dests /\ q.opt.packets = p.opt.packets
    /\ q.rt = p.rt /\ q.fib = p.fib /\ q.pq = p.pq /\ q.kq \subseteq p.kq /\ q.hand = p.hand
    /\ q.todo = p.todo /\ q.abandoned = p.abandoned /\ q.misused = p.misused
    /\ q.cleaned = p.cleaned /\ q.due = p.due /\ p.tq \subseteq q.tq /\ (p.atexit => q.atexit)

LEMMA StartStep ==
    ASSUME NEW p, NEW q, Alive(p), p.at \in PreLoop, q \in Process, SameNet(p, q),
           q.at \in PreLoop \cup {"age", "exit"}, Files(q),
           p.at \in PreTimers => q.at \in PreTimers \cup Down \/ "gc" \in q.tq,
           p.at \in {"options", "detach"} => q.at \in {"options", "detach"} \cup Down \/ q.atexit
    PROVE  Alive(q)
<1>1. p.at \notin Loop /\ p.at \notin Down
  BY DEF Alive, Process, PreLoop, PreLlf, PreNfq, PreNl, PreIf, PreTimers, PreLog, Loop, Down
<1>2. p.rt = {} /\ p.fib = {} /\ p.pq = {} /\ p.hand = {} /\ p.todo = {} /\ p.cleaned = 0
  BY <1>1 DEF Alive, Routes, Held, Down, Loop
<1>3. Routes(q)
  BY <1>2 DEF SameNet, Routes
<1>4. Held(q)
  BY SMTT(30), <1>1, <1>2 DEF SameNet, Held, Alive
<1>5. Aging(q)
  BY <1>1 DEF SameNet, Aging, Alive
<1>. QED
  BY <1>3, <1>4, <1>5 DEF Alive, SameNet

(* exit(), from anywhere but the middle of a release *)
LEMMA ToExit ==
    ASSUME NEW p, Alive(p), p.at \notin Down, p.at # "release", NEW q, q = Goto(p, "exit")
    PROVE  Alive(q)
<1>1. /\ q \in Process /\ q.at = "exit" /\ q.fd = p.fd /\ q.opt = p.opt /\ q.atexit = p.atexit
      /\ q.log_file_fd = p.log_file_fd /\ q.rtnl_sock = p.rtnl_sock
      /\ q.rth_fd = p.rth_fd /\ q.nfq_handle = p.nfq_handle /\ q.nfq_queue = p.nfq_queue
      /\ q.dev = p.dev /\ q.cb = p.cb /\ q.tq = p.tq /\ q.due = p.due
      /\ q.rt = p.rt /\ q.fib = p.fib /\ q.pq = p.pq /\ q.kq = p.kq /\ q.hand = p.hand
      /\ q.todo = p.todo /\ q.abandoned = p.abandoned /\ q.misused = p.misused
      /\ q.cleaned = p.cleaned
  BY SMTT(30), GotoParts DEF Alive, Labels, Down
<1>2. Own(q)
  BY <1>1, SameFiles DEF Alive, Files
<1>3. Files(q)
  BY <1>1, <1>2 DEF Files, Down
<1>4. Routes(q)
  BY <1>1 DEF Alive, Routes, Held
<1>5. Held(q)
  BY SMTT(30), <1>1 DEF Alive, Held, Down
<1>6. Aging(q)
  BY <1>1 DEF Alive, Aging, Down
<1>. QED
  BY <1>1, <1>3, <1>4, <1>5, <1>6 DEF Alive

LEMMA CallbackParts ==
    ASSUME NEW p \in Process, NEW c \in Seq(Watches), NEW q, q = [p EXCEPT !.cb = c]
    PROVE  /\ q \in Process /\ q.cb = c /\ q.fd = p.fd /\ q.ret = p.ret
           /\ q.at = p.at /\ q.opt = p.opt /\ q.atexit = p.atexit /\ q.sig = p.sig
           /\ q.log_file_fd = p.log_file_fd /\ q.log_rt_fd = p.log_rt_fd /\ q.rtnl_sock = p.rtnl_sock
           /\ q.rth_fd = p.rth_fd /\ q.nfq_handle = p.nfq_handle /\ q.nfq_queue = p.nfq_queue
           /\ q.nfq_socket = p.nfq_socket /\ q.dev = p.dev
           /\ q.rt = p.rt /\ q.fib = p.fib /\ q.pq = p.pq /\ q.kq = p.kq /\ q.hand = p.hand
           /\ q.todo = p.todo /\ q.abandoned = p.abandoned /\ q.misused = p.misused
           /\ q.cleaned = p.cleaned /\ q.due = p.due /\ q.tq = p.tq
  BY DEF Process

(* attach_callback_func() gives up, or watches a descriptor that nobody    *)
(* watches yet.                                                            *)
Attached(p, q, n, f) == q.cb = Append(p.cb, [fd |-> n, func |-> f])

Watching(p, q, n, f) ==
    /\ q \in Process /\ Tidy(q) /\ Attached(p, q, n, f)
    /\ q.fd = p.fd /\ q.ret = p.ret
    /\ q.at = p.at /\ q.opt = p.opt /\ q.atexit = p.atexit /\ q.sig = p.sig
    /\ q.log_file_fd = p.log_file_fd /\ q.log_rt_fd = p.log_rt_fd /\ q.rtnl_sock = p.rtnl_sock
    /\ q.rth_fd = p.rth_fd /\ q.nfq_handle = p.nfq_handle /\ q.nfq_queue = p.nfq_queue
    /\ q.nfq_socket = p.nfq_socket /\ q.dev = p.dev
    /\ SameNet(p, q) /\ q.tq = p.tq

LEMMA AttachOK ==
    ASSUME NEW p \in Process, Tidy(p), NEW n \in 0 .. MaxFd, NEW func \in Funcs, p.fd[n] = func,
           NEW q, q = attach_callback_func(p, n, func)
    PROVE  q = Goto(p, "exit") \/ Watching(p, q, n, func)
<1>. DEFINE w == [fd |-> n, func |-> func]
<1>1. CASE Len(p.cb) >= CALLBACK_FUNCS
  BY <1>1 DEF attach_callback_func
<1>2. CASE ~ (Len(p.cb) >= CALLBACK_FUNCS)
  <2>1. q = [p EXCEPT !.cb = Append(p.cb, w)]
    BY <1>2 DEF attach_callback_func
  <2>2. w \in Watches /\ w.fd = n /\ w.func = func
    BY DEF Watches
  <2>. HIDE DEF w
  <2>3. p.cb \in Seq(Watches) /\ Append(p.cb, w) \in Seq(Watches) /\ Len(p.cb) \in Nat
        /\ Len(Append(p.cb, w)) = Len(p.cb) + 1 /\ Append(p.cb, w)[Len(p.cb) + 1] = w
        /\ \A i \in 1 .. Len(p.cb) : Append(p.cb, w)[i] = p.cb[i]
    BY SMTT(30), <2>2 DEF Process
  <2>. DEFINE c == Append(p.cb, w)
  <2>. HIDE DEF c
  <2>4. c \in Seq(Watches) /\ q = [p EXCEPT !.cb = c]
    BY <2>1, <2>3 DEF c
  <2>5. /\ q \in Process /\ q.cb = c /\ q.fd = p.fd /\ q.ret = p.ret
        /\ q.at = p.at /\ q.opt = p.opt /\ q.atexit = p.atexit /\ q.sig = p.sig
        /\ q.log_file_fd = p.log_file_fd /\ q.log_rt_fd = p.log_rt_fd /\ q.rtnl_sock = p.rtnl_sock
        /\ q.rth_fd = p.rth_fd /\ q.nfq_handle = p.nfq_handle /\ q.nfq_queue = p.nfq_queue
        /\ q.nfq_socket = p.nfq_socket /\ q.dev = p.dev
        /\ q.rt = p.rt /\ q.fib = p.fib /\ q.pq = p.pq /\ q.kq = p.kq /\ q.hand = p.hand
        /\ q.todo = p.todo /\ q.abandoned = p.abandoned /\ q.misused = p.misused
        /\ q.cleaned = p.cleaned /\ q.due = p.due /\ q.tq = p.tq
    BY SMTT(30), <2>4, CallbackParts
  <2>6. Len(c) <= CALLBACK_FUNCS /\ \A i \in 1 .. Len(c) : p.fd[c[i].fd] = c[i].func
    <3>1. Len(c) <= CALLBACK_FUNCS
      BY SMTT(30), <1>2, <2>3, StartAssumption DEF c
    <3>2. ASSUME NEW i \in 1 .. Len(c) PROVE p.fd[c[i].fd] = c[i].func
      <4>1. CASE i = Len(p.cb) + 1
        BY <4>1, <2>2, <2>3 DEF c
      <4>2. CASE i # Len(p.cb) + 1
        <5>1. i \in 1 .. Len(p.cb) /\ c[i] = p.cb[i]
          BY SMTT(30), <4>2, <2>3 DEF c
        <5>. QED
          BY <5>1 DEF Tidy
      <4>. QED
        BY <4>1, <4>2
    <3>. QED
      BY <3>1, <3>2
  <2>7. Tidy(q)
    BY <2>5, <2>6, TidyWith
  <2>8. SameNet(p, q)
    BY <2>5 DEF SameNet
  <2>. QED
    BY <2>5, <2>7, <2>8 DEF c, w, Attached, Watching
<1>. QED
  BY <1>1, <1>2

(* Steps that go on to the next service, or exit *)
LEMMA FailsOK ==
    ASSUME Alive(d), NEW l \in PreLoop, Fails(l)
    PROVE  Alive(d')
<1>1. d.at \notin Down /\ d.at # "release" /\ d' = Goto(d, "exit")
  BY DEF Fails, Step, PreLoop, PreLlf, PreNfq, PreNl, PreIf, PreTimers, PreLog, Down
<1>. QED
  BY <1>1, ToExit

LEMMA GoesOn ==
    ASSUME NEW p, Alive(p), p.at \in PreLoop, NEW l \in PreLoop, Staged(p, l), NEW q, q = Goto(p, l),
           p.at \in PreTimers => l \in PreTimers,
           p.at \in {"options", "detach"} => l \in {"options", "detach"}
    PROVE  Alive(q)
<1>0. p.at \notin Down /\ l \in Labels /\ l \notin Down
  BY DEF PreLoop, PreLlf, PreNfq, PreNl, PreIf, PreTimers, PreLog, Down, Labels
<1>1. /\ q \in Process /\ q.at = l /\ q.fd = p.fd /\ q.opt = p.opt /\ q.atexit = p.atexit
      /\ q.log_file_fd = p.log_file_fd /\ q.rtnl_sock = p.rtnl_sock
      /\ q.rth_fd = p.rth_fd /\ q.nfq_handle = p.nfq_handle /\ q.nfq_queue = p.nfq_queue
      /\ q.dev = p.dev /\ q.cb = p.cb /\ q.tq = p.tq /\ q.due = p.due
      /\ q.rt = p.rt /\ q.fib = p.fib /\ q.pq = p.pq /\ q.kq = p.kq /\ q.hand = p.hand
      /\ q.todo = p.todo /\ q.abandoned = p.abandoned /\ q.misused = p.misused
      /\ q.cleaned = p.cleaned /\ q.atexit = p.atexit
  BY SMTT(30), <1>0, GotoParts DEF Alive
<1>2. Own(q) /\ Tidy(q) /\ Watched(q) /\ Staged(q, l)
  BY <1>0, <1>1, SameFiles DEF Alive, Files
<1>3. Files(q)
  BY <1>0, <1>1, <1>2 DEF Files
<1>4. SameNet(p, q)
  BY <1>1 DEF SameNet
<1>. QED
  BY <1>1, <1>3, <1>4, StartStep

LEMMA UsageOK == ASSUME Alive(d), usage \/ options PROVE Alive(d')
<1>1. CASE usage
  BY <1>1, FailsOK DEF usage, PreLoop, PreLlf, PreNfq, PreNl, PreIf, PreTimers, PreLog
<1>2. CASE options
  <2>1. d.at = "options" /\ d' = Goto(d, "detach")
    BY <1>2 DEF options, Step
  <2>2. Staged(d, "options")
    BY <2>1 DEF Alive, Files, Down
  <2>3. Staged(d, "detach")
    BY <2>2 DEF Staged, PreLoop, PreLlf, PreNfq, PreNl, PreIf, PreTimers, PreLog
  <2>. QED
    BY <2>1, <2>3, GoesOn DEF PreLoop, PreLlf, PreNfq, PreNl, PreIf, PreTimers, PreLog
<1>. QED
  BY <1>1, <1>2

LEMMA SetKernelOptionsOK == ASSUME Alive(d), set_kernel_options PROVE Alive(d')
<1>1. CASE Fails("options_set")
  BY <1>1, FailsOK DEF PreLoop, PreLlf, PreNfq, PreNl, PreIf, PreTimers, PreLog
<1>2. CASE Step("options_set", Goto(d, "netlink"))
  <2>1. d.at = "options_set" /\ d' = Goto(d, "netlink")
    BY <1>2 DEF Step
  <2>2. Staged(d, "options_set")
    BY <2>1 DEF Alive, Files, Down
  <2>3. Staged(d, "netlink")
    BY <2>2 DEF Staged, PreLoop, PreLlf, PreNfq, PreNl, PreIf, PreTimers, PreLog
  <2>. QED
    BY <2>1, <2>3, GoesOn DEF PreLoop, PreLlf, PreNfq, PreNl, PreIf, PreTimers, PreLog
<1>. QED
  BY <1>1, <1>2 DEF set_kernel_options

(* close() of what nobody reads *)
LEMMA CloseTidy ==
    ASSUME NEW p \in Process, Tidy(p), NEW n \in 0 .. MaxFd, p.fd[n] \notin Funcs \cup {"log", "iw"},
           NEW q, q = close(p, n)
    PROVE  q \in Process /\ Others(p, q) /\ q.fd = [p.fd EXCEPT ![n] = Free] /\ q.ret = p.ret /\ Tidy(q)
<1>. DEFINE f == [p.fd EXCEPT ![n] = Free]
<1>1. f \in [0 .. MaxFd -> Tags] /\ q = With(p, f, p.ret) /\ p.ret \in Fds /\ p.fd \in [0 .. MaxFd -> Tags]
  BY DEF close, With, Process, Tags
<1>. HIDE DEF f
<1>2. q \in Process /\ q.fd = f /\ q.ret = p.ret /\ Others(p, q)
  BY SMTT(30), <1>1, WithParts
<1>3. /\ q.dev = p.dev /\ q.cb = p.cb /\ q.nfq_queue = p.nfq_queue
      /\ q.nfq_handle = p.nfq_handle /\ q.rth_fd = p.rth_fd /\ q.log_file_fd = p.log_file_fd
  BY <1>2 DEF Others
<1>0. q.fd[n] = Free /\ \A m \in 0 .. MaxFd : m # n => q.fd[m] = p.fd[m]
  BY <1>1, <1>2 DEF f
<1>4. \A m, k \in 0 .. MaxFd : q.fd[m] = q.fd[k] /\ q.fd[m] \in Singles => m = k
  BY <1>0 DEF Tidy, Singles, Free
<1>5. \A m \in 0 .. MaxFd : q.fd[m] = "aodv" => m # 0 /\ \E i \in 1 .. Len(q.dev) : q.dev[i].sock = m
  BY SMTT(30), <1>0, <1>3 DEF Tidy, Free
<1>6. Leaks(q) = Leaks(p)
  BY <1>0 DEF Leaks, Free
<1>7. /\ Len(q.dev) <= MAX_NR_INTERFACES /\ (q.nfq_queue => q.nfq_handle # NoFd)
      /\ q.nfq_handle # NoFd => q.nfq_handle # 0 /\ q.fd[q.nfq_handle] = "nfq"
      /\ q.rth_fd \notin {0, NoFd} => q.fd[q.rth_fd] = "llf"
      /\ q.log_file_fd # NoFd => q.fd[q.log_file_fd] = "log"
      /\ Len(q.cb) <= CALLBACK_FUNCS
  <2>1. p.nfq_handle \in Fds /\ p.rth_fd \in Fds /\ p.log_file_fd \in Fds
    BY DEF Process
  <2>. QED
    BY SMTT(30), <1>0, <1>3, <2>1 DEF Tidy, Fds, Funcs
<1>8. /\ \A i \in 1 .. Len(q.dev) :
            q.dev[i].sock # 0 => q.dev[i].sock # NoFd /\ q.fd[q.dev[i].sock] = "aodv"
      /\ \A i \in 1 .. Len(q.cb) : q.fd[q.cb[i].fd] = q.cb[i].func
  <2>1. \A i \in 1 .. Len(p.dev) : p.dev[i].sock \in Fds
    BY DevParts
  <2>2. \A i \in 1 .. Len(p.cb) : p.cb[i].fd \in 0 .. MaxFd /\ p.cb[i].func \in Funcs
    BY CbParts
  <2>. QED
    <3>1. ASSUME NEW i \in 1 .. Len(p.dev), p.dev[i].sock # 0
          PROVE  p.dev[i].sock # NoFd /\ q.fd[p.dev[i].sock] = "aodv"
      <4>1. p.dev[i].sock # NoFd /\ p.fd[p.dev[i].sock] = "aodv" /\ p.dev[i].sock \in 0 .. MaxFd
        BY <2>1, <3>1 DEF Tidy, Fds
      <4>. QED
        BY <1>0, <4>1 DEF Funcs
    <3>2. ASSUME NEW i \in 1 .. Len(p.cb) PROVE q.fd[p.cb[i].fd] = p.cb[i].func
      <4>1. p.fd[p.cb[i].fd] = p.cb[i].func
        BY DEF Tidy
      <4>. QED
        BY <1>0, <2>2, <4>1
    <3>. QED
      BY <1>3, <3>1, <3>2
<1>9. Tidy(q)
  BY <1>4, <1>5, <1>6, <1>7, <1>8 DEF Tidy
<1>. QED
  BY <1>2, <1>9 DEF f

(* The files of a step to the next service, and of one to exit() *)
LEMMA StartFiles ==
    ASSUME NEW q, Tidy(q), q.at = "exit" \/ (Watched(q) /\ Staged(q, q.at))
    PROVE  Files(q)
  BY TidyOwns DEF Files, Down

LEMMA NetOfOthers == ASSUME NEW p, NEW q, Others(p, q) PROVE SameNet(p, q)
  BY DEF Others, SameNet

Std == {"stdin", "stdout", "stderr", Free}

LEMMA DetachOK == ASSUME Alive(d), detach PROVE Alive(d')
<1>. DEFINE p == IF d.opt.daemonize THEN close(close(d, 1), 2) ELSE d
<1>1. d.at = "detach" /\ d' = Goto([p EXCEPT !.atexit = TRUE], "log")
  BY DEF detach, Step
<1>2. Tidy(d) /\ Watched(d) /\ Staged(d, "detach") /\ d \in Process
  BY <1>1 DEF Alive, Files, Down
<1>3. \A n \in 0 .. MaxFd : d.fd[n] \in Std
  BY <1>2 DEF Staged, Std
<1>4. p \in Process /\ Tidy(p) /\ Others(d, p) /\ \A n \in 0 .. MaxFd : p.fd[n] \in Std
  <2>1. CASE d.opt.daemonize
    <3>. DEFINE c == close(d, 1)
    <3>0. 1 \in 0 .. MaxFd /\ 2 \in 0 .. MaxFd
      BY SMTT(30), StartAssumption
    <3>1. c \in Process /\ Others(d, c) /\ c.fd = [d.fd EXCEPT ![1] = Free] /\ Tidy(c)
      BY <3>0, <1>2, <1>3, CloseTidy DEF Std, Funcs, Free
    <3>. HIDE DEF c
    <3>2. \A n \in 0 .. MaxFd : c.fd[n] \in Std
      BY <3>1, <1>2, <1>3 DEF Std, Process
    <3>3. close(c, 2) \in Process /\ Others(c, close(c, 2)) /\ close(c, 2).fd = [c.fd EXCEPT ![2] = Free]
          /\ Tidy(close(c, 2))
      BY <3>0, <3>1, <3>2, CloseTidy DEF Std, Funcs, Free
    <3>4. p = close(c, 2)
      BY <2>1 DEF c
    <3>. HIDE DEF p
    <3>5. \A n \in 0 .. MaxFd : p.fd[n] \in Std
      BY <3>1, <3>2, <3>3, <3>4 DEF Std, Process
    <3>6. Others(d, p)
      BY <3>1, <3>3, <3>4 DEF Others
    <3>. QED
      BY <3>3, <3>4, <3>5, <3>6
  <2>2. CASE ~ d.opt.daemonize
    BY <2>2, <1>2, <1>3 DEF Others
  <2>. QED
    BY <2>1, <2>2
<1>. HIDE DEF p
<1>. DEFINE q == Goto([p EXCEPT !.atexit = TRUE], "log")
<1>5. /\ q \in Process /\ q.at = "log" /\ q.fd = p.fd /\ q.opt = p.opt
      /\ q.log_file_fd = p.log_file_fd /\ q.rtnl_sock = p.rtnl_sock
      /\ q.rth_fd = p.rth_fd /\ q.nfq_handle = p.nfq_handle /\ q.nfq_queue = p.nfq_queue
      /\ q.dev = p.dev /\ q.cb = p.cb /\ q.tq = p.tq /\ q.due = p.due
      /\ q.rt = p.rt /\ q.fib = p.fib /\ q.pq = p.pq /\ q.kq = p.kq /\ q.hand = p.hand
      /\ q.todo = p.todo /\ q.abandoned = p.abandoned /\ q.misused = p.misused
      /\ q.cleaned = p.cleaned /\ q.atexit = TRUE
  BY <1>4 DEF Goto, Process, Labels, PreLoop, PreLlf, PreNfq, PreNl, PreIf, PreTimers, PreLog
<1>. HIDE DEF q
<1>6. Tidy(q) /\ Watched(q)
  <2>1. Watched(p)
    BY SMTT(30), <1>2, <1>4 DEF Watched, Others
  <2>. QED
    BY <2>1, <1>4, <1>5, SameFiles
<1>7. Staged(q, "log")
  <2>1. p.dev = <<>>
    BY <1>2, <1>4 DEF Staged, Others, PreIf, PreTimers, PreLog
  <2>2. \A x \in Services : ~Opened(q, x)
    BY <1>4, <1>5 DEF Opened, Std, Services, Free
  <2>3. ~Opened(q, "log") /\ ~Opened(q, "rt_log") /\ ~Opened(q, "if") /\ ~Opened(q, "nl")
        /\ ~Opened(q, "nfq") /\ ~Opened(q, "llf")
    BY <2>2 DEF Services
  <2>. QED
    BY <2>1, <2>3, <1>5 DEF Staged, PreNfq, PreNl, PreIf, PreTimers, PreLog
<1>8. SameNet(d, q)
  BY <1>4, <1>5 DEF SameNet, Others
<1>9. Files(q)
  BY <1>5, <1>6, <1>7, StartFiles
<1>. QED
  BY <1>1, <1>5, <1>8, <1>9, StartStep DEF q, PreLoop, PreLlf, PreNfq, PreNl, PreIf, PreTimers, PreLog

-----------------------------------------------------------------------------
(* The services of main(), one after another                               *)

(* log_init(): the log file, then the log of the routing table *)
LEMMA LogParts ==
    ASSUME NEW r \in Process, NEW n \in Fds,
           NEW q, q = [r EXCEPT !.log_file_fd = n] \/ q = [r EXCEPT !.log_rt_fd = n]
    PROVE  /\ q \in Process
           /\ q.fd = r.fd /\ q.dev = r.dev /\ q.cb = r.cb /\ q.nfq_queue = r.nfq_queue
           /\ q.nfq_handle = r.nfq_handle /\ q.rth_fd = r.rth_fd /\ q.log_file_fd \in {r.log_file_fd, n}
           /\ q.at = r.at /\ q.opt = r.opt
           /\ q.rt = r.rt /\ q.fib = r.fib /\ q.pq = r.pq /\ q.kq = r.kq /\ q.hand = r.hand
           /\ q.todo = r.todo /\ q.abandoned = r.abandoned /\ q.misused = r.misused
           /\ q.cleaned = r.cleaned /\ q.due = r.due /\ q.tq = r.tq /\ q.atexit = r.atexit
<1>1. CASE q = [r EXCEPT !.log_file_fd = n]
  BY <1>1 DEF Process
<1>2. CASE q = [r EXCEPT !.log_rt_fd = n]
  BY <1>2 DEF Process
<1>. QED
  BY <1>1, <1>2

Logged(r, t) == IF t = "log" THEN [r EXCEPT !.log_file_fd = r.ret] ELSE [r EXCEPT !.log_rt_fd = r.ret]

LEMMA LogFile ==
    ASSUME NEW p \in Process, Tidy(p), NEW t \in {"log", "rt_log"}, ~Opened(p, t),
           NEW q, q = Logged(open(p, t), t)
    PROVE  /\ q \in Process /\ Tidy(q) /\ NoNew(p, q, {t}) /\ SameNet(p, q)
           /\ q.dev = p.dev /\ q.cb = p.cb /\ q.tq = p.tq
<1>. DEFINE r == open(p, t)
<1>0. t \in Singles
  BY DEF Singles
<1>. PICK n \in 0 .. MaxFd : Took(p, r, n, t)
  BY <1>0, OpenFor
<1>1. /\ r \in Process /\ Others(p, r) /\ Tidy(r) /\ NoNew(p, r, {t}) /\ r.ret = n /\ r.fd[n] = t
  BY DEF Took
<1>. HIDE DEF r
<1>2. n \in Fds /\ (q = [r EXCEPT !.log_file_fd = n] \/ q = [r EXCEPT !.log_rt_fd = n])
  BY <1>1 DEF Fds, Logged, r
<1>4. /\ q \in Process
      /\ q.fd = r.fd /\ q.dev = r.dev /\ q.cb = r.cb /\ q.nfq_queue = r.nfq_queue
      /\ q.nfq_handle = r.nfq_handle /\ q.rth_fd = r.rth_fd
      /\ q.at = r.at /\ q.opt = r.opt
      /\ q.rt = r.rt /\ q.fib = r.fib /\ q.pq = r.pq /\ q.kq = r.kq /\ q.hand = r.hand
      /\ q.todo = r.todo /\ q.abandoned = r.abandoned /\ q.misused = r.misused
      /\ q.cleaned = r.cleaned /\ q.due = r.due /\ q.tq = r.tq /\ q.atexit = r.atexit
  BY SMTT(30), <1>1, <1>2, LogParts
<1>5. q.log_file_fd = r.log_file_fd \/ (q.log_file_fd = n /\ r.fd[n] = "log")
  <2>1. CASE t = "log"
    BY SMTT(30), <2>1, <1>1, <1>2, LogParts
  <2>2. CASE t = "rt_log"
    <3>1. q = [r EXCEPT !.log_rt_fd = n]
      BY <2>2, <1>1 DEF Logged, r
    <3>. QED
      BY <3>1, <1>1 DEF Process
  <2>. QED
    BY <2>1, <2>2
<1>6. Tidy(q)
  BY <1>1, <1>4, <1>5, TidyWith
<1>7. NoNew(p, q, {t})
  BY SMTT(30), <1>1, <1>4 DEF NoNew, Opened
<1>8. SameNet(p, q) /\ q.dev = p.dev /\ q.cb = p.cb /\ q.tq = p.tq
  BY <1>1, <1>4 DEF Others, SameNet
<1>. QED
  BY <1>4, <1>6, <1>7, <1>8

(* A step of the start to label l, for files that are tidy *)
LEMMA Onward ==
    ASSUME NEW p, Alive(p), p.at \in PreLoop, NEW r \in Process, SameNet(p, r), Tidy(r),
           NEW l \in PreLoop \cup {"age", "exit"}, l # "exit" => Watched(r) /\ Staged(r, l),
           p.at \in PreTimers => l \in PreTimers \cup Down \/ "gc" \in r.tq,
           p.at \notin {"options", "detach"},
           NEW q, q = Goto(r, l)
    PROVE  Alive(q)
<1>0. l \in Labels
  BY DEF Labels, Loop, Down
<1>1. /\ q \in Process /\ q.at = l /\ q.fd = r.fd /\ q.opt = r.opt
      /\ q.log_file_fd = r.log_file_fd /\ q.rtnl_sock = r.rtnl_sock
      /\ q.rth_fd = r.rth_fd /\ q.nfq_handle = r.nfq_handle /\ q.nfq_queue = r.nfq_queue
      /\ q.dev = r.dev /\ q.cb = r.cb /\ q.tq = r.tq /\ q.due = r.due
      /\ q.rt = r.rt /\ q.fib = r.fib /\ q.pq = r.pq /\ q.kq = r.kq /\ q.hand = r.hand
      /\ q.todo = r.todo /\ q.abandoned = r.abandoned /\ q.misused = r.misused
      /\ q.cleaned = r.cleaned /\ q.atexit = r.atexit
  BY SMTT(30), <1>0, GotoParts
<1>2. Tidy(q) /\ (l # "exit" => Watched(q) /\ Staged(q, l))
  BY <1>1, SameFiles
<1>3. Files(q)
  BY <1>1, <1>2, StartFiles
<1>4. SameNet(p, q)
  BY <1>1 DEF SameNet
<1>. QED
  BY <1>1, <1>3, <1>4, StartStep

LEMMA LogInitOK == ASSUME Alive(d), log_init PROVE Alive(d')
<1>. DEFINE a == open(d, "log")
            p == IF d.opt.log_to_file THEN [a EXCEPT !.log_file_fd = a.ret] ELSE d
            b == open(p, "rt_log")
            q == IF d.opt.rt_log THEN [b EXCEPT !.log_rt_fd = b.ret] ELSE p
<1>1. d.at = "log" /\ (d' = Goto(q, "queue") \/ d' = Goto(d, "exit") \/ d' = Goto(p, "exit"))
  BY DEF log_init, Step, Fails
<1>2. Tidy(d) /\ Watched(d) /\ Staged(d, "log") /\ d \in Process
  BY <1>1 DEF Alive, Files, Down
<1>3. /\ ~Opened(d, "log") /\ ~Opened(d, "rt_log") /\ ~Opened(d, "if") /\ ~Opened(d, "nl")
      /\ ~Opened(d, "nfq") /\ ~Opened(d, "llf") /\ d.dev = <<>>
  BY <1>2 DEF Staged, PreLlf, PreNfq, PreNl, PreIf, PreTimers, PreLog
<1>4. /\ p \in Process /\ Tidy(p) /\ NoNew(d, p, {"log"}) /\ SameNet(d, p)
      /\ p.dev = d.dev /\ p.cb = d.cb /\ p.tq = d.tq
  <2>1. CASE d.opt.log_to_file
    <3>1. p = Logged(open(d, "log"), "log")
      BY <2>1 DEF Logged
    <3>. HIDE DEF p
    <3>. QED
      BY <3>1, <1>2, <1>3, LogFile
  <2>2. CASE ~ d.opt.log_to_file
    BY <2>2, <1>2 DEF NoNew, SameNet
  <2>. QED
    BY <2>1, <2>2
<1>. HIDE DEF p
<1>5. ~Opened(p, "rt_log")
  BY <1>3, <1>4 DEF NoNew, Services
<1>6. /\ q \in Process /\ Tidy(q) /\ NoNew(p, q, {"rt_log"}) /\ SameNet(p, q)
      /\ q.dev = p.dev /\ q.cb = p.cb /\ q.tq = p.tq
  <2>1. CASE d.opt.rt_log
    <3>1. q = Logged(open(p, "rt_log"), "rt_log")
      BY <2>1 DEF Logged
    <3>. HIDE DEF q
    <3>. QED
      BY <3>1, <1>4, <1>5, LogFile
  <2>2. CASE ~ d.opt.rt_log
    BY <2>2, <1>4 DEF NoNew, SameNet
  <2>. QED
    BY <2>1, <2>2
<1>. HIDE DEF q
<1>7. SameNet(d, q)
  BY <1>4, <1>6 DEF SameNet
<1>8. Watched(q)
  BY SMTT(30), <1>2, <1>4, <1>6 DEF Watched
<1>9. Staged(q, "queue")
  <2>1. ~Opened(q, "if") /\ ~Opened(q, "nl") /\ ~Opened(q, "nfq") /\ ~Opened(q, "llf")
    BY <1>3, <1>4, <1>6 DEF NoNew, Services
  <2>. QED
    BY <2>1, <1>3, <1>4, <1>6 DEF Staged, PreLlf, PreNfq, PreNl, PreIf, PreTimers, PreLog
<1>10. CASE d' = Goto(q, "queue")
  BY <1>1, <1>6, <1>7, <1>8, <1>9, <1>10, Onward DEF PreLoop, PreLlf, PreNfq, PreNl, PreIf, PreTimers, PreLog
<1>11. CASE d' = Goto(d, "exit")
  BY <1>1, <1>11, ToExit DEF Down
<1>12. CASE d' = Goto(p, "exit")
  BY <1>1, <1>4, <1>12, Onward DEF PreLoop, PreLlf, PreNfq, PreNl, PreIf, PreTimers, PreLog, Down
<1>. QED
  BY <1>1, <1>10, <1>11, <1>12

(* packet_queue_init() *)
LEMMA TqParts ==
    ASSUME NEW p \in Process, NEW S \in SUBSET Timers, p.tq \subseteq S, NEW q, q = [p EXCEPT !.tq = S]
    PROVE  /\ q \in Process /\ q.tq = S /\ SameNet(p, q)
           /\ q.fd = p.fd /\ q.dev = p.dev /\ q.cb = p.cb /\ q.opt = p.opt /\ q.at = p.at
           /\ q.log_file_fd = p.log_file_fd /\ q.rtnl_sock = p.rtnl_sock
           /\ q.rth_fd = p.rth_fd /\ q.nfq_handle = p.nfq_handle /\ q.nfq_queue = p.nfq_queue
           /\ q.atexit = p.atexit
<1>1. /\ q \in Process /\ q.tq = S
      /\ q.fd = p.fd /\ q.dev = p.dev /\ q.cb = p.cb /\ q.opt = p.opt /\ q.at = p.at
      /\ q.log_file_fd = p.log_file_fd /\ q.rtnl_sock = p.rtnl_sock
      /\ q.rth_fd = p.rth_fd /\ q.nfq_handle = p.nfq_handle /\ q.nfq_queue = p.nfq_queue
      /\ q.rt = p.rt /\ q.fib = p.fib /\ q.pq = p.pq /\ q.kq = p.kq /\ q.hand = p.hand
      /\ q.todo = p.todo /\ q.abandoned = p.abandoned /\ q.misused = p.misused
      /\ q.cleaned = p.cleaned /\ q.due = p.due /\ q.atexit = p.atexit
  BY DEF Process
<1>. QED
  BY <1>1 DEF SameNet

LEMMA PacketQueueInitOK == ASSUME Alive(d), packet_queue_init PROVE Alive(d')
<1>. DEFINE S == d.tq \cup {"gc"}  r == [d EXCEPT !.tq = S]
<1>1. d.at = "queue" /\ d' = Goto(r, "host")
  BY DEF packet_queue_init, Step
<1>2. Tidy(d) /\ Watched(d) /\ Staged(d, "queue") /\ d \in Process
  BY <1>1 DEF Alive, Files, Down
<1>3. /\ r \in Process /\ r.tq = S /\ SameNet(d, r)
      /\ r.fd = d.fd /\ r.dev = d.dev /\ r.cb = d.cb /\ r.opt = d.opt
      /\ r.log_file_fd = d.log_file_fd /\ r.rtnl_sock = d.rtnl_sock
      /\ r.rth_fd = d.rth_fd /\ r.nfq_handle = d.nfq_handle /\ r.nfq_queue = d.nfq_queue
  <2>1. S \in SUBSET Timers /\ d.tq \subseteq S
    BY <1>2 DEF Timers, Process
  <2>. HIDE DEF S
  <2>. QED
    BY SMTT(30), <1>2, <2>1, TqParts
<1>. HIDE DEF r
<1>4. Staged(d, "host")
  BY <1>2 DEF Staged, PreNfq, PreLlf, PreNl, PreIf, PreTimers, PreLog
<1>5. Tidy(r) /\ Watched(r) /\ Staged(r, "host")
  BY <1>2, <1>3, <1>4, SameFiles
<1>6. "gc" \in r.tq
  BY <1>3
<1>. QED
  BY <1>1, <1>3, <1>5, <1>6, Onward DEF PreLoop, PreLlf, PreNfq, PreNl, PreIf, PreTimers, PreLog

(* host_init() before its loop *)
LEMMA OptParts ==
    ASSUME NEW p \in Process, NEW o \in Options, o.dests = p.opt.dests, o.packets = p.opt.packets,
           NEW q, q = [p EXCEPT !.opt = o]
    PROVE  /\ q \in Process /\ q.opt = o /\ SameNet(p, q)
           /\ q.fd = p.fd /\ q.dev = p.dev /\ q.cb = p.cb
           /\ q.log_file_fd = p.log_file_fd /\ q.rtnl_sock = p.rtnl_sock
           /\ q.rth_fd = p.rth_fd /\ q.nfq_handle = p.nfq_handle /\ q.nfq_queue = p.nfq_queue
<1>1. /\ q \in Process /\ q.opt = o /\ q.tq = p.tq
      /\ q.fd = p.fd /\ q.dev = p.dev /\ q.cb = p.cb
      /\ q.log_file_fd = p.log_file_fd /\ q.rtnl_sock = p.rtnl_sock
      /\ q.rth_fd = p.rth_fd /\ q.nfq_handle = p.nfq_handle /\ q.nfq_queue = p.nfq_queue
      /\ q.rt = p.rt /\ q.fib = p.fib /\ q.pq = p.pq /\ q.kq = p.kq /\ q.hand = p.hand
      /\ q.todo = p.todo /\ q.abandoned = p.abandoned /\ q.misused = p.misused
      /\ q.cleaned = p.cleaned /\ q.due = p.due /\ q.atexit = p.atexit
  BY DEF Process
<1>. QED
  BY <1>1 DEF SameNet

LEMMA WirelessName == <<"wireless">> \in Seq(Names) /\ <<"wireless">> # <<>>
<1>1. "wireless" \in Names
  BY DEF Names
<1>2. <<>> \in Seq(Names)
  BY SMTT(30)
<1>3. Append(<<>>, "wireless") = <<"wireless">>
  BY SMTT(30)
<1>. QED
  BY SMTT(30), <1>1, <1>2, <1>3

LEMMA SearchOK == ASSUME Alive(d), search PROVE Alive(d')
<1>1. CASE Fails("host")
  BY <1>1, FailsOK DEF PreLoop, PreLlf, PreNfq, PreNl, PreIf, PreTimers, PreLog
<1>2. CASE ~ Fails("host")
  <2>. DEFINE s == alog(d, "LOG_NOTICE")
              p == IF d.opt.names = <<>> THEN [s EXCEPT !.opt.names = <<"wireless">>] ELSE d
              r == open(p, "if")
  <2>1. d.at = "host" /\ d' = Goto(r, "interface")
    BY <1>2 DEF search, Step
  <2>2. Tidy(d) /\ Watched(d) /\ Staged(d, "host") /\ d \in Process
    BY <2>1 DEF Alive, Files, Down
  <2>3. /\ s \in Process /\ Others(d, s) /\ Tidy(s) /\ Staged(s, "host")
    <3>1. s = syslog(d)
      BY <2>2, TidyOwns, AlogIs
    <3>. HIDE DEF s
    <3>. QED
      BY <3>1, <2>2, SyslogOK
  <2>4. /\ p \in Process /\ SameNet(d, p) /\ Tidy(p) /\ ~Opened(p, "if") /\ p.dev = <<>> /\ p.cb = d.cb
        /\ ~Opened(p, "nl") /\ ~Opened(p, "nfq") /\ ~Opened(p, "llf")
        /\ p.opt.names \in Seq(Names) /\ p.opt.names # <<>>
    <3>. USE DEF PreLlf, PreNfq, PreNl, PreIf, PreTimers, PreLog
    <3>1. CASE d.opt.names = <<>>
      <4>. DEFINE o == [s.opt EXCEPT !.names = <<"wireless">>]
      <4>0. p = [s EXCEPT !.opt = o]
        BY <3>1
      <4>1. /\ o \in Options /\ o.names = <<"wireless">>
            /\ o.dests = s.opt.dests /\ o.packets = s.opt.packets
        <5>1. s.opt \in Options
          BY <2>3 DEF Process
        <5>. HIDE DEF s
        <5>. QED
          BY <5>1, WirelessName DEF Options
      <4>. HIDE DEF s, p, o
      <4>2. /\ p \in Process /\ p.opt = o /\ SameNet(s, p)
            /\ p.fd = s.fd /\ p.dev = s.dev /\ p.cb = s.cb
            /\ p.log_file_fd = s.log_file_fd /\ p.rtnl_sock = s.rtnl_sock
            /\ p.rth_fd = s.rth_fd /\ p.nfq_handle = s.nfq_handle /\ p.nfq_queue = s.nfq_queue
        BY SMTT(30), <4>0, <4>1, <2>3, OptParts
      <4>3. Tidy(p)
        BY <4>2, <2>3, SameFiles
      <4>4. SameNet(d, p) /\ p.cb = d.cb
        BY <4>2, <2>3 DEF Others, SameNet
      <4>5. p.dev = <<>> /\ ~Opened(p, "if") /\ ~Opened(p, "nl") /\ ~Opened(p, "nfq") /\ ~Opened(p, "llf")
        BY <4>2, <2>3 DEF Staged, Opened
      <4>6. p.opt.names \in Seq(Names) /\ p.opt.names # <<>>
        BY <4>1, <4>2, WirelessName
      <4>. QED
        BY <4>2, <4>3, <4>4, <4>5, <4>6
    <3>2. CASE d.opt.names # <<>>
      <4>1. p = d
        BY <3>2
      <4>2. d.dev = <<>> /\ ~Opened(d, "if") /\ ~Opened(d, "nl") /\ ~Opened(d, "nfq") /\ ~Opened(d, "llf")
        BY <2>2 DEF Staged
      <4>3. d.opt.names \in Seq(Names)
        <5>1. d.opt \in Options
          BY <2>2 DEF Process
        <5>. QED
          BY <5>1 DEF Options
      <4>4. SameNet(d, d)
        BY DEF SameNet
      <4>. HIDE DEF p
      <4>. QED
        BY <4>1, <4>2, <4>3, <4>4, <3>2, <2>2
    <3>. QED
      BY <3>1, <3>2
  <2>. HIDE DEF p
  <2>5. PICK n \in 0 .. MaxFd : Took(p, r, n, "if")
    BY <2>4, OpenFor DEF Singles
  <2>. HIDE DEF r
  <2>6. /\ r \in Process /\ Others(p, r) /\ Tidy(r) /\ NoNew(p, r, {"if"}) /\ Opened(r, "if")
    BY <2>5 DEF Took, Opened
  <2>7. SameNet(d, r) /\ r.dev = <<>> /\ r.cb = d.cb /\ r.opt = p.opt
    BY <2>4, <2>6 DEF SameNet, Others
  <2>8. Watched(r)
    <3>1. d.dev = <<>>
      BY <2>2 DEF Staged, PreIf, PreTimers, PreLog
    <3>. QED
      BY SMTT(30), <2>2, <2>7, <3>1 DEF Watched
  <2>9. Staged(r, "interface")
    <3>1. ~Opened(r, "nl") /\ ~Opened(r, "nfq") /\ ~Opened(r, "llf")
      BY <2>4, <2>6 DEF NoNew, Services
    <3>2. Len(r.dev) = 0 /\ Len(r.opt.names) > 0 /\ MAX_NR_INTERFACES > 0
      BY SMTT(30), <2>4, <2>7, StartAssumption
    <3>. QED
      BY <3>1, <3>2, <2>6 DEF Staged, PreLlf, PreNfq, PreNl, PreIf, PreTimers, PreLog
  <2>. QED
    BY <2>1, <2>6, <2>7, <2>8, <2>9, Onward DEF PreLoop, PreLlf, PreNfq, PreNl, PreIf, PreTimers, PreLog
<1>. QED
  BY <1>1, <1>2

LEMMA GetIfInfoOK == ASSUME Alive(d), get_if_info_fails PROVE Alive(d')
<1>1. d.at = "interface" /\ d' = alog(d, "LOG_ERR")
  BY DEF get_if_info_fails, Step
<1>2. Tidy(d) /\ d \in Process /\ Own(d)
  BY <1>1, TidyOwns DEF Alive, Files, Down
<1>3. d' = Goto(syslog(d), "exit")
  BY <1>1, <1>2, AlogIs
<1>4. syslog(d) \in Process /\ SameNet(d, syslog(d)) /\ Tidy(syslog(d))
  BY <1>2, SyslogOK, NetOfOthers
<1>. QED
  BY <1>1, <1>3, <1>4, Onward DEF PreLoop, PreLlf, PreNfq, PreNl, PreIf, PreTimers, PreLog

(* The loop of host_init(): the devices get one more, whose socket is 0 *)
LEMMA DevsParts ==
    ASSUME NEW p \in Process, NEW D \in Seq(Devs), NEW q, q = [p EXCEPT !.dev = D]
    PROVE  /\ q \in Process /\ q.dev = D /\ SameNet(p, q) /\ q.ret = p.ret
           /\ q.fd = p.fd /\ q.cb = p.cb /\ q.opt = p.opt /\ q.at = p.at
           /\ q.log_file_fd = p.log_file_fd /\ q.rtnl_sock = p.rtnl_sock
           /\ q.rth_fd = p.rth_fd /\ q.nfq_handle = p.nfq_handle /\ q.nfq_queue = p.nfq_queue
<1>1. /\ q \in Process /\ q.dev = D /\ q.tq = p.tq /\ q.ret = p.ret
      /\ q.fd = p.fd /\ q.cb = p.cb /\ q.opt = p.opt /\ q.at = p.at
      /\ q.log_file_fd = p.log_file_fd /\ q.rtnl_sock = p.rtnl_sock
      /\ q.rth_fd = p.rth_fd /\ q.nfq_handle = p.nfq_handle /\ q.nfq_queue = p.nfq_queue
      /\ q.rt = p.rt /\ q.fib = p.fib /\ q.pq = p.pq /\ q.kq = p.kq /\ q.hand = p.hand
      /\ q.todo = p.todo /\ q.abandoned = p.abandoned /\ q.misused = p.misused
      /\ q.cleaned = p.cleaned /\ q.due = p.due /\ q.atexit = p.atexit
  BY DEF Process
<1>. QED
  BY <1>1 DEF SameNet

LEMMA SetDevice ==
    ASSUME NEW A \in Seq(Devs), NEW j \in 1 .. Len(A), NEW x \in Devs, NEW D, D = [A EXCEPT ![j] = x]
    PROVE  D \in Seq(Devs) /\ Len(D) = Len(A) /\ D[j] = x /\ \A k \in 1 .. Len(A) : k # j => D[k] = A[k]
<1>. DEFINE n == Len(A)
<1>1. n \in Nat /\ D \in [1 .. n -> Devs]
  BY SMTT(30)
<1>. HIDE DEF n
<1>2. D \in Seq(Devs) /\ Len(D) = n
  BY SMTT(30), <1>1
<1>. QED
  BY <1>1, <1>2 DEF n

MoreDevices(p, j) == [Append(p.dev, dev_info) EXCEPT ![j].enabled = TRUE]

LEMMA OneMoreDevice ==
    ASSUME NEW p \in Process, NEW j \in 1 .. Len(p.dev) + 1, NEW D, D = MoreDevices(p, j)
    PROVE  /\ D \in Seq(Devs) /\ Len(D) = Len(p.dev) + 1 /\ D[Len(p.dev) + 1].sock = 0
           /\ \A k \in 1 .. Len(p.dev) : D[k].sock = p.dev[k].sock
<1>1. p.dev \in Seq(Devs) /\ Len(p.dev) \in Nat
  BY SMTT(30) DEF Process
<1>2. dev_info \in Devs /\ dev_info.sock = 0
  BY SMTT(30), StartAssumption DEF dev_info, Devs, Fds
<1>. DEFINE A == Append(p.dev, dev_info)  n == Len(p.dev)
<1>3. A \in Seq(Devs) /\ Len(A) = n + 1 /\ A[n + 1] = dev_info /\ \A k \in 1 .. n : A[k] = p.dev[k]
  BY SMTT(30), <1>1, <1>2
<1>4. D = [A EXCEPT ![j].enabled = TRUE]
  BY DEF MoreDevices
<1>. HIDE DEF A, n
<1>. DEFINE x == [A[j] EXCEPT !.enabled = TRUE]
<1>5. A[j] \in Devs /\ j \in 1 .. n + 1 /\ n \in Nat
  BY SMTT(30), <1>1, <1>3 DEF n
<1>6. x \in Devs /\ x.sock = A[j].sock
  BY <1>5 DEF Devs
<1>7. D = [A EXCEPT ![j] = x]
  BY <1>4
<1>. HIDE DEF x
<1>8. D \in Seq(Devs) /\ Len(D) = n + 1 /\ D[j] = x /\ \A k \in 1 .. n + 1 : k # j => D[k] = A[k]
  BY SMTT(30), <1>3, <1>5, <1>6, <1>7, SetDevice
<1>9. \A k \in 1 .. n + 1 : D[k].sock = A[k].sock
  BY <1>6, <1>8
<1>10. D[n + 1].sock = 0 /\ \A k \in 1 .. n : D[k].sock = p.dev[k].sock
  BY SMTT(30), <1>2, <1>3, <1>5, <1>9
<1>. QED
  BY <1>8, <1>10 DEF n

LEMMA ThenEnabled ==
    ASSUME NEW p \in Process, NEW A, NEW j
    PROVE  [[p EXCEPT !.dev = A] EXCEPT !.dev[j].enabled = TRUE] = [p EXCEPT !.dev = [A EXCEPT ![j].enabled = TRUE]]
  BY DEF Process

LEMMA HostInitOK == ASSUME Alive(d), host_init PROVE Alive(d')
<1>. DEFINE n == Len(d.dev)
            j == ifindex2devindex(d, n + 1)
            D == MoreDevices(d, j)
            q == [d EXCEPT !.dev = D]
            last == n + 1 = Len(d.opt.names) \/ n + 1 >= MAX_NR_INTERFACES
            sock == CHOOSE m \in 0 .. MaxFd : d.fd[m] = "if"
<1>1. d.at = "interface" /\ d' = IF last THEN Goto(close(q, sock), "options_set") ELSE q
  <2>1. d \in Process
    BY DEF Alive
  <2>2. q = [[d EXCEPT !.dev = Append(d.dev, dev_info)] EXCEPT !.dev[j].enabled = TRUE]
    BY <2>1, ThenEnabled DEF MoreDevices
  <2>. HIDE DEF q
  <2>. QED
    BY SMTT(30), <2>2 DEF host_init, Step
<1>2. Tidy(d) /\ Watched(d) /\ Staged(d, "interface") /\ d \in Process
  BY <1>1 DEF Alive, Files, Down
<1>3. n \in Nat /\ d.dev \in Seq(Devs) /\ n < Len(d.opt.names) /\ n < MAX_NR_INTERFACES
      /\ Len(d.opt.names) \in Nat /\ d.opt \in Options /\ MAX_NR_INTERFACES \in Nat
  <2>1. d.dev \in Seq(Devs) /\ d.opt \in Options
    BY <1>2 DEF Process
  <2>2. Len(d.opt.names) \in Nat
    BY SMTT(30), <2>1 DEF Options
  <2>. QED
    BY SMTT(30), <1>2, <2>1, <2>2, StartAssumption DEF Staged
<1>4. j \in 1 .. n + 1
  <2>. DEFINE J == {k \in 1 .. n + 1 : d.opt.names[k] = d.opt.names[n + 1]}
  <2>1. J \in SUBSET Nat /\ n + 1 \in J
    BY SMTT(30), <1>3
  <2>2. j = Min(J)
    BY DEF ifindex2devindex
  <2>. HIDE DEF J, j
  <2>3. j \in J
    BY <1>2, <2>1, <2>2 DEF Tidy, Counting
  <2>. QED
    BY <2>3 DEF J
<1>. HIDE DEF j
<1>5. /\ D \in Seq(Devs) /\ Len(D) = n + 1 /\ D[n + 1].sock = 0
      /\ \A k \in 1 .. n : D[k].sock = d.dev[k].sock
  BY <1>2, <1>4, OneMoreDevice
<1>. HIDE DEF D
<1>6. /\ q \in Process /\ q.dev = D /\ SameNet(d, q) /\ q.at = "interface"
      /\ q.fd = d.fd /\ q.cb = d.cb /\ q.opt = d.opt
      /\ q.log_file_fd = d.log_file_fd /\ q.rtnl_sock = d.rtnl_sock
      /\ q.rth_fd = d.rth_fd /\ q.nfq_handle = d.nfq_handle /\ q.nfq_queue = d.nfq_queue
  BY SMTT(30), <1>1, <1>2, <1>5, DevsParts
<1>. HIDE DEF q
<1>7. \A k \in 1 .. n + 1 : k \in 1 .. n \/ D[k].sock = 0
  BY SMTT(30), <1>3, <1>5
<1>8. Tidy(q)
  <2>1. \A m \in 0 .. MaxFd : d.fd[m] = "aodv" => m # 0 /\ \E i \in 1 .. n + 1 : D[i].sock = m
    <3>. TAKE m \in 0 .. MaxFd
    <3>. HAVE d.fd[m] = "aodv"
    <3>1. PICK i \in 1 .. n : m # 0 /\ d.dev[i].sock = m
      BY <1>2 DEF Tidy
    <3>2. i \in 1 .. n + 1 /\ D[i].sock = m
      BY SMTT(30), <1>3, <1>5, <3>1
    <3>. QED
      BY <3>1, <3>2
  <2>2. \A i \in 1 .. n + 1 : D[i].sock # 0 => D[i].sock # NoFd /\ d.fd[D[i].sock] = "aodv"
    BY <1>2, <1>5, <1>7 DEF Tidy
  <2>3. n + 1 <= MAX_NR_INTERFACES
    BY SMTT(30), <1>3
  <2>4. /\ \A m \in 0 .. MaxFd : q.fd[m] = "aodv" => m # 0 /\ \E i \in 1 .. Len(q.dev) : q.dev[i].sock = m
        /\ \A i \in 1 .. Len(q.dev) :
              q.dev[i].sock # 0 => q.dev[i].sock # NoFd /\ q.fd[q.dev[i].sock] = "aodv"
        /\ Len(q.dev) <= MAX_NR_INTERFACES
    BY SMTT(30), <1>5, <1>6, <2>1, <2>2, <2>3
  <2>5. Leaks(q) = Leaks(d)
    BY <1>6 DEF Leaks
  <2>6. /\ Counting /\ Cardinality(Leaks(q)) <= MaxLeaks /\ (q.nfq_queue => q.nfq_handle # NoFd)
        /\ \A m, k \in 0 .. MaxFd : q.fd[m] = q.fd[k] /\ q.fd[m] \in Singles => m = k
        /\ q.nfq_handle # NoFd => q.nfq_handle # 0 /\ q.fd[q.nfq_handle] = "nfq"
        /\ q.rth_fd \notin {0, NoFd} => q.fd[q.rth_fd] = "llf"
        /\ q.log_file_fd # NoFd => q.fd[q.log_file_fd] = "log"
    BY <1>2, <1>6, <2>5 DEF Tidy
  <2>7. (\A i \in 1 .. Len(q.cb) : q.fd[q.cb[i].fd] = q.cb[i].func) /\ Len(q.cb) <= CALLBACK_FUNCS
    <3>1. (\A i \in 1 .. Len(d.cb) : d.fd[d.cb[i].fd] = d.cb[i].func) /\ Len(d.cb) <= CALLBACK_FUNCS
      BY <1>2 DEF Tidy
    <3>2. q.cb = d.cb /\ q.fd = d.fd
      BY <1>6
    <3>. QED
      BY SMTT(30), <3>1, <3>2
  <2>. QED
    BY <2>4, <2>6, <2>7, TidyParts
<1>9. Watched(q)
  <2>1. ASSUME NEW i \in 1 .. n + 1, D[i].sock # 0
        PROVE  \E k \in 1 .. Len(d.cb) : d.cb[k] = [fd |-> D[i].sock, func |-> "aodv"]
    <3>1. i \in 1 .. n /\ D[i].sock = d.dev[i].sock
      BY <2>1, <1>5, <1>7
    <3>. QED
      BY <2>1, <3>1, <1>2 DEF Watched
  <2>. QED
    BY SMTT(30), <2>1, <1>2, <1>5, <1>6 DEF Watched
<1>10. /\ Opened(q, "if") /\ ~Opened(q, "nl") /\ ~Opened(q, "nfq") /\ ~Opened(q, "llf")
  BY <1>2, <1>6 DEF Staged, Opened, PreLlf, PreNfq, PreNl, PreIf, PreTimers, PreLog
<1>11. CASE ~last
  <2>1. d' = q
    BY <1>1, <1>11
  <2>2. Len(q.dev) < Len(q.opt.names) /\ Len(q.dev) < MAX_NR_INTERFACES
    BY SMTT(30), <1>3, <1>5, <1>6, <1>11
  <2>3. Staged(q, "interface")
    BY <1>10, <2>2 DEF Staged, PreLlf, PreNfq, PreNl, PreIf, PreTimers, PreLog
  <2>4. Files(q)
    BY <1>6, <1>8, <1>9, <2>3, StartFiles
  <2>. QED
    BY <1>1, <1>6, <2>1, <2>4, StartStep DEF PreLoop, PreLlf, PreNfq, PreNl, PreIf, PreTimers, PreLog
<1>12. CASE last
  <2>. DEFINE r == close(q, sock)
  <2>1. d' = Goto(r, "options_set")
    BY <1>1, <1>12
  <2>2. sock \in 0 .. MaxFd /\ q.fd[sock] = "if"
    BY <1>6, <1>10 DEF Opened
  <2>. HIDE DEF sock, last
  <2>3. r \in Process /\ Others(q, r) /\ r.fd = [q.fd EXCEPT ![sock] = Free] /\ Tidy(r)
    BY <1>6, <1>8, <2>2, CloseTidy DEF Funcs
  <2>. HIDE DEF r
  <2>4. SameNet(d, r)
    BY <1>6, <2>3 DEF SameNet, Others
  <2>5. Watched(r)
    BY SMTT(30), <1>9, <2>3 DEF Watched, Others
  <2>6. /\ ~Opened(r, "if") /\ ~Opened(r, "nl") /\ ~Opened(r, "nfq") /\ ~Opened(r, "llf")
    <3>1. q.fd \in [0 .. MaxFd -> Tags]
      BY <1>6 DEF Process
    <3>2. \A m \in 0 .. MaxFd : q.fd[m] = "if" => m = sock
      BY <1>8, <2>2 DEF Tidy, Singles
    <3>. QED
      BY <1>10, <2>2, <2>3, <3>1, <3>2 DEF Opened, Free
  <2>7. Staged(r, "options_set")
    BY <2>6 DEF Staged, PreLlf, PreNfq, PreNl, PreIf, PreTimers, PreLog
  <2>. QED
    BY <1>1, <2>1, <2>3, <2>4, <2>5, <2>7, Onward DEF PreLoop, PreLlf, PreNfq, PreNl, PreIf, PreTimers, PreLog
<1>. QED
  BY <1>11, <1>12

(* One watch more: those that were there keep their places. *)
OneMore(p, q, w) ==
    /\ \A i, j \in 1 .. Len(q.cb) : q.cb[i].fd = q.cb[j].fd => i = j
    /\ \A i \in 1 .. Len(p.cb) : i \in 1 .. Len(q.cb) /\ q.cb[i] = p.cb[i]
    /\ \E i \in 1 .. Len(q.cb) : q.cb[i] = w
    /\ WatchedFor(q, w.func) /\ \A f : WatchedFor(p, f) => WatchedFor(q, f)

LEMMA OneMoreWatch ==
    ASSUME NEW p \in Process, NEW q, NEW n \in 0 .. MaxFd, NEW func \in Funcs,
           Attached(p, q, n, func),
           \A i, j \in 1 .. Len(p.cb) : p.cb[i].fd = p.cb[j].fd => i = j,
           \A i \in 1 .. Len(p.cb) : p.cb[i].fd # n
    PROVE  OneMore(p, q, [fd |-> n, func |-> func])
<1>. DEFINE w == [fd |-> n, func |-> func]  c == Append(p.cb, w)  m == Len(p.cb)
<1>1. w \in Watches /\ w.fd = n /\ w.func = func
  BY DEF Watches
<1>. HIDE DEF w
<1>2. p.cb \in Seq(Watches) /\ m \in Nat
  BY SMTT(30) DEF Process
<1>3. /\ Len(c) = m + 1 /\ c[m + 1] = w /\ m + 1 \in 1 .. m + 1
      /\ \A i \in 1 .. m : c[i] = p.cb[i] /\ i \in 1 .. m + 1
  BY SMTT(30), <1>1, <1>2
<1>4. q.cb = c
  BY DEF w, Attached
<1>. HIDE DEF c
<1>5. ASSUME NEW i \in 1 .. m + 1, NEW j \in 1 .. m + 1, c[i].fd = c[j].fd PROVE i = j
  <2>1. CASE i = m + 1 /\ j # m + 1
    <3>1. j \in 1 .. m /\ c[j] = p.cb[j] /\ c[i].fd = n
      BY SMTT(30), <2>1, <1>1, <1>2, <1>3
    <3>. QED
      BY <1>5, <3>1
  <2>2. CASE j = m + 1 /\ i # m + 1
    <3>1. i \in 1 .. m /\ c[i] = p.cb[i] /\ c[j].fd = n
      BY SMTT(30), <2>2, <1>1, <1>2, <1>3
    <3>. QED
      BY <1>5, <3>1
  <2>3. CASE i # m + 1 /\ j # m + 1
    <3>1. i \in 1 .. m /\ j \in 1 .. m /\ c[i] = p.cb[i] /\ c[j] = p.cb[j]
      BY SMTT(30), <2>3, <1>2, <1>3
    <3>. QED
      BY <1>5, <3>1
  <2>. QED
    BY <2>1, <2>2, <2>3
<1>6. WatchedFor(q, w.func)
  BY <1>1, <1>3, <1>4 DEF WatchedFor
<1>7. ASSUME NEW f, WatchedFor(p, f) PROVE WatchedFor(q, f)
  <2>1. PICK i \in 1 .. m : p.cb[i].func = f
    BY <1>7 DEF WatchedFor
  <2>2. i \in 1 .. Len(q.cb) /\ q.cb[i].func = f
    BY <2>1, <1>3, <1>4
  <2>. QED
    BY <2>2 DEF WatchedFor
<1>8. \E i \in 1 .. m + 1 : c[i] = w
  BY <1>3
<1>. QED
  <2>1. OneMore(p, q, w)
    BY <1>3, <1>4, <1>5, <1>6, <1>7, <1>8 DEF OneMore
  <2>. QED
    BY <2>1 DEF w

(* What was free is watched by nobody. *)
LEMMA FreeUnwatched ==
    ASSUME NEW p \in Process, Tidy(p), NEW n \in 0 .. MaxFd, p.fd[n] = Free
    PROVE  \A i \in 1 .. Len(p.cb) : p.cb[i].fd # n
<1>. TAKE i \in 1 .. Len(p.cb)
<1>1. p.cb[i].func \in Funcs /\ p.fd[p.cb[i].fd] = p.cb[i].func
  BY CbParts DEF Tidy
<1>. QED
  BY <1>1 DEF Funcs, Free

(* nl_init() *)
LEMMA SockParts ==
    ASSUME NEW p \in Process, NEW n \in Fds, NEW q, q = [p EXCEPT !.rtnl_sock = n]
    PROVE  /\ q \in Process /\ q.rtnl_sock = n /\ SameNet(p, q) /\ q.ret = p.ret
           /\ q.fd = p.fd /\ q.cb = p.cb /\ q.opt = p.opt /\ q.at = p.at /\ q.dev = p.dev
           /\ q.log_file_fd = p.log_file_fd /\ q.rth_fd = p.rth_fd
           /\ q.nfq_handle = p.nfq_handle /\ q.nfq_queue = p.nfq_queue
<1>1. /\ q \in Process /\ q.rtnl_sock = n /\ q.tq = p.tq /\ q.ret = p.ret
      /\ q.fd = p.fd /\ q.cb = p.cb /\ q.opt = p.opt /\ q.at = p.at /\ q.dev = p.dev
      /\ q.log_file_fd = p.log_file_fd /\ q.rth_fd = p.rth_fd
      /\ q.nfq_handle = p.nfq_handle /\ q.nfq_queue = p.nfq_queue
      /\ q.rt = p.rt /\ q.fib = p.fib /\ q.pq = p.pq /\ q.kq = p.kq /\ q.hand = p.hand
      /\ q.todo = p.todo /\ q.abandoned = p.abandoned /\ q.misused = p.misused
      /\ q.cleaned = p.cleaned /\ q.due = p.due /\ q.atexit = p.atexit
  BY DEF Process
<1>. QED
  BY <1>1 DEF SameNet

LEMMA NlInitOK == ASSUME Alive(d), nl_init PROVE Alive(d')
<1>. DEFINE q == open(d, "nl")  p == [q EXCEPT !.rtnl_sock = q.ret]  z == [d EXCEPT !.rtnl_sock = NoFd]
            g == Goto(p, "nfqueue")
<1>1. /\ d.at = "netlink"
      /\ \/ d' = Goto(z, "exit")
         \/ d' = Goto(p, "exit")
         \/ d' = attach_callback_func(g, p.rtnl_sock, "nl")
  BY DEF nl_init, Step, Goto
<1>2. Tidy(d) /\ Watched(d) /\ Staged(d, "netlink") /\ d \in Process
  BY <1>1 DEF Alive, Files, Down
<1>3. ~Opened(d, "nl") /\ ~Opened(d, "nfq") /\ ~Opened(d, "llf") /\ ~Opened(d, "if")
  BY <1>2 DEF Staged, PreLlf, PreNfq, PreNl, PreIf, PreTimers, PreLog
<1>4. PICK n \in 0 .. MaxFd : Took(d, q, n, "nl")
  BY <1>2, <1>3, OpenFor DEF Singles
<1>5. /\ Lowest(d, n) /\ q \in Process /\ Others(d, q) /\ Tidy(q) /\ NoNew(d, q, {"nl"})
      /\ q.fd = [d.fd EXCEPT ![n] = "nl"] /\ q.fd[n] = "nl" /\ q.ret = n /\ n \in Fds
  BY <1>4 DEF Took, Fds
<1>. HIDE DEF q
<1>6. /\ p \in Process /\ p.rtnl_sock = n /\ SameNet(q, p)
      /\ p.fd = q.fd /\ p.cb = q.cb /\ p.opt = q.opt /\ p.dev = q.dev
      /\ p.log_file_fd = q.log_file_fd /\ p.rth_fd = q.rth_fd
      /\ p.nfq_handle = q.nfq_handle /\ p.nfq_queue = q.nfq_queue
  <2>1. p = [q EXCEPT !.rtnl_sock = n]
    BY <1>5
  <2>. HIDE DEF p
  <2>. QED
    BY SMTT(30), <2>1, <1>5, SockParts
<1>. HIDE DEF p
<1>7. Tidy(p) /\ SameNet(d, p) /\ p.cb = d.cb /\ p.dev = d.dev
  <2>1. Tidy(p)
    BY <1>5, <1>6, SameFiles
  <2>. QED
    BY <2>1, <1>5, <1>6 DEF SameNet, Others
<1>. USE DEF PreLoop, PreLlf, PreNfq, PreNl, PreIf, PreTimers, PreLog, Down
<1>8. CASE d' = Goto(z, "exit")
  <2>1. z \in Process /\ SameNet(d, z) /\ Tidy(z)
    <3>1. NoFd \in Fds
      BY DEF Fds
    <3>2. /\ z \in Process /\ SameNet(d, z)
          /\ z.fd = d.fd /\ z.cb = d.cb /\ z.dev = d.dev
          /\ z.log_file_fd = d.log_file_fd /\ z.rth_fd = d.rth_fd
          /\ z.nfq_handle = d.nfq_handle /\ z.nfq_queue = d.nfq_queue
      BY SMTT(30), <3>1, <1>2, SockParts
    <3>. HIDE DEF z
    <3>. QED
      BY <3>2, <1>2, SameFiles
  <2>. HIDE DEF z
  <2>. QED
    BY <1>1, <1>8, <2>1, Onward
<1>9. CASE d' = Goto(p, "exit")
  BY <1>1, <1>6, <1>7, <1>9, Onward
<1>10. CASE d' = attach_callback_func(g, p.rtnl_sock, "nl")
  <2>1. /\ g \in Process /\ g.at = "nfqueue" /\ g.fd = p.fd /\ g.cb = p.cb /\ g.dev = p.dev
        /\ g.opt = p.opt /\ g.rtnl_sock = n
        /\ g.log_file_fd = p.log_file_fd /\ g.rth_fd = p.rth_fd
        /\ g.nfq_handle = p.nfq_handle /\ g.nfq_queue = p.nfq_queue
        /\ g.rt = p.rt /\ g.fib = p.fib /\ g.pq = p.pq /\ g.kq = p.kq /\ g.hand = p.hand
        /\ g.todo = p.todo /\ g.abandoned = p.abandoned /\ g.misused = p.misused
        /\ g.cleaned = p.cleaned /\ g.due = p.due /\ g.tq = p.tq /\ g.atexit = p.atexit
    <3>1. "nfqueue" \in Labels
      BY DEF Labels
    <3>. QED
      BY SMTT(30), <3>1, <1>6, GotoParts
  <2>. HIDE DEF g
  <2>2. Tidy(g)
    BY <2>1, <1>7, SameFiles
  <2>3. SameNet(d, g)
    BY <2>1, <1>7 DEF SameNet
  <2>4. g.fd[n] = "nl" /\ "nl" \in Funcs
    BY <2>1, <1>5, <1>6 DEF Funcs
  <2>5. CASE d' = Goto(g, "exit")
    BY <1>1, <2>1, <2>2, <2>3, <2>5, Onward
  <2>6. CASE d' # Goto(g, "exit")
    <3>. DEFINE r == d'
    <3>1. /\ r \in Process /\ Tidy(r) /\ Attached(g, r, n, "nl")
          /\ r.fd = g.fd /\ r.at = g.at /\ r.opt = g.opt /\ r.rtnl_sock = n /\ r.dev = g.dev
          /\ SameNet(g, r)
      <4>1. Watching(g, r, n, "nl")
        BY <1>6, <1>10, <2>1, <2>2, <2>4, <2>6, AttachOK
      <4>. QED
        BY <4>1, <2>1 DEF Watching
    <3>. HIDE DEF r
    <3>2. d.fd[n] = Free /\ \A i \in 1 .. Len(g.cb) : g.cb[i].fd # n
      BY SMTT(30), <1>2, <1>5, <1>7, <2>1, FreeUnwatched DEF Lowest
    <3>3. /\ \A i, j \in 1 .. Len(g.cb) : g.cb[i].fd = g.cb[j].fd => i = j
      BY SMTT(30), <1>2, <1>7, <2>1 DEF Watched
    <3>4. /\ \A i, j \in 1 .. Len(r.cb) : r.cb[i].fd = r.cb[j].fd => i = j
          /\ \A i \in 1 .. Len(g.cb) : i \in 1 .. Len(r.cb) /\ r.cb[i] = g.cb[i]
          /\ WatchedFor(r, "nl")
      <4>. DEFINE w == [fd |-> n, func |-> "nl"]
      <4>1. OneMore(g, r, w)
        BY <2>1, <2>4, <3>1, <3>2, <3>3, OneMoreWatch
      <4>2. w.func = "nl"
        OBVIOUS
      <4>. HIDE DEF w
      <4>. QED
        BY <4>1, <4>2 DEF OneMore
    <3>5. Watched(r)
      <4>1. r.dev = d.dev /\ g.cb = d.cb
        BY <3>1, <2>1, <1>7
      <4>. QED
        BY SMTT(30), <1>2, <3>4, <4>1 DEF Watched
    <3>6. r.fd[0] # Free
      <4>1. 0 \in 0 .. MaxFd /\ d.fd \in [0 .. MaxFd -> Tags]
        BY SMTT(30), <1>2, StartAssumption DEF Process
      <4>2. CASE n = 0
        BY <4>2, <2>1, <3>1, <1>5, <1>6 DEF Free
      <4>3. CASE n # 0
        <5>1. 0 < n
          BY SMTT(30), <4>3
        <5>2. d.fd[0] # Free
          BY <4>1, <5>1, <1>5 DEF Lowest
        <5>. QED
          BY SMTT(30), <4>1, <4>3, <5>2, <2>1, <3>1, <1>5, <1>6
      <4>. QED
        BY <4>2, <4>3
    <3>7. /\ ~Opened(r, "nfq") /\ ~Opened(r, "llf") /\ ~Opened(r, "if")
      <4>1. ~Opened(q, "nfq") /\ ~Opened(q, "llf") /\ ~Opened(q, "if")
        BY <1>3, <1>5 DEF NoNew, Services
      <4>. QED
        BY <4>1, <1>6, <2>1, <3>1 DEF Opened
    <3>8. r.rtnl_sock # NoFd /\ r.fd[r.rtnl_sock] = "nl"
      BY SMTT(30), <2>1, <2>4, <3>1 DEF NoFd
    <3>9. Staged(r, "nfqueue")
      BY <3>4, <3>6, <3>7, <3>8 DEF Staged
    <3>10. SameNet(d, r)
      BY <2>3, <3>1 DEF SameNet
    <3>11. Files(r)
      BY <2>1, <3>1, <3>5, <3>9, StartFiles
    <3>. QED
      BY <1>1, <2>1, <3>1, <3>10, <3>11, StartStep DEF r
  <2>. QED
    BY <2>5, <2>6
<1>. QED
  BY <1>1, <1>8, <1>9, <1>10

(* nfqueue_init(): a call on the handle does no harm while it is open, *)
LEMMA UseIs ==
    ASSUME NEW p \in Process, p.nfq_handle # NoFd, p.fd[p.nfq_handle] = "nfq"
    PROVE  Use(p) = p
<1>1. (p.misused \/ p.nfq_handle = NoFd \/ p.fd[p.nfq_handle] # "nfq") = p.misused
  BY DEF Process
<1>2. [p EXCEPT !.misused = p.misused] = p
  BY DEF Process
<1>. QED
  BY <1>1, <1>2 DEF Use

(* and what the error paths undo. *)
Handled(p, n, t) == [p EXCEPT !.nfq_handle = n, !.nfq_queue = (t = "bound")]

LEMMA HandleParts ==
    ASSUME NEW p \in Process, NEW n \in Fds, NEW t, NEW q, q = Handled(p, n, t)
    PROVE  /\ q \in Process /\ q.nfq_handle = n /\ (q.nfq_queue <=> t = "bound") /\ SameNet(p, q) /\ q.ret = p.ret
           /\ q.fd = p.fd /\ q.cb = p.cb /\ q.opt = p.opt /\ q.at = p.at /\ q.dev = p.dev
           /\ q.log_file_fd = p.log_file_fd /\ q.rth_fd = p.rth_fd /\ q.rtnl_sock = p.rtnl_sock
           /\ q.pq = p.pq /\ q.kq = p.kq /\ q.hand = p.hand /\ q.todo = p.todo /\ q.abandoned = p.abandoned
<1>1. /\ q \in Process /\ q.nfq_handle = n /\ (q.nfq_queue <=> t = "bound") /\ q.tq = p.tq /\ q.ret = p.ret
      /\ q.fd = p.fd /\ q.cb = p.cb /\ q.opt = p.opt /\ q.at = p.at /\ q.dev = p.dev
      /\ q.log_file_fd = p.log_file_fd /\ q.rth_fd = p.rth_fd /\ q.rtnl_sock = p.rtnl_sock
      /\ q.rt = p.rt /\ q.fib = p.fib /\ q.pq = p.pq /\ q.kq = p.kq /\ q.hand = p.hand
      /\ q.todo = p.todo /\ q.abandoned = p.abandoned /\ q.misused = p.misused
      /\ q.cleaned = p.cleaned /\ q.due = p.due /\ q.atexit = p.atexit
  BY DEF Process, Handled
<1>. QED
  BY <1>1 DEF SameNet

LEMMA DroppedParts ==
    ASSUME NEW p \in Process, NEW q, q = [p EXCEPT !.kq = {}, !.abandoned = p.abandoned]
    PROVE  /\ q \in Process /\ SameNet(p, q) /\ q.ret = p.ret
           /\ q.fd = p.fd /\ q.cb = p.cb /\ q.opt = p.opt /\ q.at = p.at /\ q.dev = p.dev
           /\ q.log_file_fd = p.log_file_fd /\ q.rth_fd = p.rth_fd /\ q.rtnl_sock = p.rtnl_sock
           /\ q.nfq_handle = p.nfq_handle /\ q.nfq_queue = p.nfq_queue
           /\ q.kq = {} /\ q.abandoned = p.abandoned /\ q.pq = p.pq
<1>1. /\ q \in Process /\ q.tq = p.tq /\ q.ret = p.ret
      /\ q.fd = p.fd /\ q.cb = p.cb /\ q.opt = p.opt /\ q.at = p.at /\ q.dev = p.dev
      /\ q.log_file_fd = p.log_file_fd /\ q.rth_fd = p.rth_fd /\ q.rtnl_sock = p.rtnl_sock
      /\ q.nfq_handle = p.nfq_handle /\ q.nfq_queue = p.nfq_queue
      /\ q.rt = p.rt /\ q.fib = p.fib /\ q.pq = p.pq /\ q.kq = {} /\ q.hand = p.hand
      /\ q.todo = p.todo /\ q.abandoned = p.abandoned /\ q.misused = p.misused
      /\ q.cleaned = p.cleaned /\ q.due = p.due /\ q.atexit = p.atexit
  BY DEF Process
<1>. QED
  BY <1>1 DEF SameNet

(* With nothing held the queue is destroyed and nothing abandoned. *)
LEMMA DestroyOK ==
    ASSUME NEW p \in Process, p.nfq_handle # NoFd, p.fd[p.nfq_handle] = "nfq",
           p.pq = {}, p.hand = {}, p.todo = {}, NEW q, q = nfq_destroy_queue(p)
    PROVE  /\ q \in Process /\ SameNet(p, q) /\ q.ret = p.ret
           /\ q.fd = p.fd /\ q.cb = p.cb /\ q.opt = p.opt /\ q.at = p.at /\ q.dev = p.dev
           /\ q.log_file_fd = p.log_file_fd /\ q.rth_fd = p.rth_fd /\ q.rtnl_sock = p.rtnl_sock
           /\ q.nfq_handle = p.nfq_handle /\ q.nfq_queue = p.nfq_queue
           /\ q.kq = {} /\ q.abandoned = p.abandoned /\ q.pq = p.pq
<1>1. p.abandoned \cup (p.kq \cap (p.pq \cup p.hand \cup p.todo)) = p.abandoned
  OBVIOUS
<1>2. q = [p EXCEPT !.kq = {}, !.abandoned = p.abandoned]
  BY <1>1, UseIs DEF nfq_destroy_queue
<1>. QED
  BY <1>2, DroppedParts

(* nfq_close(), after which the handle is cleared *)
LEMMA CloseQueueOK ==
    ASSUME NEW p \in Process, Tidy(p), p.nfq_handle # NoFd,
           \A i \in 1 .. Len(p.cb) : p.cb[i].fd # p.nfq_handle,
           NEW c, c = nfq_close(p),
           NEW q, q = Handled(c, NoFd, "unbound")
    PROVE  c \in Process /\ q \in Process /\ SameNet(p, q) /\ Tidy(q)
<1>. DEFINE n == p.nfq_handle  f == [p.fd EXCEPT ![n] = Free]
<1>1. n \in 0 .. MaxFd /\ p.fd[n] = "nfq" /\ p.fd \in [0 .. MaxFd -> Tags]
  BY DEF Process, Fds, Tidy
<1>2. Use(p) = p
  BY <1>1, UseIs
<1>3. f \in [0 .. MaxFd -> Tags] /\ p.ret \in Fds /\ c = With(p, f, p.ret)
  BY <1>1, <1>2 DEF nfq_close, close, With, Process, Tags
<1>4. f[n] = Free /\ \A m \in 0 .. MaxFd : m # n => f[m] = p.fd[m]
  BY <1>1
<1>. HIDE DEF f, n
<1>5. c \in Process /\ c.fd = f /\ Others(p, c)
  BY SMTT(30), <1>3, WithParts
<1>6. NoFd \in Fds
  BY DEF Fds
<1>7. /\ q \in Process /\ q.nfq_handle = NoFd /\ ~ q.nfq_queue /\ SameNet(c, q)
      /\ q.fd = f /\ q.cb = c.cb /\ q.dev = c.dev
      /\ q.log_file_fd = c.log_file_fd /\ q.rth_fd = c.rth_fd
  BY SMTT(30), <1>5, <1>6, HandleParts
<1>8. /\ SameNet(p, q) /\ q.cb = p.cb /\ q.dev = p.dev
      /\ q.log_file_fd = p.log_file_fd /\ q.rth_fd = p.rth_fd
  BY <1>5, <1>7 DEF SameNet, Others
<1>9. Tidy(q)
  <2>1. \A m, k \in 0 .. MaxFd : q.fd[m] = q.fd[k] /\ q.fd[m] \in Singles => m = k
    BY SMTT(30), <1>4, <1>7 DEF Tidy, Singles, Free
  <2>2. \A m \in 0 .. MaxFd : q.fd[m] = "aodv" => m # 0 /\ \E i \in 1 .. Len(q.dev) : q.dev[i].sock = m
    BY SMTT(30), <1>4, <1>7, <1>8 DEF Tidy, Free
  <2>3. Leaks(q) = Leaks(p)
    BY <1>1, <1>4, <1>7 DEF Leaks, Free
  <2>4. /\ Len(q.dev) <= MAX_NR_INTERFACES /\ Len(q.cb) <= CALLBACK_FUNCS
        /\ q.rth_fd \notin {0, NoFd} => q.fd[q.rth_fd] = "llf"
        /\ q.log_file_fd # NoFd => q.fd[q.log_file_fd] = "log"
    <3>1. p.rth_fd \in Fds /\ p.log_file_fd \in Fds
      BY DEF Process
    <3>. QED
      BY SMTT(30), <1>1, <1>4, <1>7, <1>8, <3>1 DEF Tidy, Fds
  <2>5. ASSUME NEW i \in 1 .. Len(p.dev), p.dev[i].sock # 0
        PROVE  p.dev[i].sock # NoFd /\ q.fd[p.dev[i].sock] = "aodv"
    <3>1. p.dev[i].sock # NoFd /\ p.fd[p.dev[i].sock] = "aodv" /\ p.dev[i].sock \in 0 .. MaxFd
      BY <2>5, DevParts DEF Tidy, Fds
    <3>. QED
      BY <1>1, <1>4, <1>7, <3>1
  <2>6. ASSUME NEW i \in 1 .. Len(p.cb) PROVE q.fd[p.cb[i].fd] = p.cb[i].func
    <3>1. p.fd[p.cb[i].fd] = p.cb[i].func /\ p.cb[i].fd \in 0 .. MaxFd /\ p.cb[i].fd # n
      BY CbParts DEF Tidy, n
    <3>. QED
      BY <1>4, <1>7, <3>1
  <2>7. Counting /\ Cardinality(Leaks(q)) <= MaxLeaks
    BY <2>3 DEF Tidy
  <2>8. /\ \A i \in 1 .. Len(q.dev) : q.dev[i].sock # 0 => q.dev[i].sock # NoFd /\ q.fd[q.dev[i].sock] = "aodv"
        /\ \A i \in 1 .. Len(q.cb) : q.fd[q.cb[i].fd] = q.cb[i].func
    BY <1>8, <2>5, <2>6
  <2>. QED
    BY <1>7, <2>1, <2>2, <2>4, <2>7, <2>8, TidyParts
<1>. QED
  BY <1>5, <1>7, <1>8, <1>9

Polled(p, n, l) == [p EXCEPT !.nfq_socket = n, !.at = l]

LEMMA NfqSocketParts ==
    ASSUME NEW p \in Process, NEW n \in Fds, NEW l \in Labels, NEW q, q = Polled(p, n, l)
    PROVE  /\ q \in Process /\ SameNet(p, q) /\ q.ret = p.ret /\ q.at = l
           /\ q.fd = p.fd /\ q.cb = p.cb /\ q.opt = p.opt /\ q.dev = p.dev
           /\ q.log_file_fd = p.log_file_fd /\ q.rth_fd = p.rth_fd /\ q.rtnl_sock = p.rtnl_sock
           /\ q.nfq_handle = p.nfq_handle /\ q.nfq_queue = p.nfq_queue
<1>1. /\ q \in Process /\ q.tq = p.tq /\ q.ret = p.ret /\ q.at = l
      /\ q.fd = p.fd /\ q.cb = p.cb /\ q.opt = p.opt /\ q.dev = p.dev
      /\ q.log_file_fd = p.log_file_fd /\ q.rth_fd = p.rth_fd /\ q.rtnl_sock = p.rtnl_sock
      /\ q.nfq_handle = p.nfq_handle /\ q.nfq_queue = p.nfq_queue
      /\ q.rt = p.rt /\ q.fib = p.fib /\ q.pq = p.pq /\ q.kq = p.kq /\ q.hand = p.hand
      /\ q.todo = p.todo /\ q.abandoned = p.abandoned /\ q.misused = p.misused
      /\ q.cleaned = p.cleaned /\ q.due = p.due /\ q.atexit = p.atexit
  BY DEF Process, Polled
<1>. QED
  BY <1>1 DEF SameNet

(* A service from nl_init() on: what it opened at n is watched as well.    *)
Ready(p, g, l, n, func) ==
    /\ p.at \in PreLoop \ PreNl /\ l \in (PreLoop \ PreNl) \cup {"age"}
    /\ n \in 0 .. MaxFd /\ p.fd[n] = Free /\ func \in Funcs
    /\ g \in Process /\ Tidy(g) /\ g.at = l /\ SameNet(p, g) /\ g.fd[n] = func /\ g.cb = p.cb
    /\ g.rtnl_sock = p.rtnl_sock
    /\ \A m \in 0 .. MaxFd : p.fd[m] # Free => g.fd[m] = p.fd[m]
    /\ \A i \in 1 .. Len(g.dev) : g.dev[i].sock # 0 =>
          (i \in 1 .. Len(p.dev) /\ g.dev[i].sock = p.dev[i].sock) \/ (g.dev[i].sock = n /\ func = "aodv")
    /\ ~Opened(g, "if")
    /\ l \in PreNfq => ~Opened(g, "nfq")
    /\ l \in PreLlf => ~Opened(g, "llf")
    /\ l \notin PreNfq => WatchedFor(p, "nfq") \/ func = "nfq"
    /\ l \notin PreNfq \cup {"sockets"} => \A i \in 1 .. Len(g.dev) : g.dev[i].enabled => g.dev[i].sock # 0

LEMMA NowWatched ==
    ASSUME NEW p, Alive(p), NEW g, NEW l, NEW n, NEW func, Ready(p, g, l, n, func),
           NEW r, r = attach_callback_func(g, n, func)
    PROVE  Alive(r)
<1>a. p.at \in PreLoop \ PreNl /\ l \in (PreLoop \ PreNl) \cup {"age"}
  BY DEF Ready
<1>b. n \in 0 .. MaxFd /\ p.fd[n] = Free /\ func \in Funcs /\ g.fd[n] = func
  BY DEF Ready
<1>c. g \in Process /\ Tidy(g) /\ g.at = l /\ SameNet(p, g)
  BY DEF Ready
<1>d. g.cb = p.cb /\ g.rtnl_sock = p.rtnl_sock
  BY DEF Ready
<1>0. /\ p.at \in PreLoop /\ p.at \notin Down /\ p.at \notin PreNl /\ l \notin PreNl /\ l \notin Down
      /\ p.at \notin PreTimers /\ p.at \notin {"options", "detach"} /\ l \in PreLoop \cup {"age", "exit"}
      /\ l \notin PreIf /\ l # "interface" /\ l \notin PreLog /\ l \notin {"options", "detach"} /\ l # "exit"
  BY <1>a DEF PreLoop, PreLlf, PreNfq, PreNl, PreIf, PreTimers, PreLog, Down
<1>1. p \in Process /\ Tidy(p) /\ Watched(p) /\ Staged(p, p.at)
  BY <1>0 DEF Alive, Files
<1>2. CASE r = Goto(g, "exit")
  BY <1>0, <1>c, <1>2, Onward
<1>3. CASE r # Goto(g, "exit")
  <2>1. /\ r \in Process /\ Tidy(r) /\ Attached(g, r, n, func) /\ r.fd = g.fd /\ r.at = l
        /\ r.rtnl_sock = g.rtnl_sock /\ r.dev = g.dev /\ SameNet(g, r)
    <3>1. Watching(g, r, n, func)
      BY <1>b, <1>c, <1>3, AttachOK
    <3>. QED
      BY <1>c, <3>1 DEF Watching
  <2>2. \A i \in 1 .. Len(g.cb) : g.cb[i].fd # n
    BY <1>b, <1>d, <1>1, FreeUnwatched
  <2>3. \A i, j \in 1 .. Len(g.cb) : g.cb[i].fd = g.cb[j].fd => i = j
    BY <1>d, <1>1 DEF Watched
  <2>4. OneMore(g, r, [fd |-> n, func |-> func])
    BY <1>b, <1>c, <2>1, <2>2, <2>3, OneMoreWatch
  <2>5. /\ \A i, j \in 1 .. Len(r.cb) : r.cb[i].fd = r.cb[j].fd => i = j
        /\ \A i \in 1 .. Len(p.cb) : i \in 1 .. Len(r.cb) /\ r.cb[i] = p.cb[i]
        /\ \E i \in 1 .. Len(r.cb) : r.cb[i] = [fd |-> n, func |-> func]
    BY <1>d, <2>4 DEF OneMore
  <2>6. WatchedFor(r, func) /\ \A f : WatchedFor(p, f) => WatchedFor(r, f)
    <3>. DEFINE w == [fd |-> n, func |-> func]
    <3>1. w.func = func
      OBVIOUS
    <3>. HIDE DEF w
    <3>2. OneMore(g, r, w)
      BY <2>4 DEF w
    <3>3. WatchedFor(r, func) /\ \A f : WatchedFor(g, f) => WatchedFor(r, f)
      BY <3>1, <3>2 DEF OneMore
    <3>4. \A f : WatchedFor(p, f) => WatchedFor(g, f)
      BY <1>d DEF WatchedFor
    <3>. QED
      BY <3>3, <3>4
  <2>7. Watched(r)
    <3>1. ASSUME NEW i \in 1 .. Len(g.dev), g.dev[i].sock # 0
          PROVE  \E j \in 1 .. Len(r.cb) : r.cb[j] = [fd |-> g.dev[i].sock, func |-> "aodv"]
      <4>1. CASE i \in 1 .. Len(p.dev) /\ g.dev[i].sock = p.dev[i].sock
        <5>1. PICK j \in 1 .. Len(p.cb) : p.cb[j] = [fd |-> p.dev[i].sock, func |-> "aodv"]
          BY <3>1, <4>1, <1>1 DEF Watched
        <5>2. j \in 1 .. Len(r.cb) /\ r.cb[j] = p.cb[j]
          BY <2>5
        <5>. QED
          BY <4>1, <5>1, <5>2
      <4>2. CASE g.dev[i].sock = n /\ func = "aodv"
        BY <4>2, <2>5
      <4>3. \/ i \in 1 .. Len(p.dev) /\ g.dev[i].sock = p.dev[i].sock
            \/ g.dev[i].sock = n /\ func = "aodv"
        BY <3>1 DEF Ready
      <4>. QED
        BY <4>1, <4>2, <4>3
    <3>2. \A i \in 1 .. Len(r.dev) : r.dev[i].sock # 0 =>
             \E j \in 1 .. Len(r.cb) : r.cb[j] = [fd |-> r.dev[i].sock, func |-> "aodv"]
      BY <2>1, <3>1
    <3>. QED
      BY <2>5, <3>2 DEF Watched
  <2>8. Staged(r, l)
    <3>1. WatchedFor(r, "nl") /\ (l \notin PreNfq => WatchedFor(r, "nfq"))
      BY <1>0, <1>1, <2>6 DEF Staged, Ready
    <3>2. p.fd[0] # Free /\ p.rtnl_sock # NoFd /\ p.fd[p.rtnl_sock] = "nl"
      BY <1>0, <1>1 DEF Staged
    <3>3. 0 \in 0 .. MaxFd /\ p.rtnl_sock \in 0 .. MaxFd
      <4>1. p.rtnl_sock \in Fds
        BY <1>1 DEF Process
      <4>2. MaxFd \in Nat
        BY StartAssumption
      <4>3. 0 \in 0 .. MaxFd
        BY SMTT(30), <4>2
      <4>. QED
        BY <3>2, <4>1, <4>3 DEF Fds
    <3>4. \A m \in 0 .. MaxFd : p.fd[m] # Free => r.fd[m] = p.fd[m]
      BY <2>1 DEF Ready
    <3>5. r.fd[0] # Free /\ r.rtnl_sock # NoFd /\ r.fd[r.rtnl_sock] = "nl"
      BY <1>d, <2>1, <3>2, <3>3, <3>4 DEF Free
    <3>6. ~Opened(r, "if") /\ (l \in PreNfq => ~Opened(r, "nfq")) /\ (l \in PreLlf => ~Opened(r, "llf"))
      BY <2>1 DEF Opened, Ready
    <3>7. l \notin PreNfq \cup {"sockets"} => \A i \in 1 .. Len(r.dev) : r.dev[i].enabled => r.dev[i].sock # 0
      BY <2>1 DEF Ready
    <3>. QED
      BY <1>0, <3>1, <3>5, <3>6, <3>7 DEF Staged
  <2>9. SameNet(p, r)
    BY <1>c, <2>1 DEF SameNet
  <2>10. Files(r)
    BY <2>1, <2>7, <2>8, StartFiles
  <2>. QED
    BY <1>0, <2>1, <2>9, <2>10, StartStep
<1>. QED
  BY <1>2, <1>3

LEMMA HandledForms ==
    ASSUME NEW p \in Process, NEW n \in Fds
    PROVE  /\ [p EXCEPT !.nfq_handle = NoFd, !.nfq_queue = FALSE, !.at = "exit"]
                 = Goto(Handled(p, NoFd, "unbound"), "exit")
           /\ [[p EXCEPT !.nfq_handle = n] EXCEPT !.nfq_queue = TRUE] = Handled(p, n, "bound")
           /\ ~ p.nfq_queue => [p EXCEPT !.nfq_handle = n] = Handled(p, n, "unbound")
<1>1. ("unbound" = "bound") = FALSE /\ ("bound" = "bound") = TRUE
  OBVIOUS
<1>2. Goto(Handled(p, NoFd, "unbound"), "exit")
         = [[p EXCEPT !.nfq_handle = NoFd, !.nfq_queue = FALSE] EXCEPT !.at = "exit"]
  BY <1>1 DEF Goto, Handled
<1>3. [[p EXCEPT !.nfq_handle = NoFd, !.nfq_queue = FALSE] EXCEPT !.at = "exit"]
         = [p EXCEPT !.nfq_handle = NoFd, !.nfq_queue = FALSE, !.at = "exit"]
  BY DEF Process
<1>4. Handled(p, n, "bound") = [p EXCEPT !.nfq_handle = n, !.nfq_queue = TRUE]
  BY <1>1 DEF Handled
<1>5. [p EXCEPT !.nfq_handle = n, !.nfq_queue = TRUE] = [[p EXCEPT !.nfq_handle = n] EXCEPT !.nfq_queue = TRUE]
  BY DEF Process
<1>6. Handled(p, n, "unbound") = [p EXCEPT !.nfq_handle = n, !.nfq_queue = FALSE]
  BY <1>1 DEF Handled
<1>7. ~ p.nfq_queue => [p EXCEPT !.nfq_handle = n] = [p EXCEPT !.nfq_handle = n, !.nfq_queue = FALSE]
  BY DEF Process
<1>. QED
  BY <1>2, <1>3, <1>4, <1>5, <1>6, <1>7

LEMMA NfqueueInitOK == ASSUME Alive(d), nfqueue_init PROVE Alive(d')
<1>. DEFINE o == open(d, "nfq")
            q == [o EXCEPT !.nfq_handle = o.ret]
            p == [q EXCEPT !.nfq_queue = TRUE]
            y == nfq_destroy_queue(p)
            Undone(r) == [r EXCEPT !.nfq_handle = NoFd, !.nfq_queue = FALSE, !.at = "exit"]
            g == [p EXCEPT !.nfq_socket = q.ret, !.at = "sockets"]
<1>1. CASE Fails("nfqueue")
  BY <1>1, FailsOK DEF PreLoop, PreLlf, PreNfq, PreNl, PreIf, PreTimers, PreLog
<1>2. CASE ~Fails("nfqueue")
  <2>1. /\ d.at = "nfqueue"
        /\ d' = Undone(nfq_close(q)) \/ d' = Undone(nfq_close(y)) \/ d' = attach_callback_func(g, q.ret, "nfq")
    BY <1>2 DEF nfqueue_init, Step
  <2>2. Tidy(d) /\ Watched(d) /\ Staged(d, "nfqueue") /\ d \in Process
    BY <2>1 DEF Alive, Files, Down
  <2>3. ~Opened(d, "nfq") /\ ~Opened(d, "llf") /\ ~Opened(d, "if") /\ d.fd[0] # Free
    BY <2>2 DEF Staged, PreLlf, PreNfq, PreNl, PreIf, PreTimers, PreLog
  <2>4. d.pq = {} /\ d.hand = {} /\ d.todo = {}
    BY <2>1 DEF Alive, Held, Loop, Down
  <2>5. ~ d.nfq_queue
    <3>1. d.nfq_handle \in Fds
      BY <2>2 DEF Process
    <3>. QED
      BY <2>2, <2>3, <3>1 DEF Tidy, Opened, Fds
  <2>6. PICK n \in 0 .. MaxFd : Took(d, o, n, "nfq")
    BY <2>2, <2>3, OpenFor DEF Singles
  <2>7. /\ Lowest(d, n) /\ o \in Process /\ Others(d, o) /\ Tidy(o) /\ NoNew(d, o, {"nfq"})
        /\ o.fd = [d.fd EXCEPT ![n] = "nfq"] /\ o.fd[n] = "nfq" /\ o.ret = n /\ n \in Fds
    BY <2>6 DEF Took, Fds
  <2>8. n # 0 /\ n # NoFd /\ d.fd[n] = Free /\ \A i \in 1 .. Len(d.cb) : d.cb[i].fd # n
    <3>1. n # 0 /\ d.fd[n] = Free
      BY <2>3, <2>7 DEF Lowest
    <3>2. n # NoFd
      BY SMTT(30) DEF NoFd
    <3>. QED
      BY <3>1, <3>2, <2>2, FreeUnwatched
  <2>. HIDE DEF o
  <2>9. q = Handled(o, n, "unbound") /\ p = Handled(o, n, "bound")
    <3>1. ~ o.nfq_queue
      BY <2>5, <2>7 DEF Others
    <3>2. q = [o EXCEPT !.nfq_handle = n] /\ p = [[o EXCEPT !.nfq_handle = n] EXCEPT !.nfq_queue = TRUE]
      BY <2>7
    <3>. HIDE DEF p, q
    <3>. QED
      BY <2>7, <3>1, <3>2, HandledForms
  <2>. HIDE DEF p, q
  <2>10. ASSUME NEW t, NEW h, h = Handled(o, n, t)
         PROVE  /\ h \in Process /\ Tidy(h) /\ SameNet(d, h) /\ h.nfq_handle = n /\ h.ret = n
                /\ h.fd = o.fd /\ h.cb = d.cb /\ h.dev = d.dev /\ h.rtnl_sock = d.rtnl_sock
                /\ h.pq = {} /\ h.hand = {} /\ h.todo = {}
    <3>1. /\ h \in Process /\ h.nfq_handle = n /\ SameNet(o, h) /\ h.ret = n
          /\ h.fd = o.fd /\ h.cb = o.cb /\ h.dev = o.dev
          /\ h.log_file_fd = o.log_file_fd /\ h.rth_fd = o.rth_fd /\ h.rtnl_sock = o.rtnl_sock
          /\ h.pq = o.pq /\ h.hand = o.hand /\ h.todo = o.todo
      BY SMTT(30), <2>7, <2>10, HandleParts
    <3>2. Tidy(h)
      <4>1. h.nfq_handle # NoFd /\ h.nfq_handle # 0 /\ h.fd[h.nfq_handle] = "nfq"
        BY <2>7, <2>8, <3>1
      <4>. QED
        BY <2>7, <3>1, <4>1, TidyWith
    <3>3. /\ SameNet(d, h) /\ h.cb = d.cb /\ h.dev = d.dev /\ h.rtnl_sock = d.rtnl_sock
          /\ h.pq = {} /\ h.hand = {} /\ h.todo = {}
      BY <2>4, <2>7, <3>1 DEF SameNet, Others
    <3>. QED
      BY <3>1, <3>2, <3>3
  <2>11. ASSUME NEW h \in Process, Tidy(h), SameNet(d, h), h.nfq_handle = n, h.cb = d.cb,
                d' = Undone(nfq_close(h))
         PROVE  Alive(d')
    <3>. DEFINE c == nfq_close(h)  z == Handled(c, NoFd, "unbound")
    <3>1. c \in Process /\ z \in Process /\ SameNet(h, z) /\ Tidy(z)
      BY <2>8, <2>11, CloseQueueOK
    <3>. HIDE DEF c
    <3>2. d' = Goto(z, "exit")
      BY <2>7, <2>11, <3>1, HandledForms DEF c
    <3>. HIDE DEF z
    <3>3. SameNet(d, z)
      BY <2>11, <3>1 DEF SameNet
    <3>. QED
      BY <2>1, <3>1, <3>2, <3>3, Onward DEF PreLoop, PreLlf, PreNfq, PreNl, PreIf, PreTimers, PreLog, Down
  <2>. HIDE DEF Undone
  <2>12. CASE d' = Undone(nfq_close(q))
    BY <2>9, <2>10, <2>11, <2>12
  <2>13. CASE d' = Undone(nfq_close(y))
    <3>1. /\ p \in Process /\ Tidy(p) /\ SameNet(d, p) /\ p.nfq_handle = n /\ p.nfq_handle # NoFd
          /\ p.fd[p.nfq_handle] = "nfq"
          /\ p.fd = o.fd /\ p.cb = d.cb /\ p.pq = {} /\ p.hand = {} /\ p.todo = {}
      BY <2>7, <2>8, <2>9, <2>10
    <3>2. /\ y \in Process /\ SameNet(p, y)
          /\ y.fd = p.fd /\ y.cb = p.cb /\ y.opt = p.opt /\ y.dev = p.dev
          /\ y.log_file_fd = p.log_file_fd /\ y.rth_fd = p.rth_fd
          /\ y.nfq_handle = p.nfq_handle /\ y.nfq_queue = p.nfq_queue
      BY <3>1, DestroyOK
    <3>. HIDE DEF y
    <3>3. Tidy(y)
      BY <3>1, <3>2, SameFiles
    <3>4. SameNet(d, y)
      BY <3>1, <3>2 DEF SameNet
    <3>. QED
      BY <2>11, <2>13, <3>1, <3>2, <3>3, <3>4
  <2>14. CASE d' = attach_callback_func(g, q.ret, "nfq")
    <3>1. /\ p \in Process /\ Tidy(p) /\ SameNet(d, p) /\ q.ret = n
          /\ p.fd = o.fd /\ p.cb = d.cb /\ p.dev = d.dev /\ p.rtnl_sock = d.rtnl_sock
      BY <2>9, <2>10
    <3>2. "sockets" \in Labels /\ g = Polled(p, n, "sockets")
      BY <3>1 DEF Labels, PreLoop, PreLlf, Polled
    <3>. HIDE DEF g
    <3>3. /\ g \in Process /\ SameNet(p, g) /\ g.at = "sockets"
          /\ g.fd = p.fd /\ g.cb = p.cb /\ g.dev = p.dev
          /\ g.log_file_fd = p.log_file_fd /\ g.rth_fd = p.rth_fd /\ g.rtnl_sock = p.rtnl_sock
          /\ g.nfq_handle = p.nfq_handle /\ g.nfq_queue = p.nfq_queue
      BY SMTT(30), <2>7, <3>1, <3>2, NfqSocketParts
    <3>4. Tidy(g)
      BY <3>1, <3>3, SameFiles
    <3>5. SameNet(d, g) /\ g.cb = d.cb /\ g.rtnl_sock = d.rtnl_sock /\ g.fd[n] = "nfq"
      BY SMTT(30), <2>7, <3>1, <3>3 DEF SameNet
    <3>6. \A m \in 0 .. MaxFd : d.fd[m] # Free => g.fd[m] = d.fd[m]
      <4>1. d.fd \in [0 .. MaxFd -> Tags]
        BY <2>2 DEF Process
      <4>. QED
        BY SMTT(30), <2>7, <2>8, <3>1, <3>3, <4>1
    <3>7. ~Opened(g, "if") /\ ~Opened(g, "llf")
      <4>1. ~Opened(o, "if") /\ ~Opened(o, "llf")
        BY <2>3, <2>7 DEF NoNew, Services
      <4>. QED
        BY <4>1, <3>1, <3>3 DEF Opened
    <3>8. \A i \in 1 .. Len(g.dev) : i \in 1 .. Len(d.dev) /\ g.dev[i].sock = d.dev[i].sock
      BY <3>1, <3>3
    <3>9. /\ d.at \in PreLoop \ PreNl /\ "sockets" \in (PreLoop \ PreNl) \cup {"age"} /\ "nfq" \in Funcs
          /\ "sockets" \notin PreNfq /\ "sockets" \in PreNfq \cup {"sockets"}
      BY <2>1 DEF PreLoop, PreLlf, PreNfq, PreNl, PreIf, PreTimers, PreLog, Funcs
    <3>10. d' = attach_callback_func(g, n, "nfq")
      BY <2>14, <3>1
    <3>11. Ready(d, g, "sockets", n, "nfq")
      <4>1. /\ "sockets" \in PreNfq => ~Opened(g, "nfq")
            /\ "sockets" \in PreLlf => ~Opened(g, "llf")
            /\ "sockets" \notin PreNfq => WatchedFor(d, "nfq") \/ "nfq" = "nfq"
            /\ "sockets" \notin PreNfq \cup {"sockets"} =>
                  \A i \in 1 .. Len(g.dev) : g.dev[i].enabled => g.dev[i].sock # 0
        BY <3>7, <3>9
      <4>2. \A i \in 1 .. Len(g.dev) : g.dev[i].sock # 0 =>
              (i \in 1 .. Len(d.dev) /\ g.dev[i].sock = d.dev[i].sock) \/ (g.dev[i].sock = n /\ "nfq" = "aodv")
        BY <3>8
      <4>. QED
        BY <2>8, <3>3, <3>4, <3>5, <3>6, <3>7, <3>9, <4>1, <4>2 DEF Ready
    <3>. QED
      BY <3>10, <3>11, NowWatched
  <2>. QED
    BY <2>1, <2>12, <2>13, <2>14
<1>. QED
  BY <1>1, <1>2

-----------------------------------------------------------------------------
(* The last services                                                       *)

(* The socket of a device that has none: it is at n, and n is not 0. *)
Socketed(A, i, n) == [A EXCEPT ![i].sock = n]

LEMMA SocketSet ==
    ASSUME NEW p \in Process, NEW i \in 1 .. Len(p.dev), NEW n \in Fds,
           NEW D, D = Socketed(p.dev, i, n)
    PROVE  /\ D \in Seq(Devs) /\ Len(D) = Len(p.dev) /\ D[i].sock = n
           /\ \A k \in 1 .. Len(p.dev) : k # i => D[k] = p.dev[k]
<1>. DEFINE x == [p.dev[i] EXCEPT !.sock = n]
<1>1. p.dev \in Seq(Devs) /\ p.dev[i] \in Devs
  BY DevParts DEF Process
<1>2. x \in Devs /\ x.sock = n
  BY <1>1 DEF Devs
<1>3. D = [p.dev EXCEPT ![i] = x]
  BY DEF Socketed
<1>. HIDE DEF x
<1>. QED
  BY SMTT(30), <1>1, <1>2, <1>3, SetDevice

LEMMA SocketTidy ==
    ASSUME NEW p \in Process, Tidy(p), NEW n \in 0 .. MaxFd, p.fd[n] = Free, n # 0,
           NEW i \in 1 .. Len(p.dev), p.dev[i].sock = 0, NEW D,
           D \in Seq(Devs) /\ Len(D) = Len(p.dev) /\ D[i].sock = n,
           \A k \in 1 .. Len(p.dev) : k # i => D[k] = p.dev[k],
           NEW q, q.fd[n] = "aodv", \A m \in 0 .. MaxFd : m # n => q.fd[m] = p.fd[m],
           q.dev = D, q.cb = p.cb, q.nfq_queue = p.nfq_queue, q.nfq_handle = p.nfq_handle,
           q.rth_fd = p.rth_fd, q.log_file_fd = p.log_file_fd
    PROVE  Tidy(q)
<1>1. \A m, k \in 0 .. MaxFd : q.fd[m] = q.fd[k] /\ q.fd[m] \in Singles => m = k
  BY SMTT(30) DEF Tidy, Singles
<1>2. ASSUME NEW m \in 0 .. MaxFd, q.fd[m] = "aodv"
      PROVE  m # 0 /\ \E k \in 1 .. Len(q.dev) : q.dev[k].sock = m
  <2>1. CASE m = n
    BY <2>1
  <2>2. CASE m # n
    <3>1. PICK k \in 1 .. Len(p.dev) : m # 0 /\ p.dev[k].sock = m
      BY SMTT(30), <1>2, <2>2 DEF Tidy
    <3>2. k # i
      BY <3>1
    <3>. QED
      BY <3>1, <3>2
  <2>. QED
    BY <2>1, <2>2
<1>3. Leaks(q) = Leaks(p)
  BY DEF Leaks, Free
<1>4. /\ Len(q.dev) <= MAX_NR_INTERFACES /\ (q.nfq_queue => q.nfq_handle # NoFd)
      /\ q.nfq_handle # NoFd => q.nfq_handle # 0 /\ q.fd[q.nfq_handle] = "nfq"
      /\ q.rth_fd \notin {0, NoFd} => q.fd[q.rth_fd] = "llf"
      /\ q.log_file_fd # NoFd => q.fd[q.log_file_fd] = "log"
      /\ Len(q.cb) <= CALLBACK_FUNCS
  <2>1. p.nfq_handle \in Fds /\ p.rth_fd \in Fds /\ p.log_file_fd \in Fds
    BY DEF Process
  <2>. QED
    BY SMTT(30), <2>1 DEF Tidy, Fds, Free
<1>5. ASSUME NEW k \in 1 .. Len(p.dev), D[k].sock # 0
      PROVE  D[k].sock # NoFd /\ q.fd[D[k].sock] = "aodv"
  <2>1. CASE k = i
    BY SMTT(30), <2>1 DEF NoFd
  <2>2. CASE k # i
    <3>1. /\ D[k].sock = p.dev[k].sock /\ p.dev[k].sock # NoFd /\ p.fd[p.dev[k].sock] = "aodv"
          /\ p.dev[k].sock \in 0 .. MaxFd
      BY SMTT(30), <1>5, <2>2, DevParts DEF Tidy, Fds
    <3>. QED
      BY <3>1 DEF Free
  <2>. QED
    BY <2>1, <2>2
<1>6. ASSUME NEW k \in 1 .. Len(p.cb) PROVE q.fd[p.cb[k].fd] = p.cb[k].func
  <2>1. p.fd[p.cb[k].fd] = p.cb[k].func /\ p.cb[k].fd \in 0 .. MaxFd /\ p.cb[k].func \in Funcs
    BY CbParts DEF Tidy
  <2>. QED
    BY <2>1 DEF Funcs, Free
<1>7. Counting /\ Cardinality(Leaks(q)) <= MaxLeaks
  BY <1>3 DEF Tidy
<1>8. \A k \in 1 .. Len(q.dev) : q.dev[k].sock # 0 => q.dev[k].sock # NoFd /\ q.fd[q.dev[k].sock] = "aodv"
  BY <1>5
<1>9. \A k \in 1 .. Len(q.cb) : q.fd[q.cb[k].fd] = q.cb[k].func
  BY <1>6
<1>. QED
  BY <1>1, <1>2, <1>4, <1>7, <1>8, <1>9, TidyParts

LEMMA SocketsDone == ASSUME Alive(d), sockets, Unopened = {} PROVE Alive(d')
<1>1. d.at = "sockets" /\ d' = Goto(d, "llf")
  BY DEF sockets, Step
<1>2. d \in Process /\ Staged(d, "sockets")
  BY <1>1 DEF Alive, Files, Down
<1>3. \A i \in 1 .. Len(d.dev) : d.dev[i].enabled => d.dev[i].sock # 0
  <2>1. DOMAIN d.dev = 1 .. Len(d.dev)
    BY SMTT(30), <1>2 DEF Process
  <2>. QED
    BY <2>1 DEF Unopened
<1>4. Staged(d, "llf")
  BY <1>2, <1>3 DEF Staged, PreLlf, PreNfq, PreNl, PreIf, PreTimers, PreLog
<1>. QED
  BY <1>1, <1>4, GoesOn DEF PreLoop, PreLlf, PreNfq, PreNl, PreIf, PreTimers, PreLog

WithSocket(p, i, n) == [p EXCEPT !.dev[i].sock = n]

LEMMA WithSocketParts ==
    ASSUME NEW p \in Process, NEW i \in 1 .. Len(p.dev), NEW n \in Fds, NEW q, q = WithSocket(p, i, n)
    PROVE  /\ Len(q.dev) = Len(p.dev) /\ q.dev[i].sock = n
           /\ \A k \in 1 .. Len(p.dev) : k # i => q.dev[k] = p.dev[k]
           /\ q \in Process /\ q.dev \in Seq(Devs) /\ SameNet(p, q) /\ q.ret = p.ret
           /\ q.fd = p.fd /\ q.cb = p.cb /\ q.opt = p.opt /\ q.at = p.at
           /\ q.log_file_fd = p.log_file_fd /\ q.rtnl_sock = p.rtnl_sock
           /\ q.rth_fd = p.rth_fd /\ q.nfq_handle = p.nfq_handle /\ q.nfq_queue = p.nfq_queue
<1>. DEFINE D == Socketed(p.dev, i, n)
<1>1. D = Socketed(p.dev, i, n)
  OBVIOUS
<1>3. q = [p EXCEPT !.dev = D]
  BY DEF WithSocket, Socketed
<1>. HIDE DEF D
<1>2. /\ D \in Seq(Devs) /\ Len(D) = Len(p.dev) /\ D[i].sock = n
      /\ \A k \in 1 .. Len(p.dev) : k # i => D[k] = p.dev[k]
  BY SMTT(30), <1>1, SocketSet
<1>4. /\ q \in Process /\ q.dev = D /\ SameNet(p, q) /\ q.ret = p.ret
      /\ q.fd = p.fd /\ q.cb = p.cb /\ q.opt = p.opt /\ q.at = p.at
      /\ q.log_file_fd = p.log_file_fd /\ q.rtnl_sock = p.rtnl_sock
      /\ q.rth_fd = p.rth_fd /\ q.nfq_handle = p.nfq_handle /\ q.nfq_queue = p.nfq_queue
  BY SMTT(30), <1>2, <1>3, DevsParts
<1>. QED
  BY <1>2, <1>4

(* socket() has failed: cleanup() closes nothing for this device. *)
LEMMA NoSocketOK ==
    ASSUME Alive(d), d.at = "sockets", NEW i \in 1 .. Len(d.dev), NEW z, z = WithSocket(d, i, NoFd),
           NEW q, q = Goto(z, "exit")
    PROVE  Alive(q)
<1>1. d \in Process /\ Own(d) /\ NoFd \in Fds
  BY DEF Alive, Files, Fds
<1>4. /\ Len(z.dev) = Len(d.dev) /\ z.dev[i].sock = NoFd
      /\ \A k \in 1 .. Len(d.dev) : k # i => z.dev[k] = d.dev[k]
      /\ z \in Process /\ SameNet(d, z)
      /\ z.fd = d.fd /\ z.cb = d.cb
      /\ z.log_file_fd = d.log_file_fd /\ z.rth_fd = d.rth_fd
      /\ z.nfq_handle = d.nfq_handle /\ z.nfq_queue = d.nfq_queue
  BY SMTT(30), <1>1, WithSocketParts
<1>5. Own(z)
  <2>1. ASSUME NEW k \in 1 .. Len(z.dev), z.dev[k].sock \notin {0, NoFd}
        PROVE  z.fd[z.dev[k].sock] \in {"aodv", Free}
    <3>1. k # i /\ z.dev[k] = d.dev[k]
      BY <1>4, <2>1
    <3>. QED
      BY <1>1, <1>4, <2>1, <3>1 DEF Own
  <2>. QED
    BY <1>1, <1>4, <2>1 DEF Own
<1>6. "exit" \in Labels
  BY DEF Labels, Down
<1>7. /\ q \in Process /\ q.at = "exit" /\ q.fd = z.fd /\ q.opt = z.opt
      /\ q.log_file_fd = z.log_file_fd /\ q.rtnl_sock = z.rtnl_sock
      /\ q.rth_fd = z.rth_fd /\ q.nfq_handle = z.nfq_handle /\ q.nfq_queue = z.nfq_queue
      /\ q.dev = z.dev /\ q.cb = z.cb /\ q.tq = z.tq /\ q.due = z.due
      /\ q.rt = z.rt /\ q.fib = z.fib /\ q.pq = z.pq /\ q.kq = z.kq /\ q.hand = z.hand
      /\ q.todo = z.todo /\ q.abandoned = z.abandoned /\ q.misused = z.misused
      /\ q.cleaned = z.cleaned /\ q.atexit = z.atexit
  BY SMTT(30), <1>4, <1>6, GotoParts
<1>8. Own(q)
  BY <1>5, <1>7, SameFiles
<1>9. Files(q)
  BY <1>7, <1>8 DEF Files, Down
<1>10. SameNet(d, q)
  BY <1>4, <1>7 DEF SameNet
<1>. QED
  BY <1>7, <1>9, <1>10, StartStep DEF PreLoop, PreLlf, PreNfq, PreNl, PreIf, PreTimers, PreLog, Down

LEMMA SocketsOK == ASSUME Alive(d), sockets PROVE Alive(d')
<1>1. CASE Unopened = {}
  BY <1>1, SocketsDone
<1>2. CASE Unopened # {}
  <2>. DEFINE i == Min(Unopened)  o == open(d, "aodv")  p == [o EXCEPT !.dev[i].sock = o.ret]
              z == [d EXCEPT !.dev[i].sock = NoFd]  s == alog(p, "LOG_NOTICE")
  <2>1. /\ d.at = "sockets"
        /\ d' = [d EXCEPT !.dev[i].sock = NoFd, !.at = "exit"] \/ d' = Goto(p, "exit")
              \/ d' = attach_callback_func(s, o.ret, "aodv")
    BY <1>2 DEF sockets, aodv_socket_init, Step
  <2>2. Tidy(d) /\ Watched(d) /\ Staged(d, "sockets") /\ d \in Process
    BY <2>1 DEF Alive, Files, Down
  <2>3. i \in 1 .. Len(d.dev) /\ d.dev[i].sock = 0
    <3>1. Unopened \subseteq 1 .. Len(d.dev) /\ \A k \in Unopened : d.dev[k].sock = 0
      BY SMTT(30), <2>2 DEF Unopened, Process
    <3>2. i \in Unopened
      <4>1. Unopened \subseteq Nat
        BY SMTT(30), <3>1
      <4>. QED
        BY <1>2, <2>2, <4>1 DEF Tidy, Counting
    <3>. QED
      BY <3>1, <3>2
  <2>. HIDE DEF i
  <2>4. ~Opened(d, "llf") /\ ~Opened(d, "if") /\ d.fd[0] # Free /\ WatchedFor(d, "nfq")
    BY <2>2 DEF Staged, PreLlf, PreNfq, PreNl, PreIf, PreTimers, PreLog
  <2>5. PICK n \in 0 .. MaxFd : Lowest(d, n) /\ o = Put(d, n, "aodv")
    BY <2>2, OpenAt
  <2>6. d.fd[n] = Free /\ n # 0 /\ n \in Fds /\ "aodv" \in Tags
    BY <2>4, <2>5 DEF Lowest, Fds, Tags, Services
  <2>7. o \in Process /\ o.fd = [d.fd EXCEPT ![n] = "aodv"] /\ o.ret = n /\ Others(d, o)
    BY <2>2, <2>5, <2>6, PutParts
  <2>8. p = WithSocket(o, i, n)
    BY <2>7 DEF WithSocket
  <2>9. z = WithSocket(d, i, NoFd) /\ [d EXCEPT !.dev[i].sock = NoFd, !.at = "exit"] = Goto(z, "exit")
    BY <2>2 DEF WithSocket, Goto, Process
  <2>10. CASE d' = [d EXCEPT !.dev[i].sock = NoFd, !.at = "exit"]
    BY <2>1, <2>3, <2>9, <2>10, NoSocketOK
  <2>. HIDE DEF o, p, z
  <2>11. /\ Len(p.dev) = Len(o.dev) /\ p.dev[i].sock = n
         /\ \A k \in 1 .. Len(o.dev) : k # i => p.dev[k] = o.dev[k]
         /\ p \in Process /\ p.dev \in Seq(Devs) /\ SameNet(o, p)
         /\ p.fd = o.fd /\ p.cb = o.cb /\ p.opt = o.opt /\ p.at = o.at
         /\ p.log_file_fd = o.log_file_fd /\ p.rtnl_sock = o.rtnl_sock
         /\ p.rth_fd = o.rth_fd /\ p.nfq_handle = o.nfq_handle /\ p.nfq_queue = o.nfq_queue
    <3>1. i \in 1 .. Len(o.dev)
      BY <2>3, <2>7 DEF Others
    <3>. QED
      BY SMTT(30), <2>6, <2>7, <2>8, <3>1, WithSocketParts
  <2>12. /\ Len(p.dev) = Len(d.dev) /\ p.dev[i].sock = n
         /\ \A k \in 1 .. Len(d.dev) : k # i => p.dev[k] = d.dev[k]
         /\ p \in Process /\ p.dev \in Seq(Devs) /\ SameNet(d, p)
         /\ p.cb = d.cb /\ p.at = d.at
         /\ p.log_file_fd = d.log_file_fd /\ p.rtnl_sock = d.rtnl_sock
         /\ p.rth_fd = d.rth_fd /\ p.nfq_handle = d.nfq_handle /\ p.nfq_queue = d.nfq_queue
    BY SMTT(30), <2>7, <2>11 DEF Others, SameNet
  <2>13. p.fd[n] = "aodv" /\ \A m \in 0 .. MaxFd : m # n => p.fd[m] = d.fd[m]
    <3>1. d.fd \in [0 .. MaxFd -> Tags]
      BY <2>2 DEF Process
    <3>. QED
      BY <2>7, <2>11, <3>1
  <2>14. Tidy(p)
    BY <2>2, <2>3, <2>6, <2>12, <2>13, SocketTidy
  <2>15. CASE d' = Goto(p, "exit")
    BY <2>1, <2>12, <2>14, <2>15, Onward DEF PreLoop, PreLlf, PreNfq, PreNl, PreIf, PreTimers, PreLog, Down
  <2>16. CASE d' = attach_callback_func(s, o.ret, "aodv")
    <3>1. s = syslog(p)
      BY <2>12, <2>14, TidyOwns, AlogIs
    <3>. HIDE DEF s
    <3>2. /\ s \in Process /\ Others(p, s) /\ Tidy(s) /\ NoNew(p, s, {"syslog"})
          /\ \A m \in 0 .. MaxFd : p.fd[m] # Free => s.fd[m] = p.fd[m]
      BY SMTT(30), <2>12, <2>14, <3>1, SyslogOK
    <3>3. /\ s.at = "sockets" /\ s.cb = d.cb /\ s.rtnl_sock = d.rtnl_sock /\ s.dev = p.dev
          /\ SameNet(d, s)
      BY <2>1, <2>12, <3>2 DEF Others, SameNet
    <3>4. /\ s.fd[n] = "aodv" /\ \A m \in 0 .. MaxFd : d.fd[m] # Free => s.fd[m] = d.fd[m]
      BY <2>6, <2>13, <3>2 DEF Free
    <3>5. ~Opened(s, "if") /\ ~Opened(s, "llf")
      <4>1. ~Opened(p, "if") /\ ~Opened(p, "llf")
        BY <2>4, <2>13 DEF Opened
      <4>. QED
        BY <4>1, <3>2 DEF NoNew, Services
    <3>6. \A k \in 1 .. Len(s.dev) : s.dev[k].sock # 0 =>
            (k \in 1 .. Len(d.dev) /\ s.dev[k].sock = d.dev[k].sock) \/ (s.dev[k].sock = n /\ "aodv" = "aodv")
      BY <2>12, <3>3
    <3>7. /\ d.at \in PreLoop \ PreNl /\ "sockets" \in (PreLoop \ PreNl) \cup {"age"} /\ "aodv" \in Funcs
          /\ "sockets" \notin PreNfq /\ "sockets" \in PreNfq \cup {"sockets"}
      BY <2>1 DEF PreLoop, PreLlf, PreNfq, PreNl, PreIf, PreTimers, PreLog, Funcs
    <3>8. Ready(d, s, "sockets", n, "aodv")
      <4>1. /\ "sockets" \in PreNfq => ~Opened(s, "nfq")
            /\ "sockets" \in PreLlf => ~Opened(s, "llf")
            /\ "sockets" \notin PreNfq => WatchedFor(d, "nfq") \/ "aodv" = "nfq"
            /\ "sockets" \notin PreNfq \cup {"sockets"} =>
                  \A k \in 1 .. Len(s.dev) : s.dev[k].enabled => s.dev[k].sock # 0
        BY <2>4, <3>5, <3>7
      <4>. QED
        BY <2>6, <3>2, <3>3, <3>4, <3>5, <3>6, <3>7, <4>1 DEF Ready
    <3>9. d' = attach_callback_func(s, n, "aodv")
      BY <2>7, <2>16
    <3>. QED
      BY <3>8, <3>9, NowWatched
  <2>. QED
    BY <2>1, <2>10, <2>15, <2>16
<1>. QED
  BY <1>1, <1>2

Fed(p, n, r) == [p EXCEPT !.rth_fd = n, !.ret = r]

LEMMA FedParts ==
    ASSUME NEW p \in Process, NEW n \in Fds, NEW r \in Fds, NEW q, q = Fed(p, n, r)
    PROVE  /\ q \in Process /\ SameNet(p, q) /\ q.ret = r /\ q.rth_fd = n
           /\ q.fd = p.fd /\ q.cb = p.cb /\ q.opt = p.opt /\ q.dev = p.dev /\ q.at = p.at
           /\ q.log_file_fd = p.log_file_fd /\ q.rtnl_sock = p.rtnl_sock
           /\ q.nfq_handle = p.nfq_handle /\ q.nfq_queue = p.nfq_queue
<1>1. /\ q \in Process /\ q.tq = p.tq /\ q.ret = r /\ q.rth_fd = n
      /\ q.fd = p.fd /\ q.cb = p.cb /\ q.opt = p.opt /\ q.dev = p.dev /\ q.at = p.at
      /\ q.log_file_fd = p.log_file_fd /\ q.rtnl_sock = p.rtnl_sock
      /\ q.nfq_handle = p.nfq_handle /\ q.nfq_queue = p.nfq_queue
      /\ q.rt = p.rt /\ q.fib = p.fib /\ q.pq = p.pq /\ q.kq = p.kq /\ q.hand = p.hand
      /\ q.todo = p.todo /\ q.abandoned = p.abandoned /\ q.misused = p.misused
      /\ q.cleaned = p.cleaned /\ q.due = p.due /\ q.atexit = p.atexit
  BY DEF Process, Fed
<1>. QED
  BY <1>1 DEF SameNet

LEMMA LlfInitOK == ASSUME Alive(d), llf_init PROVE Alive(d')
<1>1. d.at = "llf"
  BY DEF llf_init, Step
<1>2. Tidy(d) /\ Watched(d) /\ Staged(d, "llf") /\ d \in Process
  BY <1>1 DEF Alive, Files, Down
<1>3. /\ ~Opened(d, "llf") /\ ~Opened(d, "if") /\ WatchedFor(d, "nfq")
      /\ d.fd[0] # Free
      /\ \A i \in 1 .. Len(d.dev) : d.dev[i].enabled => d.dev[i].sock # 0
  BY <1>2 DEF Staged, PreLlf, PreNfq, PreNl, PreIf, PreTimers, PreLog
<1>4. CASE d' = Goto(d, "timers_set")
  <2>1. Staged(d, "timers_set")
    BY <1>2 DEF Staged, PreLlf, PreNfq, PreNl, PreIf, PreTimers, PreLog
  <2>. QED
    BY <1>1, <1>4, <2>1, GoesOn DEF PreLoop, PreLlf, PreNfq, PreNl, PreIf, PreTimers, PreLog
<1>5. CASE d' # Goto(d, "timers_set")
  <2>. DEFINE o == open(d, "llf")
  <2>1. PICK p \in llf_rtnl_open(d) :
           d' = IF p.ret = NoFd THEN alog(p, "LOG_ERR")
                ELSE attach_callback_func(Goto(p, "timers_set"), p.rth_fd, "llf")
    BY <1>5 DEF llf_init, Step
  <2>2. PICK n \in 0 .. MaxFd : Took(d, o, n, "llf")
    BY <1>2, <1>3, OpenFor DEF Singles
  <2>3. /\ Lowest(d, n) /\ o \in Process /\ Others(d, o) /\ Tidy(o) /\ NoNew(d, o, {"llf"})
        /\ o.fd = [d.fd EXCEPT ![n] = "llf"] /\ o.fd[n] = "llf" /\ o.ret = n /\ n \in Fds
        /\ NoFd \in Fds /\ n # NoFd
    BY SMTT(30), <2>2 DEF Took, Fds, NoFd
  <2>4. p = Fed(d, NoFd, NoFd) \/ p = Fed(o, n, NoFd) \/ p = Fed(o, n, n)
    <3>1. \/ p = [d EXCEPT !.rth_fd = NoFd, !.ret = NoFd] \/ p = [o EXCEPT !.rth_fd = o.ret, !.ret = NoFd]
          \/ p = [o EXCEPT !.rth_fd = o.ret]
      BY <2>1 DEF llf_rtnl_open
    <3>. HIDE DEF o
    <3>2. [o EXCEPT !.rth_fd = n] = [o EXCEPT !.rth_fd = n, !.ret = n]
      BY <2>3 DEF Process
    <3>. QED
      BY <2>3, <3>1, <3>2 DEF Fed
  <2>. HIDE DEF o
  <2>5. /\ p \in Process /\ SameNet(d, p) /\ p.cb = d.cb /\ p.dev = d.dev /\ p.at = d.at
        /\ p.rtnl_sock = d.rtnl_sock /\ Tidy(p)
    <3>1. CASE p = Fed(d, NoFd, NoFd)
      <4>1. /\ p \in Process /\ SameNet(d, p) /\ p.rth_fd = NoFd
            /\ p.fd = d.fd /\ p.cb = d.cb /\ p.dev = d.dev /\ p.at = d.at
            /\ p.log_file_fd = d.log_file_fd /\ p.rtnl_sock = d.rtnl_sock
            /\ p.nfq_handle = d.nfq_handle /\ p.nfq_queue = d.nfq_queue
        BY SMTT(30), <1>2, <2>3, <3>1, FedParts
      <4>2. Tidy(p)
        BY <1>2, <4>1, TidyWith
      <4>. QED
        BY <4>1, <4>2
    <3>2. CASE p = Fed(o, n, NoFd) \/ p = Fed(o, n, n)
      <4>1. /\ p \in Process /\ SameNet(o, p) /\ p.rth_fd = n
            /\ p.fd = o.fd /\ p.cb = o.cb /\ p.dev = o.dev /\ p.at = o.at
            /\ p.log_file_fd = o.log_file_fd /\ p.rtnl_sock = o.rtnl_sock
            /\ p.nfq_handle = o.nfq_handle /\ p.nfq_queue = o.nfq_queue
        BY SMTT(30), <2>3, <3>2, FedParts
      <4>2. Tidy(p)
        BY <2>3, <4>1, TidyWith
      <4>3. /\ SameNet(d, p) /\ p.cb = d.cb /\ p.dev = d.dev /\ p.at = d.at /\ p.rtnl_sock = d.rtnl_sock
        BY <2>3, <4>1 DEF SameNet, Others
      <4>. QED
        BY <4>1, <4>2, <4>3
    <3>. QED
      BY <2>4, <3>1, <3>2
  <2>6. CASE p.ret = NoFd
    <3>. DEFINE s == syslog(p)
    <3>1. d' = Goto(s, "exit")
      BY <2>1, <2>5, <2>6, AlogIs, TidyOwns
    <3>2. s \in Process /\ Others(p, s) /\ Tidy(s)
      BY <2>5, SyslogOK
    <3>. HIDE DEF s
    <3>3. SameNet(d, s)
      BY <2>5, <3>2 DEF SameNet, Others
    <3>. QED
      BY <1>1, <3>1, <3>2, <3>3, Onward DEF PreLoop, PreLlf, PreNfq, PreNl, PreIf, PreTimers, PreLog, Down
  <2>7. CASE p.ret # NoFd
    <3>. DEFINE g == Goto(p, "timers_set")
    <3>1. p.rth_fd = n /\ p.fd = o.fd
      BY SMTT(30), <1>2, <2>3, <2>4, <2>7, FedParts
    <3>2. d' = attach_callback_func(g, n, "llf") /\ "timers_set" \in Labels
      BY <2>1, <2>7, <3>1 DEF Labels, PreLoop
    <3>3. /\ g \in Process /\ g.at = "timers_set" /\ g.fd = p.fd /\ g.opt = p.opt
          /\ g.log_file_fd = p.log_file_fd /\ g.rtnl_sock = p.rtnl_sock
          /\ g.rth_fd = p.rth_fd /\ g.nfq_handle = p.nfq_handle /\ g.nfq_queue = p.nfq_queue
          /\ g.dev = p.dev /\ g.cb = p.cb /\ g.tq = p.tq /\ g.due = p.due
          /\ g.rt = p.rt /\ g.fib = p.fib /\ g.pq = p.pq /\ g.kq = p.kq /\ g.hand = p.hand
          /\ g.todo = p.todo /\ g.abandoned = p.abandoned /\ g.misused = p.misused
          /\ g.cleaned = p.cleaned /\ g.atexit = p.atexit
      BY SMTT(30), <2>5, <3>2, GotoParts
    <3>. HIDE DEF g
    <3>4. Tidy(g) /\ SameNet(d, g)
      BY <2>5, <3>3, SameFiles DEF SameNet
    <3>5. g.fd[n] = "llf" /\ g.cb = d.cb /\ g.rtnl_sock = d.rtnl_sock /\ d.fd[n] = Free
      BY <2>3, <2>5, <3>1, <3>3 DEF Lowest
    <3>6. \A m \in 0 .. MaxFd : d.fd[m] # Free => g.fd[m] = d.fd[m]
      <4>1. d.fd \in [0 .. MaxFd -> Tags]
        BY <1>2 DEF Process
      <4>. QED
        BY SMTT(30), <2>3, <3>1, <3>3, <3>5, <4>1
    <3>7. ~Opened(g, "if")
      <4>1. ~Opened(o, "if")
        BY <1>3, <2>3 DEF NoNew, Services
      <4>. QED
        BY <4>1, <3>1, <3>3 DEF Opened
    <3>8. \A i \in 1 .. Len(g.dev) : g.dev[i].sock # 0 =>
            (i \in 1 .. Len(d.dev) /\ g.dev[i].sock = d.dev[i].sock) \/ (g.dev[i].sock = n /\ "llf" = "aodv")
      BY <2>5, <3>3
    <3>9. /\ d.at \in PreLoop \ PreNl /\ "timers_set" \in (PreLoop \ PreNl) \cup {"age"} /\ "llf" \in Funcs
          /\ "timers_set" \notin PreNfq /\ "timers_set" \notin PreLlf
      BY <1>1 DEF PreLoop, PreLlf, PreNfq, PreNl, PreIf, PreTimers, PreLog, Funcs
    <3>10. Ready(d, g, "timers_set", n, "llf")
      <4>1. /\ "timers_set" \in PreNfq => ~Opened(g, "nfq")
            /\ "timers_set" \in PreLlf => ~Opened(g, "llf")
            /\ "timers_set" \notin PreNfq => WatchedFor(d, "nfq") \/ "llf" = "nfq"
            /\ "timers_set" \notin PreNfq \cup {"sockets"} =>
                  \A i \in 1 .. Len(g.dev) : g.dev[i].enabled => g.dev[i].sock # 0
        BY <1>3, <2>5, <3>3, <3>9
      <4>. QED
        BY <3>3, <3>4, <3>5, <3>6, <3>7, <3>8, <3>9, <4>1 DEF Ready
    <3>. QED
      BY <3>2, <3>10, NowWatched
  <2>. QED
    BY <2>6, <2>7
<1>. QED
  BY <1>4, <1>5

LEMMA TimersSetOK == ASSUME Alive(d), timers_set PROVE Alive(d')
<1>. DEFINE p == IF d.opt.worb THEN alog(d, "LOG_NOTICE") ELSE d
            T == (IF d.opt.worb THEN {"worb"} ELSE {})
                  \cup (IF ~ d.opt.optimized_hellos /\ ~ d.opt.llfeedback THEN {"hello"} ELSE {})
            q == [p EXCEPT !.tq = @ \cup T]
            r == IF d.opt.rt_log THEN log_rt_table_init(q) ELSE q
<1>1. d.at = "timers_set" /\ d' = Goto(r, "age")
  BY DEF timers_set, Step
<1>2. Tidy(d) /\ Watched(d) /\ Staged(d, "timers_set") /\ d \in Process
  BY <1>1 DEF Alive, Files, Down
<1>3. "timers_set" \notin {"options", "detach"}
  OBVIOUS
<1>4. /\ p \in Process /\ Tidy(p) /\ Others(d, p) /\ Staged(p, "timers_set")
  <2>1. CASE d.opt.worb
    <3>1. p = syslog(d)
      BY <2>1, <1>2, AlogIs, TidyOwns
    <3>. HIDE DEF p
    <3>. QED
      BY <1>2, <1>3, <3>1, SyslogOK
  <2>2. CASE ~ d.opt.worb
    BY <2>2, <1>2 DEF Others
  <2>. QED
    BY <2>1, <2>2
<1>5. SameNet(d, p) /\ p.cb = d.cb /\ p.dev = d.dev /\ p.tq = d.tq
  BY <1>4 DEF Others, SameNet
<1>. HIDE DEF p
<1>6. Watched(p)
  BY <1>2, <1>5 DEF Watched
<1>7. ASSUME NEW a \in Process, NEW S \in SUBSET Timers, a.tq \subseteq S, NEW b, b = [a EXCEPT !.tq = S],
             SameNet(d, a), Tidy(a), Watched(a), Staged(a, "timers_set")
      PROVE  b \in Process /\ SameNet(d, b) /\ Tidy(b) /\ Watched(b) /\ Staged(b, "timers_set") /\ b.tq = S
  <2>1. /\ b \in Process /\ b.tq = S /\ b.fd = a.fd /\ b.dev = a.dev /\ b.cb = a.cb /\ b.nfq_queue = a.nfq_queue
        /\ b.nfq_handle = a.nfq_handle /\ b.rth_fd = a.rth_fd /\ b.log_file_fd = a.log_file_fd
        /\ b.rtnl_sock = a.rtnl_sock /\ b.opt = a.opt /\ SameNet(a, b)
    BY SMTT(30), <1>7, TqParts
  <2>2. Tidy(b) /\ Watched(b) /\ Staged(b, "timers_set")
    BY <1>7, <2>1, SameFiles
  <2>. QED
    BY <1>7, <2>1, <2>2 DEF SameNet
<1>8. /\ q \in Process /\ SameNet(d, q) /\ Tidy(q) /\ Watched(q) /\ Staged(q, "timers_set")
  <2>1. p.tq \cup T \in SUBSET Timers
    BY <1>4 DEF Process, Timers
  <2>. HIDE DEF T
  <2>2. q = [p EXCEPT !.tq = p.tq \cup T]
    OBVIOUS
  <2>. HIDE DEF q
  <2>. QED
    BY SMTT(30), <1>4, <1>5, <1>6, <1>7, <2>1, <2>2
<1>. HIDE DEF q
<1>9. /\ r \in Process /\ SameNet(d, r) /\ Tidy(r) /\ Watched(r) /\ Staged(r, "timers_set")
  <2>1. q.tq \cup {"rt_log"} \in SUBSET Timers
    BY <1>8 DEF Process, Timers
  <2>2. d.opt.rt_log => r = [q EXCEPT !.tq = q.tq \cup {"rt_log"}]
    BY DEF log_rt_table_init
  <2>3. ~ d.opt.rt_log => r = q
    OBVIOUS
  <2>. HIDE DEF r
  <2>. QED
    BY <1>7, <1>8, <2>1, <2>2, <2>3
<1>. HIDE DEF r
<1>10. Staged(r, "age")
  BY <1>9 DEF Staged, PreLlf, PreNfq, PreNl, PreIf, PreTimers, PreLog
<1>. QED
  BY <1>1, <1>9, <1>10, Onward DEF PreLoop, PreLlf, PreNfq, PreNl, PreIf, PreTimers, PreLog, Down
=============================================================================
