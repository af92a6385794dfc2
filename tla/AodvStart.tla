------------------------------ MODULE AodvStart -----------------------------
(***************************************************************************)
(* The life of one daemon process (src/core/main.c): the options, the      *)
(* services that main() starts one after another, each of which may fail   *)
(* and exit, the main loop over the timers and the watched descriptors,    *)
(* the signals, which are blocked except in pselect(), and cleanup(),      *)
(* which exit() calls whatever has been started.  Descriptors are numbers, *)
(* the lowest free one first.  The protocol behind the callbacks           *)
(* (AodvNode) is reduced to what outlives a callback: the routes in both   *)
(* tables, and the packets the daemon holds.                               *)
(***************************************************************************)
EXTENDS RateLimit, FiniteSetsExt

CONSTANTS Settings,            \* command lines and builds to start with, each with the
                               \* destinations and packets that the daemon will meet
          CALLBACK_FUNCS,      \* the length of callbacks[]
          MAX_NR_INTERFACES,
          MaxFd,               \* bound: no descriptor beyond this one is needed
          MaxLeaks             \* bound: sockets that the wireless tools leave open

(* Names of interfaces; "wireless" stands for the one that is found when   *)
(* none is given.                                                          *)
Names == STRING \cup {"wireless"}

(* What the command line, the build and the surroundings of a start say.   *)
Options == [valid : BOOLEAN, stdin : BOOLEAN, daemonize : BOOLEAN, log_to_file : BOOLEAN,
            rt_log : BOOLEAN, llfeedback : BOOLEAN, LLFEEDBACK : BOOLEAN, worb : BOOLEAN,
            optimized_hellos : BOOLEAN, ratelimit : BOOLEAN, killed : BOOLEAN,
            names : Seq(Names),
            dests : {o.dests : o \in Settings}, packets : {o.packets : o \in Settings}]

(* The standard descriptors, the two logs, syslog, the look-ups, netlink,  *)
(* the queue, the feedback, each interface and each leak have room.        *)
ASSUME StartAssumption ==
    /\ Settings \subseteq Options
    /\ CALLBACK_FUNCS \in Nat /\ MAX_NR_INTERFACES \in Nat \ {0} /\ MaxLeaks \in Nat
    /\ MaxFd \in Nat /\ MaxFd >= 10 + MAX_NR_INTERFACES + MaxLeaks

VARIABLE d   \* the process

vars == <<d, rateVars>>

NoFd == -1
Free == "free"
Services == {"log", "rt_log", "syslog", "if", "nl", "nfq", "aodv", "llf", "iw"}

-----------------------------------------------------------------------------
(* Descriptors (the kernel's table of open files). *)

open(p, what) ==
    LET n == Min({m \in 0 .. MaxFd : p.fd[m] = Free})
    IN  [p EXCEPT !.fd[n] = what, !.ret = n]

close(p, n) == IF n \in 0 .. MaxFd THEN [p EXCEPT !.fd[n] = Free] ELSE p

Goto(p, label) == [p EXCEPT !.at = label]

(* The bug of counting one callback too many. *)
attach_callback_func_beyond(p, n, func) ==
    IF Len(p.cb) > CALLBACK_FUNCS
    THEN Goto(p, "exit")
    ELSE [p EXCEPT !.cb = Append(@, [fd |-> n, func |-> func])]

(* attach_callback_func(): the array is full, or one more is watched. *)
attach_callback_func(p, n, func) ==
    IF Len(p.cb) >= CALLBACK_FUNCS
    THEN Goto(p, "exit")
    ELSE [p EXCEPT !.cb = Append(@, [fd |-> n, func |-> func])]

(* syslog(): openlog() has not asked for the connection at once, so the    *)
(* first message opens it.                                                 *)
syslog(p) == IF \E n \in 0 .. MaxFd : p.fd[n] = "syslog" THEN p ELSE open(p, "syslog")

(* write_to_log_file(): a descriptor 0 is taken for none. *)
write_to_log_file(p) ==
    IF p.log_file_fd \in {0, NoFd} THEN p
    ELSE [p EXCEPT !.misused = @ \/ p.fd[p.log_file_fd] \notin {"log", Free}]

(* alog(): to the log file; what is a notice or worse goes to syslog, too, *)
(* and an error exits.                                                     *)
alog(p, level) ==
    LET q == IF p.opt.log_to_file THEN write_to_log_file(p) ELSE p
    IN  CASE level = "LOG_ERR" -> Goto(syslog(q), "exit")
          [] level \in {"LOG_WARNING", "LOG_NOTICE"} -> syslog(q)
          [] OTHER -> q

-----------------------------------------------------------------------------
(* Routes and packets, as far as they outlive a callback. *)

(* nl_send(): the kernel acts on what is sent on an open netlink socket. *)
nl_send(p, fib) == IF p.rtnl_sock # NoFd /\ p.fd[p.rtnl_sock] = "nl"
                   THEN [p EXCEPT !.fib = fib] ELSE p

rt_table_insert(p, a) == nl_send([p EXCEPT !.rt = @ \cup {a}], p.fib \cup {a})

rt_table_delete(p, S) == nl_send([p EXCEPT !.rt = @ \ S], p.fib \ S)

(* The library's calls on a queue handle, which must still be open. *)
Use(p) == [p EXCEPT !.misused = @ \/ p.nfq_handle = NoFd \/ p.fd[p.nfq_handle] # "nfq"]

(* nfqueue_set_packet_verdict(): without a queue nothing is decided. *)
nfqueue_set_packet_verdict(p, S) ==
    LET q == [p EXCEPT !.hand = @ \ S]
    IN  IF S # {} /\ p.nfq_queue THEN [Use(q) EXCEPT !.kq = @ \ S] ELSE q

(* nfq_destroy_queue(): the kernel drops what the queue still holds; what  *)
(* the daemon had read and not decided is abandoned.                       *)
nfq_destroy_queue(p) ==
    [Use(p) EXCEPT !.kq = {},
                   !.abandoned = @ \cup (p.kq \cap (p.pq \cup p.hand \cup p.todo))]

nfq_close(p) == close(Use(p), p.nfq_handle)

-----------------------------------------------------------------------------
(* cleanup() *)

rt_table_destroy(p) == rt_table_delete(p, p.rt)

(* Devices whose socket is not open yet still have the 0 of memset(). *)
aodv_socket_cleanup(p) ==
    LET closed == {p.dev[i].sock : i \in {i \in DOMAIN p.dev : p.dev[i].enabled}}
    IN  [p EXCEPT !.fd = [n \in 0 .. MaxFd |-> IF n \in closed THEN Free ELSE @[n]]]

llf_cleanup(p) == close(p, p.rth_fd)

log_cleanup(p) == IF p.opt.log_to_file /\ p.log_file_fd # 0 THEN close(p, p.log_file_fd) ELSE p

packet_queue_destroy(p) == [nfqueue_set_packet_verdict(p, p.pq) EXCEPT !.pq = {}]

nfqueue_cleanup(p) ==
    LET q == IF p.nfq_queue THEN [nfq_destroy_queue(p) EXCEPT !.nfq_queue = FALSE] ELSE p
        r == IF q.nfq_handle # NoFd THEN [nfq_close(q) EXCEPT !.nfq_handle = NoFd] ELSE q
    IN  [r EXCEPT !.nfq_socket = NoFd]

nl_cleanup(p) == IF p.rtnl_sock > 0 THEN close(p, p.rtnl_sock) ELSE p

(* The bug of giving up the queue before the packets. *)
cleanup_queue_first ==
    <<"rt_table", "aodv_socket", "llf", "log", "packet_input", "packet_queue", "nl">>

(* The calls of cleanup(), one after another. *)
cleanup == <<"rt_table", "aodv_socket", "llf", "log", "packet_queue", "packet_input", "nl">>

CleanedUp(p, service) ==
    CASE service = "rt_table" -> rt_table_destroy(p)
      [] service = "aodv_socket" -> aodv_socket_cleanup(p)
      [] service = "llf" -> IF p.opt.LLFEEDBACK /\ p.opt.llfeedback THEN llf_cleanup(p) ELSE p
      [] service = "log" -> log_cleanup(p)
      [] service = "packet_queue" -> packet_queue_destroy(p)
      [] service = "packet_input" -> nfqueue_cleanup(p)
      [] service = "nl" -> nl_cleanup(p)

(* exit(): cleanup() is called once atexit() has registered it. *)
exit ==
    /\ d.at = "exit" /\ UNCHANGED rateVars
    /\ IF d.atexit /\ d.cleaned < Len(cleanup)
       THEN d' = [CleanedUp(d, cleanup[d.cleaned + 1]) EXCEPT !.cleaned = @ + 1]
       ELSE d' = Goto(d, "ended")

-----------------------------------------------------------------------------
(* main() up to the loop.  Fails stands for the exits on errors. *)

Init ==
    /\ RateInit
    /\ \E o \in Settings :
          d = [at |-> "options", opt |-> o, atexit |-> FALSE, sig |-> FALSE, ret |-> NoFd,
               fd |-> [n \in 0 .. MaxFd |-> CASE n = 0 /\ o.stdin -> "stdin"
                                              [] n = 1 -> "stdout"
                                              [] n = 2 -> "stderr"
                                              [] OTHER -> Free],
               log_file_fd |-> NoFd, log_rt_fd |-> NoFd, rtnl_sock |-> 0, rth_fd |-> 0,
               nfq_handle |-> NoFd, nfq_queue |-> FALSE, nfq_socket |-> NoFd,
               dev |-> <<>>, cb |-> <<>>, tq |-> {}, due |-> {}, rfds |-> {}, worb |-> o.worb,
               rt |-> {}, fib |-> {}, pq |-> {}, kq |-> {}, hand |-> {}, todo |-> {},
               abandoned |-> {}, misused |-> FALSE, back |-> "age", cleaned |-> 0, iw_cached |-> FALSE]

Step(label, q) == d.at = label /\ d' = q /\ UNCHANGED rateVars

Fails(label) == Step(label, Goto(d, "exit"))

(* The options; usage(), -V, an unknown option, "-n 1" and a user other    *)
(* than root all end the program here.                                     *)
usage == ~ d.opt.valid /\ Fails("options")

options == d.opt.valid /\ Step("options", Goto(d, "detach"))

(* fork(): the child goes on without standard output and standard error,   *)
(* and only then registers cleanup() (rt_table_init() is empty here).      *)
detach ==
    LET p == IF d.opt.daemonize THEN close(close(d, 1), 2) ELSE d
    IN  Step("detach", Goto([p EXCEPT !.atexit = TRUE], "log"))

log_init ==
    LET p == IF d.opt.log_to_file
             THEN LET q == open(d, "log") IN [q EXCEPT !.log_file_fd = q.ret] ELSE d
        q == IF d.opt.rt_log
             THEN LET r == open(p, "rt_log") IN [r EXCEPT !.log_rt_fd = r.ret] ELSE p
    IN  \/ Step("log", Goto(q, "queue"))
        \/ d.opt.log_to_file /\ Fails("log")
        \/ d.opt.rt_log /\ Step("log", Goto(p, "exit"))

packet_queue_init == Step("queue", Goto([d EXCEPT !.tq = @ \cup {"gc"}], "host"))

(* host_init() up to the loop: without -i the first wireless interface is  *)
(* looked for, and the choice is logged.                                   *)
search ==
    \/ Fails("host") /\ d.opt.names = <<>>
    \/ LET p == IF d.opt.names = <<>>
                THEN [alog(d, "LOG_NOTICE") EXCEPT !.opt.names = <<"wireless">>] ELSE d
       IN  Step("host", Goto(open(p, "if"), "interface"))

(* struct dev_info, as memset() leaves it. *)
dev_info == [enabled |-> FALSE, sock |-> 0]

(* ifindex2devindex(): the first device of that index. *)
ifindex2devindex(p, i) == Min({j \in 1 .. i : p.opt.names[j] = p.opt.names[i]})

(* set_kernel_options(): one write after another, each of which may fail.  *)
(* (The descriptor of a write that fails stays open; the process ends.)    *)
set_kernel_options == Fails("options_set") \/ Step("options_set", Goto(d, "netlink"))

(* get_if_info(): LOG_ERR exits, so the NULL it returns is never seen. *)
get_if_info_fails == Step("interface", alog(d, "LOG_ERR"))

(* The loop of host_init(): one more interface, of which the index, the    *)
(* addresses and the mask are looked up.  The same name given twice leaves *)
(* the second device unused.                                               *)
host_init ==
    LET i == Len(d.dev) + 1
        p == [d EXCEPT !.dev = Append(@, dev_info)]
        q == [p EXCEPT !.dev[ifindex2devindex(d, i)].enabled = TRUE]
        last == i = Len(d.opt.names) \/ i >= MAX_NR_INTERFACES
        sock == CHOOSE n \in 0 .. MaxFd : d.fd[n] = "if"
    IN  Step("interface", IF last THEN Goto(close(q, sock), "options_set") ELSE q)

(* nl_init(): socket(), then bind() and getsockname(), then the callback. *)
nl_init ==
    LET q == open(d, "nl")
        p == [q EXCEPT !.rtnl_sock = q.ret]
    IN  \/ Step("netlink", [d EXCEPT !.rtnl_sock = NoFd, !.at = "exit"])
        \/ Step("netlink", Goto(p, "exit"))
        \/ Step("netlink", attach_callback_func(Goto(p, "nfqueue"), p.rtnl_sock, "nl"))

(* The bug of an error path that leaves the handles set. *)
nfqueue_init_dangling ==
    LET q == open(d, "nfq")
        p == [q EXCEPT !.nfq_handle = q.ret, !.nfq_queue = TRUE, !.nfq_socket = q.ret]
    IN  \/ Fails("nfqueue")
        \/ Step("nfqueue", Goto(nfq_close(nfq_destroy_queue(p)), "exit"))
        \/ Step("nfqueue", attach_callback_func(Goto(p, "sockets"), p.nfq_socket, "nfq"))

(* nfqueue_init(), whose errors undo what has been done and make main()    *)
(* exit: no handle; no binding or no queue; no mode; or all is well.       *)
nfqueue_init ==
    LET o == open(d, "nfq")
        q == [o EXCEPT !.nfq_handle = o.ret]
        p == [q EXCEPT !.nfq_queue = TRUE]
        Undone(r) == [r EXCEPT !.nfq_handle = NoFd, !.nfq_queue = FALSE, !.at = "exit"]
    IN  \/ Fails("nfqueue")
        \/ Step("nfqueue", Undone(nfq_close(q)))
        \/ Step("nfqueue", Undone(nfq_close(nfq_destroy_queue(p))))
        \/ Step("nfqueue", attach_callback_func(
                [p EXCEPT !.nfq_socket = q.ret, !.at = "sockets"], q.ret, "nfq"))

(* The bug of one callback for all the interfaces. *)
aodv_socket_init_one(i) ==
    LET q == open(d, "aodv")
        p == alog([q EXCEPT !.dev[i].sock = q.ret], "LOG_NOTICE")
    IN  Step("sockets", IF i = 1 THEN attach_callback_func(p, q.ret, "aodv") ELSE p)

(* The loop of aodv_socket_init(), for device i: no socket; an option or   *)
(* bind() fails; or the buffer is set, which is logged, and the socket is  *)
(* watched.                                                                *)
aodv_socket_init(i) ==
    LET q == open(d, "aodv")
        p == [q EXCEPT !.dev[i].sock = q.ret]
    IN  \/ Step("sockets", [d EXCEPT !.dev[i].sock = NoFd, !.at = "exit"])
        \/ Step("sockets", Goto(p, "exit"))
        \/ Step("sockets", attach_callback_func(alog(p, "LOG_NOTICE"), q.ret, "aodv"))

Unopened == {i \in DOMAIN d.dev : d.dev[i].enabled /\ d.dev[i].sock = 0}

(* The devices of this_host in their order, then the rest of main(). *)
sockets ==
    IF Unopened = {} THEN Step("sockets", Goto(d, "llf")) ELSE aodv_socket_init(Min(Unopened))

(* llf_rtnl_open(): no socket, a socket that cannot be bound, or one that  *)
(* can be read.                                                            *)
llf_rtnl_open(p) ==
    LET q == open(p, "llf")
    IN  {[p EXCEPT !.rth_fd = NoFd, !.ret = NoFd],
         [q EXCEPT !.rth_fd = q.ret, !.ret = NoFd],
         [q EXCEPT !.rth_fd = q.ret]}

(* llf_init(), in a build with LLFEEDBACK: DEBUG(LOG_ERR) exits as well.   *)
llf_init ==
    IF d.opt.LLFEEDBACK /\ d.opt.llfeedback
    THEN \E p \in llf_rtnl_open(d) :
            Step("llf", IF p.ret = NoFd
                        THEN alog(p, "LOG_ERR")
                        ELSE attach_callback_func(Goto(p, "timers_set"), p.rth_fd, "llf"))
    ELSE Step("llf", Goto(d, "timers_set"))

log_rt_table_init(p) == [p EXCEPT !.tq = @ \cup {"rt_log"}]

(* The wait on reboot, the first HELLO and the log of the routing table.   *)
timers_set ==
    LET p == IF d.opt.worb THEN alog(d, "LOG_NOTICE") ELSE d
        timers == (IF d.opt.worb THEN {"worb"} ELSE {})
                  \cup (IF ~ d.opt.optimized_hellos /\ ~ d.opt.llfeedback THEN {"hello"} ELSE {})
        q == [p EXCEPT !.tq = @ \cup timers]
    IN  Step("timers_set", Goto(IF d.opt.rt_log THEN log_rt_table_init(q) ELSE q, "age"))

-----------------------------------------------------------------------------
(* The main loop. *)

(* timer_age_queue(): some timers are due. *)
timer_age_queue ==
    \E S \in SUBSET d.tq : Step("age", [d EXCEPT !.due = S, !.at = "timers"])

(* It returns what is left until the next one.  With no timer at all it    *)
(* returns NULL, and main() reads through that pointer.                    *)
Aged ==
    /\ d.due = {}
    /\ Step("timers", Goto(d, IF d.tq = {} THEN "fault" ELSE "select"))

Expired(t) == [d EXCEPT !.due = @ \ {t}, !.tq = @ \ {t}]

(* Packets S leave the buffer one after another: each is detached, then    *)
(* decided.                                                                *)
Releasing(p, S) == [p EXCEPT !.pq = @ \ S, !.todo = S, !.back = p.at,
                             !.at = IF S = {} THEN p.at ELSE "release"]

Detached == \E k \in d.todo :
    d.hand = {} /\ Step("release", [d EXCEPT !.todo = @ \ {k}, !.hand = {k}])

Decided ==
    /\ d.hand # {}
    /\ LET p == nfqueue_set_packet_verdict(d, d.hand)
       IN  Step("release", IF d.todo = {} THEN [p EXCEPT !.at = d.back, !.back = "age"] ELSE p)

(* The bug of a garbage collection that runs once. *)
packet_queue_timeout_once ==
    /\ "gc" \in d.due
    /\ \E S \in SUBSET d.pq : Step("timers", Releasing(Expired("gc"), S))

(* packet_queue_timeout(): what is too old is dropped; and once more. *)
packet_queue_timeout ==
    /\ "gc" \in d.due
    /\ \E S \in SUBSET d.pq :
          Step("timers", [Releasing(Expired("gc"), S) EXCEPT !.tq = @ \cup {"gc"}])

wait_on_reboot_timeout ==
    "worb" \in d.due /\ Step("timers", [Expired("worb") EXCEPT !.worb = FALSE])

(* hello_send(): again, unless nothing was forwarded and -o stops it. *)
hello_send ==
    /\ "hello" \in d.due
    /\ \/ Step("timers", [Expired("hello") EXCEPT !.tq = @ \cup {"hello"}])
       \/ d.opt.optimized_hellos /\ Step("timers", Expired("hello"))

(* print_rt_table() writes the table to its log and is set again. *)
print_rt_table ==
    "rt_log" \in d.due /\ Step("timers", [Expired("rt_log") EXCEPT !.tq = @ \cup {"rt_log"}])

(* pselect(): some descriptors can be read, or the time is over. *)
pselect ==
    \E S \in SUBSET DOMAIN d.cb :
        Step("select", [d EXCEPT !.rfds = S, !.at = IF S = {} THEN "age" ELSE "callbacks"])

Called == [d EXCEPT !.rfds = @ \ {Min(d.rfds)},
                    !.at = IF Cardinality(d.rfds) = 1 THEN "age" ELSE "callbacks"]

Calls(func) == d.at = "callbacks" /\ d.cb[Min(d.rfds)].func = func

(* nl_rt_callback() reads and prints. *)
nl_rt_callback == Calls("nl") /\ Step("callbacks", Called)

(* nfqueue_fd_callback(): a packet is decided at once, or held. *)
nfqueue_fd_callback ==
    /\ Calls("nfq")
    /\ \/ Step("callbacks", Called)
       \/ \E k \in d.kq \ d.pq :
             \/ Step("callbacks", nfqueue_set_packet_verdict(Called, {k}))
             \/ Step("callbacks", [Called EXCEPT !.pq = @ \cup {k}])

(* devfromsock(): the device that has this socket. *)
devfromsock(n) == {i \in DOMAIN d.dev : d.dev[i].sock = n}

(* aodv_socket_read(): an unknown socket is an error; a message may add a  *)
(* route and release packets, delete routes, or do nothing, and with -o    *)
(* may start the HELLOs.                                                   *)
aodv_socket_read ==
    /\ Calls("aodv")
    /\ IF devfromsock(d.cb[Min(d.rfds)].fd) = {}
       THEN Step("callbacks", alog(d, "LOG_ERR"))
       ELSE \/ Step("callbacks", Called)
            \/ \E a \in d.opt.dests, S \in SUBSET d.pq :
                  Step("callbacks", Releasing(rt_table_insert(Called, a), S))
            \/ \E a \in d.rt : Step("callbacks", rt_table_delete(Called, {a}))
            \/ /\ d.opt.optimized_hellos /\ ~ d.opt.llfeedback
               /\ Step("callbacks", [Called EXCEPT !.tq = @ \cup {"hello"}])

(* iw_get_interface_data(): the interface is in the cache, or is looked up *)
(* on a socket that an error leaves open (at most MaxLeaks of them here).  *)
iw_get_interface_data(p) ==
    IF p.iw_cached THEN {p}
    ELSE {[p EXCEPT !.iw_cached = TRUE], p}
         \cup (IF Cardinality({n \in 0 .. MaxFd : p.fd[n] = "iw"}) < MaxLeaks
               THEN {open(p, "iw")} ELSE {})

(* llf_print_event(): the neighbour that mac_to_ip() finds in the ARP      *)
(* cache, if there is a route to it, is lost.                              *)
llf_print_event(p, S) == rt_table_delete(p, S)

(* llf_callback() reads until nothing is left: frames that could not be    *)
(* sent break the links to their receivers, once the interface is known.   *)
llf_callback ==
    /\ Calls("llf")
    /\ \E p \in iw_get_interface_data(Called), S \in SUBSET d.rt :
          Step("callbacks", IF p.iw_cached THEN llf_print_event(p, S) ELSE p)

Looping == d.at \in {"age", "timers", "release", "select", "callbacks"}

(* Messages go out from what the callbacks and timers do, and with -R      *)
(* aodv_socket_send() skips the limit altogether.                          *)
Send == /\ d.at \in {"timers", "callbacks"} /\ d.opt.ratelimit
        /\ \E k \in Limited : aodv_socket_send(k)
        /\ UNCHANGED d

(* Time passes while the daemon waits. *)
Clock == d.at = "select" /\ d.opt.ratelimit /\ Tick /\ UNCHANGED d

(* A packet reaches the queue in the kernel. *)
Arrive ==
    /\ d.nfq_queue /\ UNCHANGED rateVars
    /\ \E k \in d.opt.packets \ d.kq : d' = [d EXCEPT !.kq = @ \cup {k}]

(* Someone sends SIGTERM, SIGHUP or SIGINT, at any time. *)
Kill ==
    /\ ~ d.sig /\ d.at # "ended" /\ d.opt.killed
    /\ d' = [d EXCEPT !.sig = TRUE] /\ UNCHANGED rateVars

(* The bugs of signals that are not blocked, and of a pselect() that keeps *)
(* them blocked.                                                           *)
signal_handler_any == d.sig /\ d.at \notin {"exit", "ended"}
                      /\ d' = Goto(d, "exit") /\ UNCHANGED rateVars
signal_handler_never == FALSE /\ UNCHANGED vars

(* signal_handler(): the signals are blocked from the start, and only      *)
(* pselect() lets them in, when it finds nothing to read.                  *)
signal_handler == d.sig /\ Step("select", Goto(d, "exit"))

Daemon ==
    \/ usage \/ options \/ detach \/ log_init \/ packet_queue_init \/ search \/ host_init
    \/ get_if_info_fails \/ set_kernel_options \/ nl_init \/ nfqueue_init \/ sockets \/ llf_init
    \/ timers_set \/ timer_age_queue \/ Aged \/ Detached \/ Decided \/ packet_queue_timeout
    \/ wait_on_reboot_timeout \/ hello_send \/ print_rt_table \/ pselect \/ nl_rt_callback
    \/ nfqueue_fd_callback \/ aodv_socket_read \/ llf_callback \/ exit

Ended == d.at = "ended" /\ UNCHANGED vars

Next == Daemon \/ signal_handler \/ Send \/ Clock \/ Arrive \/ Kill \/ Ended

(* The process keeps running; and the descriptors are not readable at      *)
(* every single pselect(), so that a signal that waits is taken.           *)
Spec == Init /\ [][Next]_vars /\ WF_vars(Daemon) /\ SF_vars(signal_handler)

-----------------------------------------------------------------------------
(* Descriptors are in range, attach_callback_func() never writes beyond    *)
(* callbacks[], and aodv_socket_send() not beyond rreq_ratel and rerr_ratel. *)
TypeOK ==
    /\ RateTypeOK
    /\ d.fd \in [0 .. MaxFd -> Services \cup {"stdin", "stdout", "stderr", Free}]
    /\ {d.log_file_fd, d.log_rt_fd, d.rtnl_sock, d.rth_fd, d.nfq_handle, d.nfq_socket}
          \subseteq 0 .. MaxFd \cup {NoFd}
    /\ d.cb \in Seq([fd : 0 .. MaxFd, func : {"nl", "nfq", "aodv", "llf"}])
    /\ Len(d.cb) <= CALLBACK_FUNCS
    /\ d.tq \subseteq {"gc", "worb", "hello", "rt_log"} /\ d.due \subseteq d.tq
    /\ d.rt \cup d.fib \subseteq d.opt.dests
    /\ d.pq \cup d.kq \cup d.hand \cup d.todo \subseteq d.opt.packets

(* In the main loop every callback reads a descriptor that is open and     *)
(* that its own service opened, and nl_init(), nfqueue_init() and          *)
(* aodv_socket_init() have left one for the kernel, one for the packets    *)
(* and one for each interface: the numbers that detach(), the look-ups of  *)
(* host_init() and syslog() take and give back get into no one's way.      *)
EachReadsItsOwn ==
    Looping =>
        /\ \A i \in DOMAIN d.cb : d.fd[d.cb[i].fd] = d.cb[i].func
        /\ \A i, j \in DOMAIN d.cb : d.cb[i].fd = d.cb[j].fd => i = j
        /\ {"nl", "nfq"} \subseteq {d.cb[i].func : i \in DOMAIN d.cb}
        /\ \A i \in DOMAIN d.dev : d.dev[i].enabled =>
               \E j \in DOMAIN d.cb : d.cb[j] = [fd |-> d.dev[i].sock, func |-> "aodv"]

(* Whatever the options, timer_age_queue() never finds the queue empty, so *)
(* the pointer that main() takes the time to wait from is never NULL.      *)
TimersNeverRunOut == d.at # "fault"

(* However the process comes to exit(), in the middle of the start, by an  *)
(* error in a callback or by a signal, cleanup() leaves no route of the    *)
(* daemon in the kernel, and no packet that it had read is undecided when  *)
(* the queue is destroyed.                                                 *)
EndsClean == d.at = "ended" => d.fib = {} /\ d.abandoned = {}

(* No call on the queue handle of nfqueue.c comes after it was closed: the *)
(* error paths of nfqueue_init() and cleanup() do not both close it.  And  *)
(* no line of alog() goes to a descriptor that someone else has got.       *)
HandlesLive == ~ d.misused

(* A signal, at whatever point of the start or of the loop it is sent,     *)
(* ends the process by way of cleanup().                                   *)
SignalEnds == d.sig ~> d.at = "ended"
=============================================================================
