--------------------------- MODULE AodvLifeProofs ---------------------------
(***************************************************************************)
(* The rest of the life of the daemon, from the main loop to exit()        *)
(* (AodvStart), on the invariant Alive of AodvStartProofs: every step      *)
(* keeps it, and so what is watched is what was opened for it, the timers  *)
(* never run out, no handle is used after it is closed, and nothing of the *)
(* daemon outlives it.  And what the rate limit drops is over the limit.   *)
(***************************************************************************)
EXTENDS AodvStartProofs, FiniteSetTheorems, WellFoundedInduction

(* How long the provers may take for a step. *)
USE ZenonT(20), SMTT(30)

-----------------------------------------------------------------------------
(* The main loop: the descriptors stay, and routes and packets come and go *)

SameLife(p, q) ==
    /\ q.fd = p.fd /\ q.dev = p.dev /\ q.cb = p.cb /\ q.opt = p.opt /\ q.atexit = p.atexit
    /\ q.log_file_fd = p.log_file_fd /\ q.rtnl_sock = p.rtnl_sock /\ q.rth_fd = p.rth_fd
    /\ q.nfq_handle = p.nfq_handle /\ q.nfq_queue = p.nfq_queue
    /\ q.misused = p.misused /\ q.abandoned = p.abandoned /\ q.cleaned = p.cleaned

Turns(p, q) ==
    /\ SameLife(p, q) /\ q \in Process /\ q.at \in Loop
    /\ q.due \subseteq q.tq /\ "gc" \in q.tq
    /\ q.fib \subseteq q.rt /\ q.rt \subseteq p.opt.dests
    /\ q.pq \cup q.kq \cup q.hand \cup q.todo \subseteq p.opt.packets
    /\ q.at # "release" => q.hand = {} /\ q.todo = {}

LEMMA StagedInLoop ==
    ASSUME NEW p, NEW l \in Loop, NEW m \in Loop, Staged(p, l)
    PROVE  Staged(p, m)
<1>1. /\ l \notin {"options", "detach"} \cup PreLlf \cup {"interface"}
      /\ m \notin {"options", "detach"} \cup PreLlf \cup {"interface"}
  BY DEF Loop, PreLlf, PreNfq, PreNl, PreIf, PreTimers, PreLog
<1>2. \A x \in PreLog \cup PreIf \cup PreNl \cup PreNfq : x \in PreLlf
  BY DEF PreLlf, PreNfq, PreNl, PreIf, PreTimers, PreLog
<1>3. "sockets" \in PreLlf
  BY DEF PreLlf
<1>. QED
  BY <1>1, <1>2, <1>3 DEF Staged

(* What is known in the loop *)
LEMMA InLoop ==
    ASSUME NEW p, Alive(p), p.at \in Loop
    PROVE  /\ p \in Process /\ Tidy(p) /\ Watched(p) /\ Staged(p, p.at) /\ p.at \notin Down
           /\ p.rtnl_sock # NoFd /\ p.fd[p.rtnl_sock] = "nl" /\ p.atexit /\ p.cleaned = 0
           /\ p.due \subseteq p.tq /\ "gc" \in p.tq /\ p.abandoned = {} /\ ~ p.misused
           /\ p.fib \subseteq p.rt /\ p.rt \subseteq p.opt.dests
           /\ p.pq \cup p.kq \cup p.hand \cup p.todo \subseteq p.opt.packets
           /\ p.at # "release" => p.hand = {} /\ p.todo = {}
           /\ p.nfq_queue => p.nfq_handle # NoFd /\ p.fd[p.nfq_handle] = "nfq"
           /\ Own(p)
<1>1. p.at \notin Down /\ p.at \notin PreTimers \cup Down /\ p.at \notin {"options", "detach"} \cup Down /\ p.at \notin PreNl
  BY DEF Loop, Down, PreNl, PreIf, PreTimers, PreLog
<1>2. p \in Process /\ Tidy(p) /\ Watched(p) /\ Staged(p, p.at) /\ Own(p)
  BY <1>1 DEF Alive, Files
<1>3. p.rtnl_sock # NoFd /\ p.fd[p.rtnl_sock] = "nl"
  BY <1>1, <1>2 DEF Staged
<1>4. p.nfq_queue => p.nfq_handle # NoFd /\ p.fd[p.nfq_handle] = "nfq"
  BY <1>2 DEF Tidy
<1>. QED
  BY <1>1, <1>2, <1>3, <1>4 DEF Alive, Held, Routes, Aging

LEMMA LoopStep ==
    ASSUME NEW p, NEW q, Alive(p), p.at \in Loop, Turns(p, q)
    PROVE  Alive(q)
<1>1. /\ p \in Process /\ Tidy(p) /\ Watched(p) /\ Staged(p, p.at) /\ p.at \notin Down
      /\ p.rtnl_sock # NoFd /\ p.fd[p.rtnl_sock] = "nl" /\ p.atexit /\ p.cleaned = 0
      /\ p.abandoned = {} /\ ~ p.misused
  BY InLoop
<1>2. /\ q.fd = p.fd /\ q.dev = p.dev /\ q.cb = p.cb /\ q.opt = p.opt /\ q.atexit = p.atexit
      /\ q.log_file_fd = p.log_file_fd /\ q.rtnl_sock = p.rtnl_sock /\ q.rth_fd = p.rth_fd
      /\ q.nfq_handle = p.nfq_handle /\ q.nfq_queue = p.nfq_queue
      /\ q.misused = p.misused /\ q.abandoned = p.abandoned /\ q.cleaned = p.cleaned
      /\ q \in Process /\ q.at \in Loop
  BY DEF Turns, SameLife
<1>3. Files(q)
  <2>1. Tidy(q) /\ Watched(q) /\ Staged(q, p.at)
    BY <1>1, <1>2, SameFiles
  <2>2. Staged(q, q.at)
    BY <1>2, <2>1, StagedInLoop
  <2>. QED
    BY <2>1, <2>2, StartFiles
<1>4. Routes(q)
  BY <1>1, <1>2 DEF Turns, Routes
<1>5. Held(q)
  BY SMTT(30), <1>1, <1>2 DEF Turns, Held
<1>6. Aging(q)
  BY DEF Turns, Aging
<1>. QED
  BY <1>1, <1>2, <1>3, <1>4, <1>5, <1>6 DEF Alive

(* A descriptor more, for syslog or the wireless tools *)
LEMMA OneMoreFile ==
    ASSUME NEW p, Alive(p), p.at \in Loop, NEW q \in Process, Others(p, q), Tidy(q), Staged(q, p.at)
    PROVE  Alive(q)
<1>1. /\ p.at \notin Down /\ Watched(p) /\ p.at \notin PreNl
      /\ p.atexit /\ p.cleaned = 0 /\ p.abandoned = {} /\ ~ p.misused
  BY InLoop DEF Loop, PreNl, PreIf, PreTimers, PreLog
<1>2. /\ q.at = p.at /\ q.opt = p.opt /\ q.atexit = p.atexit
      /\ q.rtnl_sock = p.rtnl_sock /\ q.dev = p.dev /\ q.cb = p.cb
      /\ q.tq = p.tq /\ q.due = p.due
      /\ q.rt = p.rt /\ q.fib = p.fib /\ q.pq = p.pq /\ q.kq = p.kq /\ q.hand = p.hand
      /\ q.todo = p.todo /\ q.abandoned = p.abandoned /\ q.misused = p.misused
      /\ q.cleaned = p.cleaned
  BY DEF Others
<1>3. Watched(q)
  BY SMTT(30), <1>1, <1>2 DEF Watched
<1>4. Files(q)
  BY <1>2, <1>3, StartFiles
<1>5. q.rtnl_sock # NoFd /\ q.fd[q.rtnl_sock] = "nl"
  BY <1>1 DEF Staged
<1>6. Routes(q)
  BY <1>1, <1>2, <1>5 DEF Routes, Alive
<1>7. Held(q)
  BY SMTT(30), <1>1, <1>2 DEF Held, Alive
<1>8. Aging(q)
  BY <1>2 DEF Aging, Alive
<1>. QED
  BY <1>1, <1>2, <1>4, <1>6, <1>7, <1>8 DEF Alive

LEMMA TimerAgeQueueOK == ASSUME Alive(d), timer_age_queue PROVE Alive(d')
<1>1. PICK S \in SUBSET d.tq : d.at = "age" /\ d' = [d EXCEPT !.due = S, !.at = "timers"]
  BY DEF timer_age_queue, Step
<1>2. d.at \in Loop /\ "timers" \in Loop /\ "timers" \in Labels
  BY <1>1 DEF Loop, Labels
<1>3. d \in Process /\ S \in SUBSET Timers
  BY <1>1 DEF Alive, Process
<1>4. /\ SameLife(d, d') /\ d' \in Process /\ d'.at = "timers" /\ d'.due = S /\ d'.tq = d.tq
      /\ d'.rt = d.rt /\ d'.fib = d.fib /\ d'.pq = d.pq /\ d'.kq = d.kq
      /\ d'.hand = d.hand /\ d'.todo = d.todo
  BY <1>1, <1>2, <1>3 DEF Process, SameLife
<1>5. Turns(d, d')
  BY <1>1, <1>2, <1>4, InLoop DEF Turns
<1>. QED
  BY <1>2, <1>5, LoopStep

LEMMA AgedOK == ASSUME Alive(d), Aged PROVE Alive(d')
<1>1. d.at = "timers" /\ d' = Goto(d, IF d.tq = {} THEN "fault" ELSE "select")
  BY DEF Aged, Step
<1>2. d.at \in Loop /\ "select" \in Loop /\ "select" \in Labels
  BY <1>1 DEF Loop, Labels
<1>3. d \in Process /\ d' = Goto(d, "select")
  <2>1. d.tq # {} /\ d \in Process
    BY <1>2, InLoop
  <2>. QED
    BY <1>1, <2>1
<1>4. /\ d' \in Process /\ d'.at = "select" /\ d'.fd = d.fd /\ d'.opt = d.opt /\ d'.atexit = d.atexit
      /\ d'.log_file_fd = d.log_file_fd /\ d'.rtnl_sock = d.rtnl_sock
      /\ d'.rth_fd = d.rth_fd /\ d'.nfq_handle = d.nfq_handle /\ d'.nfq_queue = d.nfq_queue
      /\ d'.dev = d.dev /\ d'.cb = d.cb /\ d'.tq = d.tq /\ d'.due = d.due
      /\ d'.rt = d.rt /\ d'.fib = d.fib /\ d'.pq = d.pq /\ d'.kq = d.kq /\ d'.hand = d.hand
      /\ d'.todo = d.todo /\ d'.abandoned = d.abandoned /\ d'.misused = d.misused
      /\ d'.cleaned = d.cleaned
  BY SMTT(30), <1>2, <1>3, GotoParts
<1>5. Turns(d, d')
  BY <1>1, <1>2, <1>4, InLoop DEF Turns, SameLife
<1>. QED
  BY <1>2, <1>5, LoopStep

LEMMA PselectOK == ASSUME Alive(d), pselect PROVE Alive(d')
<1>1. PICK S \in SUBSET DOMAIN d.cb :
        d.at = "select" /\ d' = [d EXCEPT !.rfds = S, !.at = IF S = {} THEN "age" ELSE "callbacks"]
  BY DEF pselect, Step
<1>. DEFINE l == IF S = {} THEN "age" ELSE "callbacks"
<1>2. d.at \in Loop /\ l \in Loop /\ l \in Labels /\ l # "release"
  BY <1>1 DEF Loop, Labels
<1>3. d' = [d EXCEPT !.rfds = S, !.at = l]
  BY <1>1
<1>4. d \in Process /\ S \in SUBSET Nat
  BY SMTT(30), <1>1 DEF Alive, Process
<1>. HIDE DEF l
<1>5. /\ SameLife(d, d') /\ d' \in Process /\ d'.at = l /\ d'.due = d.due /\ d'.tq = d.tq
      /\ d'.rt = d.rt /\ d'.fib = d.fib /\ d'.pq = d.pq /\ d'.kq = d.kq
      /\ d'.hand = d.hand /\ d'.todo = d.todo
  BY <1>2, <1>3, <1>4 DEF Process, SameLife
<1>6. Turns(d, d')
  BY <1>1, <1>2, <1>5, InLoop DEF Turns
<1>. QED
  BY <1>2, <1>6, LoopStep

(* A timer is taken from the queue and may be set again, *)
Timed(p, D, T) == [p EXCEPT !.due = D, !.tq = T]

LEMMA TimedOK ==
    ASSUME NEW p, Alive(p), p.at \in Loop, NEW D, NEW T \in SUBSET Timers, D \subseteq T, "gc" \in T,
           NEW q, q = Timed(p, D, T)
    PROVE  Alive(q)
<1>1. p \in Process /\ D \in SUBSET Timers
  BY DEF Alive
<1>2. /\ SameLife(p, q) /\ q \in Process /\ q.at = p.at /\ q.due = D /\ q.tq = T
      /\ q.rt = p.rt /\ q.fib = p.fib /\ q.pq = p.pq /\ q.kq = p.kq
      /\ q.hand = p.hand /\ q.todo = p.todo
  BY <1>1 DEF Process, SameLife, Timed
<1>3. Turns(p, q)
  BY <1>2, InLoop DEF Turns
<1>. QED
  BY <1>3, LoopStep

(* packets leave the buffer one by one, *)
Released(p, P, T, b, l) == [p EXCEPT !.pq = P, !.todo = T, !.back = b, !.at = l]

LEMMA ReleasedParts ==
    ASSUME NEW p \in Process, NEW P \in SUBSET Packets, NEW T \in SUBSET Packets, NEW b \in Loop,
           NEW l \in Labels, NEW q, q = Released(p, P, T, b, l)
    PROVE  /\ SameLife(p, q) /\ q \in Process /\ q.at = l /\ q.due = p.due /\ q.tq = p.tq
           /\ q.rt = p.rt /\ q.fib = p.fib /\ q.pq = P /\ q.kq = p.kq
           /\ q.hand = p.hand /\ q.todo = T
  BY DEF Process, SameLife, Released

LEMMA ReleasingOK ==
    ASSUME NEW p, Alive(p), p.at \in Loop \ {"release"}, NEW S \in SUBSET p.pq, NEW q, q = Releasing(p, S)
    PROVE  Alive(q)
<1>. DEFINE l == IF S = {} THEN p.at ELSE "release"
<1>1. p \in Process /\ l \in Loop /\ l \in Labels /\ S \in SUBSET Packets /\ p.at \in Loop
  BY DEF Alive, Loop, Labels, Process
<1>2. l # "release" => S = {}
  OBVIOUS
<1>3. q = Released(p, p.pq \ S, S, p.at, l) /\ p.pq \ S \in SUBSET Packets
  BY <1>1 DEF Releasing, Released, Process
<1>. HIDE DEF l
<1>4. /\ SameLife(p, q) /\ q \in Process /\ q.at = l /\ q.due = p.due /\ q.tq = p.tq
      /\ q.rt = p.rt /\ q.fib = p.fib /\ q.pq = p.pq \ S /\ q.kq = p.kq
      /\ q.hand = p.hand /\ q.todo = S
  BY SMTT(30), <1>1, <1>3, ReleasedParts
<1>5. p.hand = {}
  BY InLoop
<1>6. Turns(p, q)
  BY <1>1, <1>2, <1>4, <1>5, InLoop DEF Turns
<1>. QED
  BY <1>1, <1>6, LoopStep

LEMMA DetachedOK == ASSUME Alive(d), Detached PROVE Alive(d')
<1>1. PICK k \in d.todo : d.at = "release" /\ d' = [d EXCEPT !.todo = d.todo \ {k}, !.hand = {k}]
  BY DEF Detached, Step
<1>2. d.at \in Loop /\ d \in Process /\ {k} \in SUBSET Packets
  BY <1>1 DEF Loop, Alive, Process
<1>3. /\ SameLife(d, d') /\ d' \in Process /\ d'.at = d.at /\ d'.due = d.due /\ d'.tq = d.tq
      /\ d'.rt = d.rt /\ d'.fib = d.fib /\ d'.pq = d.pq /\ d'.kq = d.kq
      /\ d'.hand = {k} /\ d'.todo = d.todo \ {k}
  BY <1>1, <1>2 DEF Process, SameLife
<1>4. Turns(d, d')
  BY <1>1, <1>2, <1>3, InLoop DEF Turns
<1>. QED
  BY <1>2, <1>4, LoopStep

(* and a verdict is for an open queue. *)
LEMMA KernelQueueParts ==
    ASSUME NEW p \in Process, NEW K \in SUBSET Packets, NEW q, q = [p EXCEPT !.kq = K]
    PROVE  /\ SameLife(p, q) /\ q \in Process /\ q.at = p.at /\ q.due = p.due /\ q.tq = p.tq
           /\ q.rt = p.rt /\ q.fib = p.fib /\ q.pq = p.pq /\ q.kq = K
           /\ q.hand = p.hand /\ q.todo = p.todo /\ q.back = p.back
  BY DEF Process, SameLife

LEMMA VerdictIs ==
    ASSUME NEW p \in Process, Own(p), p.nfq_queue => p.fd[p.nfq_handle] = "nfq", NEW S,
           NEW q, q = nfqueue_set_packet_verdict(p, S)
    PROVE  /\ SameLife(p, q) /\ q \in Process /\ q.at = p.at /\ q.due = p.due /\ q.tq = p.tq
           /\ q.rt = p.rt /\ q.fib = p.fib /\ q.pq = p.pq /\ q.kq \subseteq p.kq
           /\ q.hand = p.hand \ S /\ q.todo = p.todo /\ q.back = p.back
<1>. DEFINE h == [p EXCEPT !.hand = p.hand \ S]
<1>1. /\ SameLife(p, h) /\ h \in Process /\ h.at = p.at /\ h.due = p.due /\ h.tq = p.tq
      /\ h.rt = p.rt /\ h.fib = p.fib /\ h.pq = p.pq /\ h.kq = p.kq
      /\ h.hand = p.hand \ S /\ h.todo = p.todo /\ h.back = p.back
  BY DEF Process, SameLife
<1>2. CASE ~ (S # {} /\ p.nfq_queue)
  BY <1>1, <1>2 DEF nfqueue_set_packet_verdict
<1>3. CASE S # {} /\ p.nfq_queue
  <2>1. q = [Use(h) EXCEPT !.kq = @ \ S]
    BY <1>3 DEF nfqueue_set_packet_verdict
  <2>. HIDE DEF h
  <2>2. Use(h) = h
    <3>1. h.nfq_handle # NoFd /\ h.fd[h.nfq_handle] = "nfq"
      BY <1>1, <1>3 DEF SameLife, Own
    <3>. QED
      BY <1>1, <3>1, UseIs
  <2>3. PICK K \in SUBSET Packets : q = [h EXCEPT !.kq = K] /\ K = h.kq \ S
    <3>1. q = [h EXCEPT !.kq = h.kq \ S]
      BY <2>1, <2>2
    <3>2. h.kq \ S \in SUBSET Packets
      BY <1>1 DEF Process
    <3>. QED
      BY <3>1, <3>2
  <2>4. /\ SameLife(h, q) /\ q \in Process /\ q.at = h.at /\ q.due = h.due /\ q.tq = h.tq
        /\ q.rt = h.rt /\ q.fib = h.fib /\ q.pq = h.pq /\ q.kq = h.kq \ S
        /\ q.hand = h.hand /\ q.todo = h.todo /\ q.back = h.back
    BY SMTT(30), <1>1, <2>3, KernelQueueParts
  <2>5. SameLife(p, q)
    BY <1>1, <2>4 DEF SameLife
  <2>. QED
    BY <1>1, <2>4, <2>5
<1>. QED
  BY <1>2, <1>3

LEMMA DecidedOK == ASSUME Alive(d), Decided PROVE Alive(d')
<1>. DEFINE p == nfqueue_set_packet_verdict(d, d.hand)
<1>1. d.at = "release" /\ d' = IF d.todo = {} THEN [p EXCEPT !.at = d.back, !.back = "age"] ELSE p
  BY DEF Decided, Step
<1>2. d.at \in Loop
  BY <1>1 DEF Loop
<1>3. d \in Process /\ Own(d) /\ (d.nfq_queue => d.fd[d.nfq_handle] = "nfq")
  BY <1>2, InLoop
<1>4. /\ SameLife(d, p) /\ p \in Process /\ p.at = d.at /\ p.due = d.due /\ p.tq = d.tq
      /\ p.rt = d.rt /\ p.fib = d.fib /\ p.pq = d.pq /\ p.kq \subseteq d.kq
      /\ p.hand = d.hand \ d.hand /\ p.todo = d.todo
  BY SMTT(30), <1>3, VerdictIs
<1>. HIDE DEF p
<1>5. Turns(d, p)
  BY <1>1, <1>2, <1>4, InLoop DEF Turns
<1>6. CASE d.todo # {}
  BY <1>1, <1>2, <1>5, <1>6, LoopStep
<1>7. CASE d.todo = {}
  <2>1. d' = Released(p, p.pq, p.todo, "age", d.back)
    <3>1. d' = [p EXCEPT !.at = d.back, !.back = "age"]
      BY <1>1, <1>7
    <3>2. [p EXCEPT !.at = d.back, !.back = "age"]
             = [p EXCEPT !.pq = p.pq, !.todo = p.todo, !.back = "age", !.at = d.back]
      BY <1>4 DEF Process
    <3>. QED
      BY <3>1, <3>2 DEF Released
  <2>2. "age" \in Loop /\ d.back \in Loop /\ d.back \in Labels /\ p.pq \in SUBSET Packets /\ p.todo \in SUBSET Packets
    BY <1>3, <1>4 DEF Process, Loop, Labels
  <2>3. /\ SameLife(p, d') /\ d' \in Process /\ d'.at = d.back /\ d'.due = p.due /\ d'.tq = p.tq
        /\ d'.rt = p.rt /\ d'.fib = p.fib /\ d'.pq = p.pq /\ d'.kq = p.kq
        /\ d'.hand = p.hand /\ d'.todo = p.todo
    BY SMTT(30), <1>4, <2>1, <2>2, ReleasedParts
  <2>4. p.hand = {} /\ p.todo = {} /\ p.at \in Loop
    BY <1>2, <1>4, <1>7
  <2>5. Turns(p, d')
    BY <1>5, <2>2, <2>3, <2>4 DEF Turns, SameLife
  <2>. QED
    BY <1>2, <1>5, <2>4, <2>5, LoopStep
<1>. QED
  BY <1>6, <1>7

-----------------------------------------------------------------------------
(* The timers                                                              *)

LEMMA TimerSet ==
    ASSUME NEW p, Alive(p), p.at \in Loop, NEW t \in Timers, NEW q, q = [p EXCEPT !.tq = p.tq \cup {t}]
    PROVE  Alive(q)
<1>1. p \in Process
  BY DEF Alive
<1>2. p.tq \cup {t} \in SUBSET Timers /\ p.tq \subseteq p.tq \cup {t}
  BY <1>1 DEF Process
<1>3. PICK T \in SUBSET Timers : T = p.tq \cup {t} /\ q = [p EXCEPT !.tq = T] /\ p.tq \subseteq T
  BY <1>2
<1>4. /\ q \in Process /\ q.tq = T /\ SameNet(p, q)
      /\ q.fd = p.fd /\ q.dev = p.dev /\ q.cb = p.cb /\ q.opt = p.opt /\ q.at = p.at
      /\ q.log_file_fd = p.log_file_fd /\ q.rtnl_sock = p.rtnl_sock
      /\ q.rth_fd = p.rth_fd /\ q.nfq_handle = p.nfq_handle /\ q.nfq_queue = p.nfq_queue
      /\ q.atexit = p.atexit
  BY SMTT(30), <1>1, <1>3, TqParts
<1>5. /\ p.due \subseteq p.tq /\ "gc" \in p.tq
      /\ p.fib \subseteq p.rt /\ p.rt \subseteq p.opt.dests
      /\ p.pq \cup p.kq \cup p.hand \cup p.todo \subseteq p.opt.packets
      /\ p.at # "release" => p.hand = {} /\ p.todo = {}
  BY InLoop
<1>6. Turns(p, q)
  BY <1>3, <1>4, <1>5 DEF Turns, SameLife, SameNet
<1>. QED
  BY <1>6, LoopStep

LEMMA ExpiredOK ==
    ASSUME Alive(d), d.at = "timers", NEW t \in Timers, t # "gc", NEW q, q = Expired(t)
    PROVE  Alive(q) /\ q.at = "timers"
<1>1. q = Timed(d, d.due \ {t}, d.tq \ {t})
  BY DEF Expired, Timed
<1>2. d.at \in Loop /\ d \in Process
  BY DEF Loop, Alive
<1>3. "gc" \in d.tq \ {t} /\ d.due \ {t} \subseteq d.tq \ {t} /\ d.tq \ {t} \in SUBSET Timers
  BY <1>2, InLoop DEF Process
<1>4. q.at = d.at
  BY <1>1, <1>2 DEF Timed, Process
<1>. QED
  BY <1>1, <1>2, <1>3, <1>4, TimedOK

Rebooted(p) == [p EXCEPT !.worb = FALSE]

LEMMA RebootedParts ==
    ASSUME NEW p \in Process, NEW q, q = Rebooted(p)
    PROVE  /\ SameLife(p, q) /\ q \in Process /\ q.at = p.at /\ q.due = p.due /\ q.tq = p.tq
           /\ q.rt = p.rt /\ q.fib = p.fib /\ q.pq = p.pq /\ q.kq = p.kq
           /\ q.hand = p.hand /\ q.todo = p.todo
  BY DEF Process, SameLife, Rebooted

LEMMA OtherTimersOK ==
    ASSUME Alive(d), wait_on_reboot_timeout \/ hello_send \/ print_rt_table
    PROVE  Alive(d')
<1>1. d.at = "timers" /\ "timers" \in Loop
  BY DEF wait_on_reboot_timeout, hello_send, print_rt_table, Step, Loop
<1>2. "worb" \in Timers /\ "hello" \in Timers /\ "rt_log" \in Timers
  BY DEF Timers
<1>3. ASSUME NEW t \in Timers, t # "gc", NEW q, q = Expired(t),
             d' = q \/ d' = [q EXCEPT !.tq = q.tq \cup {t}]
      PROVE  Alive(d')
  <2>1. Alive(q) /\ q.at = "timers"
    BY <1>1, <1>3, ExpiredOK
  <2>. QED
    BY <1>1, <1>3, <2>1, TimerSet
<1>4. CASE hello_send \/ print_rt_table
  <2>. DEFINE h == Expired("hello")  l == Expired("rt_log")
  <2>1. \/ d' = [h EXCEPT !.tq = h.tq \cup {"hello"}] \/ d' = h
        \/ d' = [l EXCEPT !.tq = l.tq \cup {"rt_log"}]
    BY <1>4 DEF hello_send, print_rt_table, Step
  <2>. HIDE DEF h, l
  <2>2. h = Expired("hello") /\ l = Expired("rt_log")
    BY DEF h, l
  <2>. QED
    BY <1>2, <1>3, <2>1, <2>2
<1>5. CASE wait_on_reboot_timeout
  <2>1. PICK q : q = Expired("worb") /\ d' = Rebooted(q)
    BY <1>5 DEF wait_on_reboot_timeout, Step, Rebooted
  <2>2. Alive(q) /\ q.at = "timers"
    BY <1>1, <1>2, <2>1, ExpiredOK
  <2>3. q \in Process
    BY <2>2 DEF Alive
  <2>4. /\ SameLife(q, d') /\ d' \in Process /\ d'.at = q.at /\ d'.due = q.due /\ d'.tq = q.tq
        /\ d'.rt = q.rt /\ d'.fib = q.fib /\ d'.pq = q.pq /\ d'.kq = q.kq
        /\ d'.hand = q.hand /\ d'.todo = q.todo
    BY <2>1, <2>3, RebootedParts
  <2>5. Turns(q, d')
    BY <1>1, <2>2, <2>4, InLoop DEF Turns
  <2>. QED
    BY <1>1, <2>2, <2>5, LoopStep
<1>. QED
  BY <1>4, <1>5

LEMMA PacketQueueTimeoutOK == ASSUME Alive(d), packet_queue_timeout PROVE Alive(d')
<1>. DEFINE e == Expired("gc")
<1>1. PICK S \in SUBSET d.pq :
        d.at = "timers" /\ d' = [Releasing(e, S) EXCEPT !.tq = @ \cup {"gc"}]
  BY DEF packet_queue_timeout, Step
<1>. DEFINE r == Releasing(e, S)  D == d.due \ {"gc"}  l == IF S = {} THEN d.at ELSE "release"
<1>2. d.at \in Loop /\ d \in Process /\ l \in Loop /\ l \in Labels /\ (l # "release" => S = {})
  BY <1>1 DEF Loop, Alive, Labels
<1>3. /\ d.due \subseteq d.tq /\ "gc" \in d.tq
      /\ d.fib \subseteq d.rt /\ d.rt \subseteq d.opt.dests
      /\ d.pq \cup d.kq \cup d.hand \cup d.todo \subseteq d.opt.packets
      /\ d.hand = {} /\ d.todo = {}
  BY <1>1, <1>2, InLoop
<1>4. /\ D \in SUBSET Timers /\ d.tq \ {"gc"} \in SUBSET Timers
      /\ S \in SUBSET Packets /\ d.pq \ S \in SUBSET Packets
  BY <1>2 DEF Process
<1>. HIDE DEF D, l
<1>5. /\ SameLife(d, e) /\ e \in Process /\ e.at = d.at /\ e.due = D /\ e.tq = d.tq \ {"gc"}
      /\ e.rt = d.rt /\ e.fib = d.fib /\ e.pq = d.pq /\ e.kq = d.kq
      /\ e.hand = d.hand /\ e.todo = d.todo
  <2>1. e = Timed(d, D, d.tq \ {"gc"})
    BY DEF Expired, Timed, D
  <2>. HIDE DEF e
  <2>. QED
    BY <1>2, <1>4, <2>1 DEF Process, SameLife, Timed
<1>. HIDE DEF e
<1>6. r = Released(e, d.pq \ S, S, d.at, l)
  BY <1>5 DEF Releasing, Released, l
<1>7. /\ SameLife(e, r) /\ r \in Process /\ r.at = l /\ r.due = e.due /\ r.tq = e.tq
      /\ r.rt = e.rt /\ r.fib = e.fib /\ r.pq = d.pq \ S /\ r.kq = e.kq
      /\ r.hand = e.hand /\ r.todo = S
  <2>. HIDE DEF r
  <2>. QED
    BY SMTT(30), <1>2, <1>4, <1>5, <1>6, ReleasedParts
<1>8. d' = [r EXCEPT !.tq = r.tq \cup {"gc"}]
  BY <1>1
<1>. HIDE DEF r
<1>9. PICK T \in SUBSET Timers : T = r.tq \cup {"gc"} /\ d' = [r EXCEPT !.tq = T] /\ r.tq \subseteq T
  <2>1. r.tq \cup {"gc"} \in SUBSET Timers
    BY <1>7 DEF Process, Timers
  <2>. QED
    BY <1>8, <2>1
<1>10. /\ d' \in Process /\ d'.tq = T /\ SameNet(r, d')
       /\ d'.fd = r.fd /\ d'.dev = r.dev /\ d'.cb = r.cb /\ d'.opt = r.opt /\ d'.at = r.at
       /\ d'.log_file_fd = r.log_file_fd /\ d'.rtnl_sock = r.rtnl_sock
       /\ d'.rth_fd = r.rth_fd /\ d'.nfq_handle = r.nfq_handle /\ d'.nfq_queue = r.nfq_queue
       /\ d'.atexit = r.atexit
  BY SMTT(30), <1>7, <1>9, TqParts
<1>11. SameLife(d, d')
  BY <1>5, <1>7, <1>10 DEF SameLife, SameNet
<1>12. /\ d'.rt = d.rt /\ d'.fib = d.fib /\ d'.pq = d.pq \ S /\ d'.kq \subseteq d.kq
       /\ d'.hand = d.hand /\ d'.todo = S /\ d'.due = D
  BY <1>5, <1>7, <1>10 DEF SameNet
<1>13. d'.due \subseteq d'.tq /\ "gc" \in d'.tq
  BY <1>3, <1>5, <1>7, <1>9, <1>10, <1>12 DEF D
<1>14. Turns(d, d')
  BY <1>2, <1>3, <1>7, <1>10, <1>11, <1>12, <1>13 DEF Turns
<1>. QED
  BY <1>2, <1>14, LoopStep

-----------------------------------------------------------------------------
(* The callbacks                                                           *)

Polling(p, R, l) == [p EXCEPT !.rfds = R, !.at = l]

LEMMA PollingParts ==
    ASSUME NEW p \in Process, NEW R \in SUBSET Nat, NEW l \in Labels, NEW q, q = Polling(p, R, l)
    PROVE  /\ SameLife(p, q) /\ q \in Process /\ q.at = l /\ q.due = p.due /\ q.tq = p.tq
           /\ q.rt = p.rt /\ q.fib = p.fib /\ q.pq = p.pq /\ q.kq = p.kq
           /\ q.hand = p.hand /\ q.todo = p.todo
  BY DEF Process, SameLife, Polling

LEMMA CalledOK ==
    ASSUME Alive(d), d.at = "callbacks", NEW q, q = Called
    PROVE  /\ Alive(q) /\ q.at \in Loop \ {"release"} /\ q.opt = d.opt /\ q.rt = d.rt /\ q.pq = d.pq
           /\ q.kq = d.kq /\ q.fd = d.fd
<1>. DEFINE l == IF Cardinality(d.rfds) = 1 THEN "age" ELSE "callbacks"
            R == d.rfds \ {Min(d.rfds)}
<1>1. l \in Loop /\ l \in Labels /\ l # "release" /\ d.at \in Loop
  BY DEF Loop, Labels
<1>2. q = Polling(d, R, l)
  BY DEF Called, Polling
<1>3. d \in Process /\ R \in SUBSET Nat
  BY DEF Alive, Process
<1>. HIDE DEF l, R
<1>4. /\ SameLife(d, q) /\ q \in Process /\ q.at = l /\ q.due = d.due /\ q.tq = d.tq
      /\ q.rt = d.rt /\ q.fib = d.fib /\ q.pq = d.pq /\ q.kq = d.kq
      /\ q.hand = d.hand /\ q.todo = d.todo
  BY SMTT(30), <1>1, <1>2, <1>3, PollingParts
<1>5. Turns(d, q)
  BY <1>1, <1>4, InLoop DEF Turns
<1>6. Alive(q)
  BY <1>1, <1>5, LoopStep
<1>. QED
  BY <1>1, <1>4, <1>6 DEF SameLife

Routed(p, R, F) == [p EXCEPT !.rt = R, !.fib = F]

LEMMA RoutedParts ==
    ASSUME NEW p \in Process, NEW R \in SUBSET Dests, NEW F \in SUBSET Dests, NEW q, q = Routed(p, R, F)
    PROVE  /\ SameLife(p, q) /\ q \in Process /\ q.at = p.at /\ q.due = p.due /\ q.tq = p.tq
           /\ q.rt = R /\ q.fib = F /\ q.pq = p.pq /\ q.kq = p.kq
           /\ q.hand = p.hand /\ q.todo = p.todo
  BY DEF Process, SameLife, Routed

LEMMA NlSendIs ==
    ASSUME NEW p \in Process, p.rtnl_sock # NoFd, p.fd[p.rtnl_sock] = "nl", NEW R \in SUBSET Dests, NEW F
    PROVE  nl_send([p EXCEPT !.rt = R], F) = Routed(p, R, F)
<1>. DEFINE q == [p EXCEPT !.rt = R]
<1>1. q.rtnl_sock = p.rtnl_sock /\ q.fd = p.fd
  BY DEF Process
<1>2. [q EXCEPT !.fib = F] = [p EXCEPT !.rt = R, !.fib = F]
  BY DEF Process
<1>. HIDE DEF q
<1>3. nl_send(q, F) = [q EXCEPT !.fib = F]
  BY <1>1 DEF nl_send
<1>. QED
  BY <1>2, <1>3 DEF q, Routed

LEMMA DestsInOptions == ASSUME NEW p \in Process PROVE p.opt.dests \subseteq Dests
  BY DEF Process, Options, Dests

LEMMA RouteStep ==
    ASSUME NEW p, Alive(p), p.at \in Loop, NEW R \in SUBSET p.opt.dests, NEW F \in SUBSET R,
           NEW q, q = nl_send([p EXCEPT !.rt = R], F)
    PROVE  Alive(q) /\ q.at = p.at /\ q.pq = p.pq
<1>1. p \in Process /\ p.rtnl_sock # NoFd /\ p.fd[p.rtnl_sock] = "nl"
  BY InLoop
<1>2. R \in SUBSET Dests /\ F \in SUBSET Dests
  BY <1>1, DestsInOptions
<1>3. q = Routed(p, R, F)
  BY <1>1, <1>2, NlSendIs
<1>4. /\ SameLife(p, q) /\ q \in Process /\ q.at = p.at /\ q.due = p.due /\ q.tq = p.tq
      /\ q.rt = R /\ q.fib = F /\ q.pq = p.pq /\ q.kq = p.kq
      /\ q.hand = p.hand /\ q.todo = p.todo
  BY SMTT(30), <1>1, <1>2, <1>3, RoutedParts
<1>5. Turns(p, q)
  BY <1>4, InLoop DEF Turns
<1>. QED
  BY <1>4, <1>5, LoopStep

LEMMA DeleteOK ==
    ASSUME NEW p, Alive(p), p.at \in Loop, NEW S, NEW q, q = rt_table_delete(p, S)
    PROVE  Alive(q)
<1>1. p.rt \ S \in SUBSET p.opt.dests /\ p.fib \ S \in SUBSET (p.rt \ S)
  BY InLoop
<1>2. q = nl_send([p EXCEPT !.rt = p.rt \ S], p.fib \ S)
  BY DEF rt_table_delete
<1>3. PICK R, F : R \in SUBSET p.opt.dests /\ F \in SUBSET R /\ q = nl_send([p EXCEPT !.rt = R], F)
  BY <1>1, <1>2
<1>. QED
  BY <1>3, RouteStep

LEMMA InsertOK ==
    ASSUME NEW p, Alive(p), p.at \in Loop, NEW a \in p.opt.dests, NEW q, q = rt_table_insert(p, a)
    PROVE  Alive(q) /\ q.at = p.at /\ q.pq = p.pq
<1>1. p.rt \cup {a} \in SUBSET p.opt.dests /\ p.fib \cup {a} \in SUBSET (p.rt \cup {a})
  BY InLoop
<1>2. q = nl_send([p EXCEPT !.rt = p.rt \cup {a}], p.fib \cup {a})
  BY DEF rt_table_insert
<1>3. PICK R, F : R \in SUBSET p.opt.dests /\ F \in SUBSET R /\ q = nl_send([p EXCEPT !.rt = R], F)
  BY <1>1, <1>2
<1>. QED
  BY SMTT(30), <1>3, RouteStep

LEMMA NlCallbackOK == ASSUME Alive(d), nl_rt_callback PROVE Alive(d')
  BY CalledOK DEF nl_rt_callback, Step

Buffering(p, K) == [p EXCEPT !.pq = K]

LEMMA BufferParts ==
    ASSUME NEW p \in Process, NEW K \in SUBSET Packets, NEW q, q = Buffering(p, K)
    PROVE  /\ SameLife(p, q) /\ q \in Process /\ q.at = p.at /\ q.due = p.due /\ q.tq = p.tq
           /\ q.rt = p.rt /\ q.fib = p.fib /\ q.pq = K /\ q.kq = p.kq
           /\ q.hand = p.hand /\ q.todo = p.todo
  BY DEF Process, SameLife, Buffering

LEMMA NfqueueCallbackOK == ASSUME Alive(d), nfqueue_fd_callback PROVE Alive(d')
<1>. DEFINE c == Called
<1>1. d.at = "callbacks"
  BY DEF nfqueue_fd_callback, Calls
<1>2. \/ d' = c
      \/ \E k \in d.kq : d' = nfqueue_set_packet_verdict(c, {k}) \/ d' = Buffering(c, c.pq \cup {k})
  BY DEF nfqueue_fd_callback, Step, Buffering
<1>3. Alive(c) /\ c.at \in Loop \ {"release"} /\ c.kq = d.kq
  BY <1>1, CalledOK
<1>. HIDE DEF c
<1>4. /\ c \in Process /\ Own(c) /\ (c.nfq_queue => c.fd[c.nfq_handle] = "nfq")
      /\ c.due \subseteq c.tq /\ "gc" \in c.tq
      /\ c.fib \subseteq c.rt /\ c.rt \subseteq c.opt.dests
      /\ c.pq \cup c.kq \cup c.hand \cup c.todo \subseteq c.opt.packets
      /\ c.hand = {} /\ c.todo = {} /\ c.at \in Loop
  BY <1>3, InLoop
<1>5. ASSUME NEW k \in d.kq, d' = nfqueue_set_packet_verdict(c, {k})
      PROVE  Alive(d')
  <2>1. /\ SameLife(c, d') /\ d' \in Process /\ d'.at = c.at /\ d'.due = c.due /\ d'.tq = c.tq
        /\ d'.rt = c.rt /\ d'.fib = c.fib /\ d'.pq = c.pq /\ d'.kq \subseteq c.kq
        /\ d'.hand = c.hand \ {k} /\ d'.todo = c.todo
    BY SMTT(30), <1>4, <1>5, VerdictIs
  <2>2. Turns(c, d')
    BY <1>4, <2>1 DEF Turns
  <2>. QED
    BY <1>3, <2>2, LoopStep
<1>6. ASSUME NEW k \in d.kq, d' = Buffering(c, c.pq \cup {k})
      PROVE  Alive(d')
  <2>1. c.pq \cup {k} \in SUBSET Packets
    BY <1>3, <1>4 DEF Process
  <2>2. PICK K \in SUBSET Packets : K = c.pq \cup {k} /\ d' = Buffering(c, K)
    BY <1>6, <2>1
  <2>3. /\ SameLife(c, d') /\ d' \in Process /\ d'.at = c.at /\ d'.due = c.due /\ d'.tq = c.tq
        /\ d'.rt = c.rt /\ d'.fib = c.fib /\ d'.pq = K /\ d'.kq = c.kq
        /\ d'.hand = c.hand /\ d'.todo = c.todo
    BY SMTT(30), <1>4, <2>2, BufferParts
  <2>4. K \cup c.kq \cup c.hand \cup c.todo \subseteq c.opt.packets
    <3>1. k \in c.kq /\ c.pq \cup c.kq \cup c.hand \cup c.todo \subseteq c.opt.packets
      BY <1>3, <1>4
    <3>. QED
      BY <2>2, <3>1
  <2>5. d'.pq \cup d'.kq \cup d'.hand \cup d'.todo \subseteq c.opt.packets
    BY <2>3, <2>4
  <2>6. Turns(c, d')
    BY <1>4, <2>3, <2>5 DEF Turns
  <2>. QED
    BY <1>3, <2>6, LoopStep
<1>. QED
  BY <1>2, <1>3, <1>5, <1>6

LEMMA SyslogAlive ==
    ASSUME NEW p, Alive(p), p.at \in Loop, NEW q, q = syslog(p)
    PROVE  Alive(q) /\ q.at = p.at
<1>1. p \in Process /\ Tidy(p) /\ Staged(p, p.at) /\ p.at \notin {"options", "detach"}
  BY InLoop DEF Loop
<1>2. q \in Process /\ Others(p, q) /\ Tidy(q) /\ Staged(q, p.at)
  BY <1>1, SyslogOK
<1>. QED
  BY <1>2, OneMoreFile DEF Others

LEMMA AodvSocketReadOK == ASSUME Alive(d), aodv_socket_read PROVE Alive(d')
<1>. DEFINE c == Called
<1>1. d.at = "callbacks" /\ d.at \in Loop
  BY DEF aodv_socket_read, Calls, Loop
<1>2. \/ d' = alog(d, "LOG_ERR")
      \/ d' = c
      \/ \E a \in d.opt.dests, S \in SUBSET d.pq : d' = Releasing(rt_table_insert(c, a), S)
      \/ \E a \in d.rt : d' = rt_table_delete(c, {a})
      \/ d' = [c EXCEPT !.tq = c.tq \cup {"hello"}]
  BY DEF aodv_socket_read, Step
<1>3. Alive(c) /\ c.at \in Loop \ {"release"} /\ c.opt = d.opt /\ c.pq = d.pq
  BY <1>1, CalledOK
<1>. HIDE DEF c
<1>4. CASE d' = alog(d, "LOG_ERR")
  <2>1. d' = Goto(syslog(d), "exit")
    BY <1>1, <1>4, InLoop, AlogIs
  <2>2. PICK s : s = syslog(d)
    OBVIOUS
  <2>3. Alive(s) /\ s.at = d.at
    BY <1>1, <2>2, SyslogAlive
  <2>. QED
    BY <1>1, <2>1, <2>2, <2>3, ToExit DEF Down
<1>5. ASSUME NEW a \in d.opt.dests, NEW S \in SUBSET d.pq, d' = Releasing(rt_table_insert(c, a), S)
      PROVE  Alive(d')
  <2>1. PICK r : r = rt_table_insert(c, a)
    OBVIOUS
  <2>2. Alive(r) /\ r.at = c.at /\ r.pq = c.pq
    BY <1>3, <2>1, InsertOK
  <2>3. d' = Releasing(r, S) /\ S \in SUBSET r.pq /\ r.at \in Loop \ {"release"}
    BY <1>3, <1>5, <2>1, <2>2
  <2>. QED
    BY <2>2, <2>3, ReleasingOK
<1>6. ASSUME NEW a \in d.rt, d' = rt_table_delete(c, {a})
      PROVE  Alive(d')
  BY <1>3, <1>6, DeleteOK
<1>7. CASE d' = [c EXCEPT !.tq = c.tq \cup {"hello"}]
  BY <1>3, <1>7, TimerSet DEF Timers
<1>. QED
  BY <1>2, <1>3, <1>4, <1>5, <1>6, <1>7

LEMMA CachedParts ==
    ASSUME NEW p \in Process, NEW q, q = [p EXCEPT !.iw_cached = TRUE]
    PROVE  /\ SameLife(p, q) /\ q \in Process /\ q.at = p.at /\ q.due = p.due /\ q.tq = p.tq
           /\ q.rt = p.rt /\ q.fib = p.fib /\ q.pq = p.pq /\ q.kq = p.kq
           /\ q.hand = p.hand /\ q.todo = p.todo
  BY DEF Process, SameLife

LEMMA LlfCallbackOK == ASSUME Alive(d), llf_callback PROVE Alive(d')
<1>. DEFINE c == Called
<1>1. d.at = "callbacks"
  BY DEF llf_callback, Calls
<1>2. PICK p \in iw_get_interface_data(c), S \in SUBSET d.rt : d' = rt_table_delete(p, S) \/ d' = p
  BY DEF llf_callback, Step, llf_print_event
<1>3. Alive(c) /\ c.at \in Loop
  BY <1>1, CalledOK
<1>. HIDE DEF c
<1>4. /\ c \in Process /\ Tidy(c) /\ Staged(c, c.at) /\ c.at \notin {"options", "detach"}
  BY <1>3, InLoop DEF Loop
<1>5. \/ p = c \/ p = [c EXCEPT !.iw_cached = TRUE]
      \/ Cardinality(Leaks(c)) < MaxLeaks /\ p = open(c, "iw")
  BY <1>2 DEF iw_get_interface_data, Leaks
<1>6. Alive(p) /\ p.at = c.at
  <2>1. CASE p = c
    BY <1>3, <2>1
  <2>2. CASE p = [c EXCEPT !.iw_cached = TRUE]
    <3>1. /\ SameLife(c, p) /\ p \in Process /\ p.at = c.at /\ p.due = c.due /\ p.tq = c.tq
          /\ p.rt = c.rt /\ p.fib = c.fib /\ p.pq = c.pq /\ p.kq = c.kq
          /\ p.hand = c.hand /\ p.todo = c.todo
      BY <1>4, <2>2, CachedParts
    <3>2. Turns(c, p)
      BY <1>3, <3>1, InLoop DEF Turns
    <3>. QED
      BY <1>3, <3>1, <3>2, LoopStep
  <2>3. CASE Cardinality(Leaks(c)) < MaxLeaks /\ p = open(c, "iw")
    <3>0. "iw" \in Singles \cup {"iw"} /\ "iw" \notin Singles
      BY DEF Singles
    <3>1. PICK n \in 0 .. MaxFd : Took(c, p, n, "iw")
      BY <1>4, <2>3, <3>0, Opening
    <3>2. /\ c.fd[n] = Free /\ p \in Process /\ Others(c, p) /\ Tidy(p) /\ p.fd = [c.fd EXCEPT ![n] = "iw"]
      BY <3>1 DEF Took, Lowest
    <3>3. Staged(p, c.at)
      BY <1>4, <3>2, StagedStays
    <3>. QED
      BY <1>3, <3>2, <3>3, OneMoreFile DEF Others
  <2>. QED
    BY <1>5, <2>1, <2>2, <2>3
<1>. QED
  BY <1>2, <1>3, <1>6, DeleteOK

-----------------------------------------------------------------------------
(* exit(): one service of cleanup() after another                          *)

(* The service has been cleaned up, and is not counted yet. *)
Exiting(p, q) ==
    /\ q \in Process /\ q.at = "exit" /\ Own(q) /\ q.opt.packets = p.opt.packets
    /\ q.rt = {} /\ q.fib = {} /\ q.pq \subseteq p.pq /\ q.kq \subseteq p.kq
    /\ q.hand = {} /\ q.todo = {} /\ q.abandoned = {} /\ ~ q.misused
    /\ q.cleaned = p.cleaned /\ q.due \subseteq q.tq
    /\ p.cleaned >= 4 => q.pq = {}
    /\ p.cleaned >= 5 => q.nfq_handle = NoFd

Counted(p, n) == [p EXCEPT !.cleaned = n]

LEMMA CleanedParts ==
    ASSUME NEW p \in Process, NEW n \in 0 .. 7, NEW q, q = Counted(p, n)
    PROVE  /\ q \in Process /\ q.at = p.at /\ q.opt = p.opt /\ q.cleaned = n
           /\ q.fd = p.fd /\ q.dev = p.dev /\ q.cb = p.cb
           /\ q.log_file_fd = p.log_file_fd /\ q.rtnl_sock = p.rtnl_sock /\ q.rth_fd = p.rth_fd
           /\ q.nfq_handle = p.nfq_handle /\ q.nfq_queue = p.nfq_queue
           /\ q.misused = p.misused /\ q.abandoned = p.abandoned
           /\ q.due = p.due /\ q.tq = p.tq /\ q.rt = p.rt /\ q.fib = p.fib /\ q.pq = p.pq
           /\ q.kq = p.kq /\ q.hand = p.hand /\ q.todo = p.todo
  BY DEF Process, Counted

LEMMA ExitStep ==
    ASSUME NEW p, Alive(p), p.at = "exit", p.cleaned < 7, NEW q, Exiting(p, q),
           NEW r, r = Counted(q, q.cleaned + 1)
    PROVE  Alive(r)
<1>1. PICK n \in 0 .. 7 : n = q.cleaned + 1 /\ n = p.cleaned + 1 /\ r = Counted(q, n)
  <2>1. p.cleaned \in 0 .. 7 /\ q.cleaned = p.cleaned
    BY DEF Alive, Process, Exiting
  <2>2. q.cleaned + 1 \in 0 .. 7
    BY SMTT(30), <2>1
  <2>. QED
    BY <2>1, <2>2
<1>2. q \in Process
  BY DEF Exiting
<1>3. /\ r \in Process /\ r.at = q.at /\ r.opt = q.opt /\ r.cleaned = n
      /\ r.fd = q.fd /\ r.dev = q.dev /\ r.cb = q.cb
      /\ r.log_file_fd = q.log_file_fd /\ r.rtnl_sock = q.rtnl_sock /\ r.rth_fd = q.rth_fd
      /\ r.nfq_handle = q.nfq_handle /\ r.nfq_queue = q.nfq_queue
      /\ r.misused = q.misused /\ r.abandoned = q.abandoned
      /\ r.due = q.due /\ r.tq = q.tq /\ r.rt = q.rt /\ r.fib = q.fib /\ r.pq = q.pq
      /\ r.kq = q.kq /\ r.hand = q.hand /\ r.todo = q.todo
  BY SMTT(30), <1>1, <1>2, CleanedParts
<1>4. Own(r)
  BY <1>3, SameFiles DEF Exiting
<1>5. /\ r.at = "exit" /\ r.rt = {} /\ r.fib = {} /\ r.hand = {} /\ r.todo = {} /\ r.abandoned = {}
      /\ ~ r.misused /\ r.due \subseteq r.tq /\ r.pq \subseteq p.pq /\ r.kq \subseteq p.kq
      /\ r.opt.packets = p.opt.packets
  BY <1>3 DEF Exiting
<1>6. p.cleaned \in 0 .. 7 /\ p.pq \cup p.kq \cup p.hand \cup p.todo \subseteq p.opt.packets
  BY DEF Alive, Held, Process
<1>7. /\ r.pq # {} => r.cleaned < 5
      /\ r.cleaned >= 6 => r.nfq_handle = NoFd
  BY SMTT(30), <1>1, <1>3, <1>6 DEF Exiting
<1>8. Files(r)
  BY <1>4, <1>5 DEF Files, Down
<1>9. Routes(r)
  BY <1>5 DEF Routes
<1>10. Held(r)
  <2>1. r.pq \cup r.kq \cup r.hand \cup r.todo \subseteq r.opt.packets
    BY <1>5, <1>6
  <2>. QED
    BY <1>5, <1>7, <2>1 DEF Held, Down
<1>11. Aging(r)
  BY <1>5 DEF Aging, Down
<1>. QED
  BY <1>3, <1>5, <1>8, <1>9, <1>10, <1>11 DEF Alive

(* What is known at exit() *)
LEMMA AtExit ==
    ASSUME NEW p, Alive(p), p.at = "exit"
    PROVE  /\ p \in Process /\ Own(p) /\ p.hand = {} /\ p.todo = {} /\ p.abandoned = {} /\ ~ p.misused
           /\ p.due \subseteq p.tq /\ p.cleaned \in 0 .. 7 /\ p.fib \subseteq p.rt
           /\ p.cleaned >= 5 => p.pq = {}
           /\ p.cleaned >= 6 => p.nfq_handle = NoFd
           /\ p.cleaned # 0 => p.rt = {} /\ p.fib = {}
           /\ p.rt # {} => p.cleaned = 0 /\ p.atexit /\ p.rtnl_sock # NoFd /\ p.fd[p.rtnl_sock] = "nl"
           /\ p.nfq_handle # NoFd => p.nfq_handle # 0 /\ p.fd[p.nfq_handle] = "nfq"
           /\ p.nfq_queue => p.nfq_handle # NoFd
<1>1. p.at \notin Loop
  BY DEF Loop
<1>2. /\ p \in Process /\ Own(p) /\ p.hand = {} /\ p.todo = {} /\ p.abandoned = {} /\ ~ p.misused
      /\ p.due \subseteq p.tq /\ p.cleaned \in 0 .. 7 /\ p.fib \subseteq p.rt
  BY DEF Alive, Files, Held, Aging, Routes, Process
<1>3. /\ p.rt # {} => p.cleaned = 0 /\ p.atexit /\ p.rtnl_sock # NoFd /\ p.fd[p.rtnl_sock] = "nl"
  BY <1>1 DEF Alive, Routes
<1>4. /\ p.cleaned >= 6 => p.nfq_handle = NoFd
      /\ p.pq # {} => p.cleaned < 5
  BY <1>1 DEF Alive, Held
<1>5. /\ p.nfq_handle # NoFd => p.nfq_handle # 0 /\ p.fd[p.nfq_handle] = "nfq"
      /\ p.nfq_queue => p.nfq_handle # NoFd
  BY <1>2 DEF Own
<1>. QED
  BY SMTT(30), <1>2, <1>3, <1>4, <1>5

LEMMA RoutesGone ==
    ASSUME NEW p, Alive(p), p.at = "exit", p.cleaned = 0, NEW q, q = rt_table_destroy(p)
    PROVE  Exiting(p, q)
<1>. DEFINE E == {}
<1>1. /\ p \in Process /\ Own(p) /\ p.hand = {} /\ p.todo = {} /\ p.abandoned = {} /\ ~ p.misused
      /\ p.due \subseteq p.tq /\ p.fib \subseteq p.rt
      /\ p.rt # {} => p.rtnl_sock # NoFd /\ p.fd[p.rtnl_sock] = "nl"
  BY AtExit
<1>2. E \in SUBSET Dests /\ p.rt \ p.rt = E /\ p.fib \ p.rt = E
  BY <1>1
<1>3. q = nl_send([p EXCEPT !.rt = E], E)
  BY <1>2 DEF rt_table_destroy, rt_table_delete
<1>. HIDE DEF E
<1>4. q = Routed(p, E, E)
  <2>1. CASE p.rtnl_sock # NoFd /\ p.fd[p.rtnl_sock] = "nl"
    BY <1>1, <1>2, <1>3, <2>1, NlSendIs
  <2>2. CASE ~ (p.rtnl_sock # NoFd /\ p.fd[p.rtnl_sock] = "nl")
    <3>1. p.fib = E /\ p.rt = E
      BY <1>1, <1>2, <2>2
    <3>. DEFINE z == [p EXCEPT !.rt = E]
    <3>2. z = [p EXCEPT !.rt = E, !.fib = E] /\ z.rtnl_sock = p.rtnl_sock /\ z.fd = p.fd
      BY <1>1, <3>1 DEF Process
    <3>3. q = nl_send(z, E)
      BY <1>3
    <3>. HIDE DEF z
    <3>4. q = z
      BY <2>2, <3>2, <3>3 DEF nl_send
    <3>. QED
      BY <3>2, <3>4 DEF Routed
  <2>. QED
    BY <2>1, <2>2
<1>5. /\ SameLife(p, q) /\ q \in Process /\ q.at = p.at /\ q.due = p.due /\ q.tq = p.tq
      /\ q.rt = E /\ q.fib = E /\ q.pq = p.pq /\ q.kq = p.kq
      /\ q.hand = p.hand /\ q.todo = p.todo
  BY SMTT(30), <1>1, <1>2, <1>4, RoutedParts
<1>6. /\ q.fd = p.fd /\ q.dev = p.dev /\ q.cb = p.cb /\ q.opt = p.opt
      /\ q.log_file_fd = p.log_file_fd /\ q.rth_fd = p.rth_fd
      /\ q.nfq_handle = p.nfq_handle /\ q.nfq_queue = p.nfq_queue
      /\ q.misused = p.misused /\ q.abandoned = p.abandoned /\ q.cleaned = p.cleaned
  BY <1>5 DEF SameLife
<1>7. Own(q)
  BY <1>1, <1>6, SameFiles
<1>. QED
  BY SMTT(30), <1>1, <1>5, <1>6, <1>7 DEF Exiting, E

(* What closes a descriptor closes none of the queue's. *)
LEMMA StillOwn ==
    ASSUME NEW p \in Process, Own(p), NEW q, Others(p, q),
           \A m \in 0 .. MaxFd : q.fd[m] \in {p.fd[m], Free},
           p.nfq_handle # NoFd => q.fd[p.nfq_handle] = "nfq"
    PROVE  Own(q)
<1>1. /\ q.log_file_fd = p.log_file_fd /\ q.rth_fd = p.rth_fd /\ q.nfq_handle = p.nfq_handle
      /\ q.nfq_queue = p.nfq_queue /\ q.dev = p.dev /\ q.cb = p.cb
      /\ p.log_file_fd \in Fds /\ p.rth_fd \in Fds
  BY DEF Others, Process
<1>2. \A i \in 1 .. Len(p.dev) : p.dev[i].sock \notin {0, NoFd} => q.fd[p.dev[i].sock] \in {"aodv", Free}
  <2>1. ASSUME NEW i \in 1 .. Len(p.dev), p.dev[i].sock \notin {0, NoFd}
        PROVE  q.fd[p.dev[i].sock] \in {"aodv", Free}
    <3>1. p.dev[i].sock \in 0 .. MaxFd /\ p.fd[p.dev[i].sock] \in {"aodv", Free}
      BY <2>1, DevParts DEF Fds, Own
    <3>. QED
      BY <3>1
  <2>. QED
    BY <2>1
<1>3. /\ p.rth_fd \notin {0, NoFd} => q.fd[p.rth_fd] \in {"llf", Free}
      /\ p.log_file_fd # NoFd => q.fd[p.log_file_fd] \in {"log", Free}
  BY <1>1 DEF Own, Fds
<1>. QED
  BY <1>1, <1>2, <1>3 DEF Own

LEMMA ClosingOK ==
    ASSUME NEW p, Alive(p), p.at = "exit", p.cleaned \in {1, 2, 3, 6}, NEW q \in Process, Others(p, q),
           \A m \in 0 .. MaxFd : q.fd[m] \in {p.fd[m], Free},
           p.nfq_handle # NoFd => q.fd[p.nfq_handle] = "nfq"
    PROVE  Exiting(p, q)
<1>1. /\ p \in Process /\ Own(p) /\ p.hand = {} /\ p.todo = {} /\ p.abandoned = {} /\ ~ p.misused
      /\ p.due \subseteq p.tq /\ p.rt = {} /\ p.fib = {}
      /\ p.cleaned = 6 => p.pq = {} /\ p.nfq_handle = NoFd
  BY SMTT(30), AtExit
<1>2. Own(q)
  BY <1>1, StillOwn
<1>3. /\ q.at = p.at /\ q.opt = p.opt /\ q.due = p.due /\ q.tq = p.tq /\ q.rt = p.rt /\ q.fib = p.fib
      /\ q.pq = p.pq /\ q.kq = p.kq /\ q.hand = p.hand /\ q.todo = p.todo /\ q.abandoned = p.abandoned
      /\ q.misused = p.misused /\ q.cleaned = p.cleaned /\ q.nfq_handle = p.nfq_handle
  BY DEF Others
<1>4. (p.cleaned >= 4 => q.pq = {}) /\ (p.cleaned >= 5 => q.nfq_handle = NoFd)
  BY SMTT(30), <1>1, <1>3
<1>. QED
  BY <1>1, <1>2, <1>3, <1>4 DEF Exiting

LEMMA CloseParts ==
    ASSUME NEW p \in Process, NEW n \in Fds, NEW q, q = close(p, n)
    PROVE  /\ q \in Process /\ Others(p, q) /\ q.ret = p.ret
           /\ \A m \in 0 .. MaxFd : q.fd[m] = IF m = n THEN Free ELSE p.fd[m]
<1>1. CASE n \notin 0 .. MaxFd
  BY <1>1 DEF close, Others
<1>2. CASE n \in 0 .. MaxFd
  <2>. DEFINE f == [p.fd EXCEPT ![n] = Free]
  <2>1. f \in [0 .. MaxFd -> Tags] /\ q = With(p, f, p.ret) /\ p.ret \in Fds /\ p.fd \in [0 .. MaxFd -> Tags]
    BY <1>2 DEF close, With, Process, Tags
  <2>2. \A m \in 0 .. MaxFd : f[m] = IF m = n THEN Free ELSE p.fd[m]
    BY <2>1
  <2>. HIDE DEF f
  <2>3. q \in Process /\ q.fd = f /\ q.ret = p.ret /\ Others(p, q)
    BY SMTT(30), <2>1, WithParts
  <2>. QED
    BY <2>2, <2>3
<1>. QED
  BY <1>1, <1>2

LEMMA SocketsGone ==
    ASSUME NEW p, Alive(p), p.at = "exit", p.cleaned = 1, NEW q, q = aodv_socket_cleanup(p)
    PROVE  Exiting(p, q)
<1>. DEFINE C == {p.dev[i].sock : i \in {i \in DOMAIN p.dev : p.dev[i].enabled}}
            f == [n \in 0 .. MaxFd |-> IF n \in C THEN Free ELSE p.fd[n]]
<1>1. /\ p \in Process /\ Own(p) /\ p.nfq_handle \in Fds /\ p.ret \in Fds /\ p.fd \in [0 .. MaxFd -> Tags]
      /\ p.nfq_handle # NoFd => p.nfq_handle # 0 /\ p.fd[p.nfq_handle] = "nfq"
      /\ DOMAIN p.dev = 1 .. Len(p.dev)
  BY SMTT(30), AtExit DEF Process
<1>2. p.nfq_handle # NoFd => p.nfq_handle \notin C
  <2>1. ASSUME NEW i \in 1 .. Len(p.dev), p.dev[i].sock = p.nfq_handle, p.nfq_handle # NoFd PROVE FALSE
    BY <1>1, <2>1 DEF Own, Free
  <2>. QED
    BY <1>1, <2>1
<1>3. q = [p EXCEPT !.fd = f]
  BY DEF aodv_socket_cleanup
<1>. HIDE DEF C
<1>4. f \in [0 .. MaxFd -> Tags]
  BY <1>1 DEF Tags, Free
<1>5. /\ \A m \in 0 .. MaxFd : f[m] \in {p.fd[m], Free}
      /\ p.nfq_handle # NoFd => f[p.nfq_handle] = "nfq"
  BY <1>1, <1>2 DEF Fds
<1>. HIDE DEF f
<1>6. q = With(p, f, p.ret)
  BY <1>1, <1>3 DEF With, Process
<1>7. q \in Process /\ q.fd = f /\ Others(p, q)
  BY SMTT(30), <1>1, <1>4, <1>6, WithParts
<1>. QED
  BY <1>5, <1>7, ClosingOK

(* llf_cleanup(), log_cleanup() and nl_cleanup() *)
LEMMA FileGone ==
    ASSUME NEW p, Alive(p), p.at = "exit", p.cleaned \in {2, 3, 6}, NEW n \in Fds,
           p.cleaned # 6 => n \in {0, NoFd} \/ p.fd[n] \in {"llf", "log", Free},
           NEW q, q = p \/ q = close(p, n)
    PROVE  Exiting(p, q)
<1>1. /\ p \in Process /\ p.nfq_handle \in Fds
      /\ p.nfq_handle # NoFd => p.nfq_handle # 0 /\ p.fd[p.nfq_handle] = "nfq"
      /\ p.cleaned = 6 => p.nfq_handle = NoFd
  BY SMTT(30), AtExit DEF Process
<1>2. CASE q = p
  BY <1>1, <1>2, ClosingOK DEF Others
<1>3. CASE q = close(p, n)
  <2>1. /\ q \in Process /\ Others(p, q)
        /\ \A m \in 0 .. MaxFd : q.fd[m] = IF m = n THEN Free ELSE p.fd[m]
    BY SMTT(30), <1>1, <1>3, CloseParts
  <2>2. p.nfq_handle # NoFd => p.nfq_handle # n /\ p.nfq_handle \in 0 .. MaxFd
    BY <1>1 DEF Fds, Free
  <2>3. p.nfq_handle # NoFd => q.fd[p.nfq_handle] = "nfq"
    BY <1>1, <2>1, <2>2
  <2>4. \A m \in 0 .. MaxFd : q.fd[m] \in {p.fd[m], Free}
    BY <2>1
  <2>. QED
    BY <2>1, <2>3, <2>4, ClosingOK
<1>. QED
  BY <1>2, <1>3

LEMMA PacketsGone ==
    ASSUME NEW p, Alive(p), p.at = "exit", p.cleaned = 4, NEW q, q = packet_queue_destroy(p)
    PROVE  Exiting(p, q)
<1>. DEFINE v == nfqueue_set_packet_verdict(p, p.pq)  E == {}
<1>1. /\ p \in Process /\ Own(p) /\ p.hand = {} /\ p.todo = {} /\ p.abandoned = {} /\ ~ p.misused
      /\ p.due \subseteq p.tq /\ p.rt = {} /\ p.fib = {}
      /\ p.nfq_queue => p.fd[p.nfq_handle] = "nfq"
  BY SMTT(30), AtExit
<1>2. /\ SameLife(p, v) /\ v \in Process /\ v.at = p.at /\ v.due = p.due /\ v.tq = p.tq
      /\ v.rt = p.rt /\ v.fib = p.fib /\ v.pq = p.pq /\ v.kq \subseteq p.kq
      /\ v.hand = p.hand \ p.pq /\ v.todo = p.todo
  BY SMTT(30), <1>1, VerdictIs
<1>3. q = Buffering(v, E) /\ E \in SUBSET Packets /\ E \subseteq p.pq
  BY DEF packet_queue_destroy, Buffering
<1>. HIDE DEF v, E
<1>4. /\ SameLife(v, q) /\ q \in Process /\ q.at = v.at /\ q.due = v.due /\ q.tq = v.tq
      /\ q.rt = v.rt /\ q.fib = v.fib /\ q.pq = E /\ q.kq = v.kq
      /\ q.hand = v.hand /\ q.todo = v.todo
  BY SMTT(30), <1>2, <1>3, BufferParts
<1>5. /\ q.fd = p.fd /\ q.dev = p.dev /\ q.cb = p.cb /\ q.opt = p.opt
      /\ q.log_file_fd = p.log_file_fd /\ q.rth_fd = p.rth_fd
      /\ q.nfq_handle = p.nfq_handle /\ q.nfq_queue = p.nfq_queue
      /\ q.misused = p.misused /\ q.abandoned = p.abandoned /\ q.cleaned = p.cleaned
  BY <1>2, <1>4 DEF SameLife
<1>6. Own(q)
  BY <1>1, <1>5, SameFiles
<1>7. q.hand = {} /\ q.todo = {} /\ q.pq = {} /\ q.kq \subseteq p.kq /\ q.rt = {} /\ q.fib = {}
  BY <1>1, <1>2, <1>4 DEF E
<1>8. q.due \subseteq q.tq /\ q.at = "exit"
  BY <1>1, <1>2, <1>4
<1>. QED
  BY SMTT(30), <1>1, <1>4, <1>5, <1>6, <1>7, <1>8 DEF Exiting

(* The parts of nfqueue_cleanup(): the queue, the handle and the socket *)
Unbound(p) == [p EXCEPT !.nfq_queue = FALSE]

LEMMA UnboundParts ==
    ASSUME NEW p \in Process, NEW q, q = Unbound(p)
    PROVE  /\ q \in Process /\ q.at = p.at /\ q.opt = p.opt /\ q.cleaned = p.cleaned
           /\ q.fd = p.fd /\ q.dev = p.dev /\ q.cb = p.cb /\ ~ q.nfq_queue
           /\ q.log_file_fd = p.log_file_fd /\ q.rth_fd = p.rth_fd /\ q.nfq_handle = p.nfq_handle
           /\ q.misused = p.misused /\ q.abandoned = p.abandoned
           /\ q.due = p.due /\ q.tq = p.tq /\ q.rt = p.rt /\ q.fib = p.fib /\ q.pq = p.pq
           /\ q.kq = p.kq /\ q.hand = p.hand /\ q.todo = p.todo
  BY DEF Process, Unbound

Unhandled(p) == [p EXCEPT !.nfq_handle = NoFd]

LEMMA UnhandledParts ==
    ASSUME NEW p \in Process, NEW q, q = Unhandled(p)
    PROVE  /\ q \in Process /\ q.at = p.at /\ q.opt = p.opt /\ q.cleaned = p.cleaned
           /\ q.fd = p.fd /\ q.dev = p.dev /\ q.cb = p.cb /\ q.nfq_handle = NoFd
           /\ q.log_file_fd = p.log_file_fd /\ q.rth_fd = p.rth_fd /\ q.nfq_queue = p.nfq_queue
           /\ q.misused = p.misused /\ q.abandoned = p.abandoned
           /\ q.due = p.due /\ q.tq = p.tq /\ q.rt = p.rt /\ q.fib = p.fib /\ q.pq = p.pq
           /\ q.kq = p.kq /\ q.hand = p.hand /\ q.todo = p.todo
<1>1. NoFd \in Fds
  BY DEF Fds
<1>. QED
  BY <1>1 DEF Process, Unhandled

Unpolled(p) == [p EXCEPT !.nfq_socket = NoFd]

LEMMA UnpolledParts ==
    ASSUME NEW p \in Process, NEW q, q = Unpolled(p)
    PROVE  /\ q \in Process /\ q.at = p.at /\ q.opt = p.opt /\ q.cleaned = p.cleaned
           /\ q.fd = p.fd /\ q.dev = p.dev /\ q.cb = p.cb /\ q.nfq_handle = p.nfq_handle
           /\ q.log_file_fd = p.log_file_fd /\ q.rth_fd = p.rth_fd /\ q.nfq_queue = p.nfq_queue
           /\ q.misused = p.misused /\ q.abandoned = p.abandoned
           /\ q.due = p.due /\ q.tq = p.tq /\ q.rt = p.rt /\ q.fib = p.fib /\ q.pq = p.pq
           /\ q.kq = p.kq /\ q.hand = p.hand /\ q.todo = p.todo
<1>1. NoFd \in Fds
  BY DEF Fds
<1>. QED
  BY <1>1 DEF Process, Unpolled

(* What these leave alone *)
Sequel(p, q) ==
    /\ q \in Process /\ q.at = p.at /\ q.opt.packets = p.opt.packets /\ q.cleaned = p.cleaned
    /\ q.dev = p.dev /\ q.cb = p.cb /\ q.log_file_fd = p.log_file_fd /\ q.rth_fd = p.rth_fd
    /\ q.misused = p.misused /\ q.abandoned = p.abandoned
    /\ q.due = p.due /\ p.tq \subseteq q.tq /\ q.rt = p.rt /\ q.fib = p.fib /\ q.pq = p.pq
    /\ q.kq \subseteq p.kq /\ q.hand = p.hand /\ q.todo = p.todo
    /\ \A m \in 0 .. MaxFd : q.fd[m] \in {p.fd[m], Free}

LEMMA SequelTwice ==
    ASSUME NEW p, NEW q, NEW r, Sequel(p, q), Sequel(q, r)
    PROVE  Sequel(p, r)
  BY DEF Sequel

LEMMA QueueGone ==
    ASSUME NEW p, Alive(p), p.at = "exit", p.cleaned = 5, NEW s, s = nfqueue_cleanup(p)
    PROVE  Exiting(p, s)
<1>1. /\ p \in Process /\ Own(p) /\ p.hand = {} /\ p.todo = {} /\ p.abandoned = {} /\ ~ p.misused
      /\ p.due \subseteq p.tq /\ p.rt = {} /\ p.fib = {} /\ p.pq = {}
      /\ p.nfq_handle # NoFd => p.fd[p.nfq_handle] = "nfq"
      /\ p.nfq_queue => p.nfq_handle # NoFd
  BY SMTT(30), AtExit
<1>2. PICK q : q = IF p.nfq_queue THEN Unbound(nfq_destroy_queue(p)) ELSE p
  OBVIOUS
<1>3. PICK r : r = IF q.nfq_handle # NoFd THEN Unhandled(nfq_close(q)) ELSE q
  OBVIOUS
<1>4. s = Unpolled(r)
  BY <1>2, <1>3 DEF nfqueue_cleanup, Unbound, Unhandled, Unpolled
<1>5. Sequel(p, q) /\ q.nfq_handle = p.nfq_handle /\ ~ q.nfq_queue /\ q.fd = p.fd
  <2>1. CASE ~ p.nfq_queue
    BY <1>1, <1>2, <2>1 DEF Sequel
  <2>2. CASE p.nfq_queue
    <3>1. PICK y : y = nfq_destroy_queue(p)
      OBVIOUS
    <3>2. /\ y \in Process /\ SameNet(p, y)
          /\ y.fd = p.fd /\ y.cb = p.cb /\ y.opt = p.opt /\ y.at = p.at /\ y.dev = p.dev
          /\ y.log_file_fd = p.log_file_fd /\ y.rth_fd = p.rth_fd
          /\ y.nfq_handle = p.nfq_handle /\ y.kq = {}
      BY SMTT(30), <1>1, <2>2, <3>1, DestroyOK
    <3>3. /\ q \in Process /\ q.at = y.at /\ q.opt = y.opt /\ q.cleaned = y.cleaned
          /\ q.fd = y.fd /\ q.dev = y.dev /\ q.cb = y.cb /\ ~ q.nfq_queue
          /\ q.log_file_fd = y.log_file_fd /\ q.rth_fd = y.rth_fd /\ q.nfq_handle = y.nfq_handle
          /\ q.misused = y.misused /\ q.abandoned = y.abandoned
          /\ q.due = y.due /\ q.tq = y.tq /\ q.rt = y.rt /\ q.fib = y.fib /\ q.pq = y.pq
          /\ q.kq = y.kq /\ q.hand = y.hand /\ q.todo = y.todo
      BY SMTT(30), <1>2, <2>2, <3>1, <3>2, UnboundParts
    <3>. QED
      BY <3>2, <3>3 DEF Sequel, SameNet
  <2>. QED
    BY <2>1, <2>2
<1>6. Sequel(q, r) /\ r.nfq_handle = NoFd /\ ~ r.nfq_queue
  <2>1. CASE q.nfq_handle = NoFd
    BY <1>3, <1>5, <2>1 DEF Sequel
  <2>2. CASE q.nfq_handle # NoFd
    <3>1. q \in Process /\ q.fd[q.nfq_handle] = "nfq" /\ q.nfq_handle \in Fds
      BY <1>1, <1>5, <2>2 DEF Sequel, Process
    <3>2. Use(q) = q
      BY <2>2, <3>1, UseIs
    <3>3. PICK c : c = close(q, q.nfq_handle)
      OBVIOUS
    <3>4. r = Unhandled(c)
      BY <1>3, <2>2, <3>2, <3>3 DEF nfq_close
    <3>5. /\ c \in Process /\ Others(q, c)
          /\ \A m \in 0 .. MaxFd : c.fd[m] = IF m = q.nfq_handle THEN Free ELSE q.fd[m]
      BY SMTT(30), <3>1, <3>3, CloseParts
    <3>6. /\ r \in Process /\ r.at = c.at /\ r.opt = c.opt /\ r.cleaned = c.cleaned
          /\ r.fd = c.fd /\ r.dev = c.dev /\ r.cb = c.cb /\ r.nfq_handle = NoFd
          /\ r.log_file_fd = c.log_file_fd /\ r.rth_fd = c.rth_fd /\ r.nfq_queue = c.nfq_queue
          /\ r.misused = c.misused /\ r.abandoned = c.abandoned
          /\ r.due = c.due /\ r.tq = c.tq /\ r.rt = c.rt /\ r.fib = c.fib /\ r.pq = c.pq
          /\ r.kq = c.kq /\ r.hand = c.hand /\ r.todo = c.todo
      BY SMTT(30), <3>4, <3>5, UnhandledParts
    <3>7. \A m \in 0 .. MaxFd : r.fd[m] \in {q.fd[m], Free}
      BY <3>5, <3>6
    <3>. QED
      BY <1>5, <3>5, <3>6, <3>7 DEF Sequel, Others
  <2>. QED
    BY <2>1, <2>2
<1>7. Sequel(r, s) /\ s.nfq_handle = NoFd /\ ~ s.nfq_queue
  <2>1. r \in Process
    BY <1>6 DEF Sequel
  <2>2. /\ s \in Process /\ s.at = r.at /\ s.opt = r.opt /\ s.cleaned = r.cleaned
        /\ s.fd = r.fd /\ s.dev = r.dev /\ s.cb = r.cb /\ s.nfq_handle = r.nfq_handle
        /\ s.log_file_fd = r.log_file_fd /\ s.rth_fd = r.rth_fd /\ s.nfq_queue = r.nfq_queue
        /\ s.misused = r.misused /\ s.abandoned = r.abandoned
        /\ s.due = r.due /\ s.tq = r.tq /\ s.rt = r.rt /\ s.fib = r.fib /\ s.pq = r.pq
        /\ s.kq = r.kq /\ s.hand = r.hand /\ s.todo = r.todo
    BY <1>4, <2>1, UnpolledParts
  <2>. QED
    BY <1>6, <2>2 DEF Sequel
<1>8. Sequel(p, s)
  BY <1>5, <1>6, <1>7, SequelTwice
<1>9. Own(s)
  <2>1. /\ s.log_file_fd = p.log_file_fd /\ s.rth_fd = p.rth_fd /\ s.dev = p.dev /\ s.cb = p.cb
        /\ \A m \in 0 .. MaxFd : s.fd[m] \in {p.fd[m], Free}
        /\ p.log_file_fd \in Fds /\ p.rth_fd \in Fds
    BY <1>1, <1>8 DEF Sequel, Process
  <2>2. ASSUME NEW i \in 1 .. Len(p.dev), p.dev[i].sock \notin {0, NoFd}
        PROVE  s.fd[p.dev[i].sock] \in {"aodv", Free}
    <3>1. p.dev[i].sock \in 0 .. MaxFd /\ p.fd[p.dev[i].sock] \in {"aodv", Free}
      BY <1>1, <2>2, DevParts DEF Fds, Own
    <3>. QED
      BY <2>1, <3>1
  <2>3. /\ p.rth_fd \notin {0, NoFd} => s.fd[p.rth_fd] \in {"llf", Free}
        /\ p.log_file_fd # NoFd => s.fd[p.log_file_fd] \in {"log", Free}
    BY <1>1, <2>1 DEF Own, Fds
  <2>. QED
    BY <1>1, <1>7, <2>1, <2>2, <2>3 DEF Own
<1>. QED
  BY <1>1, <1>7, <1>8, <1>9 DEF Exiting, Sequel

LEMMA ExitOK == ASSUME Alive(d), exit PROVE Alive(d')
<1>1. d.at = "exit" /\ Len(cleanup) = 7
  BY DEF exit, cleanup
<1>2. d \in Process /\ d.cleaned \in 0 .. 7 /\ Own(d)
  BY <1>1, AtExit
<1>3. CASE d.atexit /\ d.cleaned < 7
  <2>1. PICK q : q = CleanedUp(d, cleanup[d.cleaned + 1]) /\ d' = Counted(q, q.cleaned + 1)
    BY <1>1, <1>3 DEF exit, Counted
  <2>2. Exiting(d, q)
    <3>0. d.log_file_fd \in Fds /\ d.rth_fd \in Fds /\ d.rtnl_sock \in Fds
      BY <1>2 DEF Process
    <3>1. CASE d.cleaned = 0
      <4>1. q = rt_table_destroy(d)
        BY SMTT(30), <2>1, <3>1 DEF CleanedUp, cleanup
      <4>. QED
        BY <1>1, <3>1, <4>1, RoutesGone
    <3>2. CASE d.cleaned = 1
      <4>1. q = aodv_socket_cleanup(d)
        BY SMTT(30), <2>1, <3>2 DEF CleanedUp, cleanup
      <4>. QED
        BY <1>1, <3>2, <4>1, SocketsGone
    <3>3. CASE d.cleaned = 2
      <4>1. q = d \/ q = close(d, d.rth_fd)
        BY SMTT(30), <2>1, <3>3 DEF CleanedUp, cleanup, llf_cleanup
      <4>2. d.rth_fd \in {0, NoFd} \/ d.fd[d.rth_fd] \in {"llf", "log", Free}
        BY <1>2 DEF Own
      <4>. QED
        BY <1>1, <3>0, <3>3, <4>1, <4>2, FileGone
    <3>4. CASE d.cleaned = 3
      <4>1. q = d \/ q = close(d, d.log_file_fd)
        BY SMTT(30), <2>1, <3>4 DEF CleanedUp, cleanup, log_cleanup
      <4>2. d.log_file_fd \in {0, NoFd} \/ d.fd[d.log_file_fd] \in {"llf", "log", Free}
        BY <1>2 DEF Own
      <4>. QED
        BY <1>1, <3>0, <3>4, <4>1, <4>2, FileGone
    <3>5. CASE d.cleaned = 4
      <4>1. q = packet_queue_destroy(d)
        BY SMTT(30), <2>1, <3>5 DEF CleanedUp, cleanup
      <4>. QED
        BY <1>1, <3>5, <4>1, PacketsGone
    <3>6. CASE d.cleaned = 5
      <4>1. q = nfqueue_cleanup(d)
        BY SMTT(30), <2>1, <3>6 DEF CleanedUp, cleanup
      <4>. QED
        BY <1>1, <3>6, <4>1, QueueGone
    <3>7. CASE d.cleaned = 6
      <4>1. q = d \/ q = close(d, d.rtnl_sock)
        BY SMTT(30), <2>1, <3>7 DEF CleanedUp, cleanup, nl_cleanup
      <4>. QED
        BY <1>1, <3>0, <3>7, <4>1, FileGone
    <3>. QED
      BY SMTT(30), <1>2, <1>3, <3>1, <3>2, <3>3, <3>4, <3>5, <3>6, <3>7
  <2>. QED
    BY <1>1, <1>3, <2>1, <2>2, ExitStep
<1>4. CASE ~ (d.atexit /\ d.cleaned < 7)
  <2>1. d' = Goto(d, "ended") /\ "ended" \in Labels
    BY <1>1, <1>4 DEF exit, Labels, Down
  <2>2. /\ d' \in Process /\ d'.at = "ended" /\ d'.fd = d.fd /\ d'.opt = d.opt /\ d'.atexit = d.atexit
        /\ d'.log_file_fd = d.log_file_fd /\ d'.rtnl_sock = d.rtnl_sock
        /\ d'.rth_fd = d.rth_fd /\ d'.nfq_handle = d.nfq_handle /\ d'.nfq_queue = d.nfq_queue
        /\ d'.dev = d.dev /\ d'.cb = d.cb /\ d'.tq = d.tq /\ d'.due = d.due
        /\ d'.rt = d.rt /\ d'.fib = d.fib /\ d'.pq = d.pq /\ d'.kq = d.kq /\ d'.hand = d.hand
        /\ d'.todo = d.todo /\ d'.abandoned = d.abandoned /\ d'.misused = d.misused
        /\ d'.cleaned = d.cleaned
    BY SMTT(30), <1>2, <2>1, GotoParts
  <2>3. d.rt = {} /\ d.fib \subseteq d.rt
    BY SMTT(30), <1>1, <1>4, AtExit
  <2>4. Own(d')
    BY <1>2, <2>2, SameFiles
  <2>5. Files(d')
    BY <2>2, <2>4 DEF Files, Down
  <2>6. Routes(d')
    BY <2>2, <2>3 DEF Routes
  <2>7. Held(d')
    BY <1>1, <2>2 DEF Held, Alive, Down, Loop
  <2>8. Aging(d')
    BY <2>2 DEF Aging, Alive, Down
  <2>. QED
    BY <2>2, <2>5, <2>6, <2>7, <2>8 DEF Alive
<1>. QED
  BY <1>3, <1>4

-----------------------------------------------------------------------------
(* The whole life                                                          *)

(* The facts about finite sets and least numbers. *)
LEMMA CountingHolds == Counting
<1>1. \A S : IsFiniteSet(S) => Cardinality(S) \in Nat
  BY FS_CardinalityType
<1>2. \A S, T : IsFiniteSet(S) /\ T \subseteq S => IsFiniteSet(T)
  BY FS_Subset
<1>3. ASSUME NEW S, NEW x, IsFiniteSet(S)
      PROVE  IsFiniteSet(S \cup {x}) /\ Cardinality(S \cup {x}) <= Cardinality(S) + 1
  BY SMTT(30), <1>1, <1>3, FS_AddElement
<1>4. ASSUME NEW S, NEW T, IsFiniteSet(S), IsFiniteSet(T)
      PROVE  IsFiniteSet(S \cup T) /\ Cardinality(S \cup T) <= Cardinality(S) + Cardinality(T)
  <2>1. IsFiniteSet(S \cap T)
    BY <1>4, FS_Intersection
  <2>2. Cardinality(S) \in Nat /\ Cardinality(T) \in Nat /\ Cardinality(S \cap T) \in Nat
    BY <1>1, <1>4, <2>1
  <2>3. IsFiniteSet(S \cup T) /\ Cardinality(S \cup T) = Cardinality(S) + Cardinality(T) - Cardinality(S \cap T)
    BY <1>4, FS_Union
  <2>. QED
    BY SMTT(30), <2>2, <2>3
<1>5. ASSUME NEW S, NEW T, NEW f, IsFiniteSet(S), IsFiniteSet(T), f \in [S -> T],
             \A x, y \in S : f[x] = f[y] => x = y
      PROVE  Cardinality(S) <= Cardinality(T)
  <2>1. f \in Injection(S, T)
    BY <1>5 DEF Injection, IsInjective
  <2>. QED
    BY <1>5, <2>1, FS_Injection
<1>6. ASSUME NEW n \in Nat PROVE IsFiniteSet(1 .. n) /\ Cardinality(1 .. n) = n
  BY SMTT(30), FS_Interval
<1>7. ASSUME NEW n \in Nat PROVE IsFiniteSet(0 .. n) /\ Cardinality(0 .. n) = n + 1
  BY SMTT(30), FS_Interval
<1>8. ASSUME NEW I \in SUBSET Nat, I # {} PROVE Min(I) \in I /\ \A i \in I : Min(I) <= i
  <2>. DEFINE R == OpToRel(<, Nat)
  <2>1. IsWellFoundedOn(R, Nat)
    BY NatLessThanWellFounded
  <2>2. \A x, y \in Nat : y < x => <<y, x>> \in R
    BY DEF OpToRel
  <2>. HIDE DEF R
  <2>3. PICK x \in I : \A y \in I : ~ (<<y, x>> \in R)
    BY <1>8, <2>1, WFMin
  <2>4. \A j \in I : x \in Nat /\ j \in Nat /\ ~ (j < x)
    BY <2>2, <2>3
  <2>5. \A j \in I : x <= j
    BY SMTT(30), <2>4
  <2>. QED
    BY <2>5 DEF Min
<1>9. IsFiniteSet({}) /\ Cardinality({}) = 0
  BY FS_EmptySet
<1>. HIDE DEF Min
<1>. QED
  BY <1>1, <1>2, <1>3, <1>4, <1>5, <1>6, <1>7, <1>8, <1>9 DEF Counting

LEMMA InitOK == ASSUME Init PROVE Alive(d)
<1>1. PICK o \in Settings :
        d = [at |-> "options", opt |-> o, atexit |-> FALSE, sig |-> FALSE, ret |-> NoFd,
             fd |-> [n \in 0 .. MaxFd |-> CASE n = 0 /\ o.stdin -> "stdin"
                                            [] n = 1 -> "stdout"
                                            [] n = 2 -> "stderr"
                                            [] OTHER -> Free],
             log_file_fd |-> NoFd, log_rt_fd |-> NoFd, rtnl_sock |-> 0, rth_fd |-> 0,
             nfq_handle |-> NoFd, nfq_queue |-> FALSE, nfq_socket |-> NoFd,
             dev |-> <<>>, cb |-> <<>>, tq |-> {}, due |-> {}, rfds |-> {}, worb |-> o.worb,
             rt |-> {}, fib |-> {}, pq |-> {}, kq |-> {}, hand |-> {}, todo |-> {},
             abandoned |-> {}, misused |-> FALSE, back |-> "age", cleaned |-> 0, iw_cached |-> FALSE]
  BY DEF Init
<1>. DEFINE f == [n \in 0 .. MaxFd |-> CASE n = 0 /\ o.stdin -> "stdin"
                                         [] n = 1 -> "stdout"
                                         [] n = 2 -> "stderr"
                                         [] OTHER -> Free]
<1>2. /\ f \in [0 .. MaxFd -> Tags]
      /\ \A n \in 0 .. MaxFd : f[n] \in {"stdin", "stdout", "stderr", Free}
      /\ \A m, n \in 0 .. MaxFd : f[m] = f[n] /\ f[m] # Free => m = n
  <2>1. ASSUME NEW n \in 0 .. MaxFd
        PROVE  /\ f[n] \in {"stdin", "stdout", "stderr", Free}
               /\ f[n] = "stdin" => n = 0
               /\ f[n] = "stdout" => n = 1
               /\ f[n] = "stderr" => n = 2
    <3>1. CASE n = 1
      <4>1. f[n] = "stdout"
        BY SMTT(30), <3>1
      <4>. QED
        BY <3>1, <4>1
    <3>2. CASE n = 2
      <4>1. f[n] = "stderr"
        BY SMTT(30), <3>2
      <4>. QED
        BY <3>2, <4>1
    <3>3. CASE n = 0 /\ o.stdin
      <4>1. f[n] = "stdin"
        BY SMTT(30), <3>3
      <4>. QED
        BY <3>3, <4>1
    <3>4. CASE n \notin {1, 2} /\ ~ (n = 0 /\ o.stdin)
      <4>1. f[n] = Free
        BY <3>4
      <4>. QED
        BY <4>1 DEF Free
    <3>. QED
      BY <3>1, <3>2, <3>3, <3>4
  <2>2. DOMAIN f = 0 .. MaxFd /\ f = [n \in 0 .. MaxFd |-> f[n]]
    BY SMTT(30)
  <2>. HIDE DEF f
  <2>3. f \in [0 .. MaxFd -> Tags]
    <3>1. \A n \in 0 .. MaxFd : f[n] \in Tags
      BY <2>1 DEF Tags
    <3>. QED
      BY <2>2, <3>1
  <2>4. ASSUME NEW m \in 0 .. MaxFd, NEW n \in 0 .. MaxFd, f[m] = f[n], f[m] # Free PROVE m = n
    BY <2>1, <2>4
  <2>. QED
    BY <2>1, <2>3, <2>4
<1>3. /\ o \in Options /\ o.worb \in BOOLEAN /\ NoFd \in Fds /\ 0 \in Fds /\ MaxLeaks \in Nat
      /\ MAX_NR_INTERFACES \in Nat /\ CALLBACK_FUNCS \in Nat
  <2>1. o \in Options
    BY StartAssumption
  <2>2. o.worb \in BOOLEAN
    BY <2>1 DEF Options
  <2>3. NoFd \in Fds /\ 0 \in Fds
    BY SMTT(30), StartAssumption DEF Fds
  <2>. QED
    BY <2>1, <2>2, <2>3, StartAssumption
<1>4. "options" \in Labels /\ "age" \in Loop
  BY DEF Labels, Loop, PreLoop, PreLlf, PreNfq, PreNl, PreIf, PreTimers, PreLog
<1>5. d.fd = f
  BY <1>1
<1>. HIDE DEF f
<1>6. /\ d.at = "options" /\ d.opt = o /\ d.ret = NoFd
      /\ d.log_file_fd = NoFd /\ d.log_rt_fd = NoFd /\ d.rtnl_sock = 0 /\ d.rth_fd = 0
      /\ d.nfq_handle = NoFd /\ ~ d.nfq_queue /\ d.nfq_socket = NoFd
      /\ d.dev = <<>> /\ d.cb = <<>> /\ d.tq = {} /\ d.due = {} /\ d.rfds = {}
      /\ d.rt = {} /\ d.fib = {} /\ d.pq = {} /\ d.kq = {} /\ d.hand = {} /\ d.todo = {}
      /\ d.abandoned = {} /\ ~ d.misused /\ d.cleaned = 0
  BY <1>1
<1>7. d \in Process
  <2>1. d = [at |-> "options", opt |-> o, atexit |-> FALSE, sig |-> FALSE, ret |-> NoFd, fd |-> f,
             log_file_fd |-> NoFd, log_rt_fd |-> NoFd, rtnl_sock |-> 0, rth_fd |-> 0,
             nfq_handle |-> NoFd, nfq_queue |-> FALSE, nfq_socket |-> NoFd,
             dev |-> <<>>, cb |-> <<>>, tq |-> {}, due |-> {}, rfds |-> {}, worb |-> o.worb,
             rt |-> {}, fib |-> {}, pq |-> {}, kq |-> {}, hand |-> {}, todo |-> {},
             abandoned |-> {}, misused |-> FALSE, back |-> "age", cleaned |-> 0, iw_cached |-> FALSE]
    BY <1>1 DEF f
  <2>. QED
    BY SMTT(30), <1>2, <1>3, <1>4, <2>1 DEF Process
<1>8. Leaks(d) = {} /\ Cardinality(Leaks(d)) <= MaxLeaks
  <2>1. Leaks(d) = {}
    BY <1>2, <1>5 DEF Leaks, Free
  <2>2. Cardinality({}) = 0
    BY CountingHolds DEF Counting
  <2>. QED
    BY SMTT(30), <1>3, <2>1, <2>2
<1>9. Len(d.dev) = 0 /\ Len(d.cb) = 0
  BY <1>6
<1>10. Tidy(d)
  BY SMTT(30), <1>2, <1>3, <1>5, <1>6, <1>8, <1>9, CountingHolds DEF Tidy, Singles, Free
<1>11. Watched(d)
  BY SMTT(30), <1>9 DEF Watched
<1>12. Staged(d, "options")
  BY <1>2, <1>5, <1>6, <1>9 DEF Staged, Opened, Free, PreLlf, PreNfq, PreNl, PreIf, PreTimers, PreLog
<1>13. Files(d)
  BY <1>6, <1>10, <1>11, <1>12, StartFiles
<1>14. Routes(d) /\ Held(d) /\ Aging(d)
  BY <1>6 DEF Routes, Held, Aging, Down, PreTimers, PreLog
<1>. QED
  BY <1>6, <1>7, <1>13, <1>14 DEF Alive

(* A packet arrives in the kernel, or a signal, in any state. *)
LEMMA FromOutside ==
    ASSUME NEW p, Alive(p), NEW q \in Process, SameLife(p, q), q.at = p.at, q.due = p.due, q.tq = p.tq,
           q.rt = p.rt, q.fib = p.fib, q.pq = p.pq, q.kq \subseteq p.opt.packets, q.hand = p.hand, q.todo = p.todo
    PROVE  Alive(q)
<1>1. /\ q.fd = p.fd /\ q.dev = p.dev /\ q.cb = p.cb /\ q.opt = p.opt /\ q.atexit = p.atexit
      /\ q.log_file_fd = p.log_file_fd /\ q.rtnl_sock = p.rtnl_sock /\ q.rth_fd = p.rth_fd
      /\ q.nfq_handle = p.nfq_handle /\ q.nfq_queue = p.nfq_queue
      /\ q.misused = p.misused /\ q.abandoned = p.abandoned /\ q.cleaned = p.cleaned
  BY DEF SameLife
<1>2. Files(q)
  <2>1. /\ Tidy(p) => Tidy(q)
        /\ Own(p) => Own(q)
        /\ Watched(p) => Watched(q)
        /\ \A l : Staged(p, l) => Staged(q, l)
    BY <1>1, SameFiles
  <2>. QED
    BY <2>1 DEF Files, Alive
<1>3. Routes(q)
  BY <1>1 DEF Routes, Alive
<1>4. Held(q)
  BY <1>1 DEF Held, Alive
<1>5. Aging(q)
  BY DEF Aging, Alive
<1>. QED
  BY <1>1, <1>2, <1>3, <1>4, <1>5 DEF Alive

Signalled(p) == [p EXCEPT !.sig = TRUE]

LEMMA SignalledParts ==
    ASSUME NEW p \in Process, NEW q, q = Signalled(p)
    PROVE  /\ SameLife(p, q) /\ q \in Process /\ q.at = p.at /\ q.due = p.due /\ q.tq = p.tq
           /\ q.rt = p.rt /\ q.fib = p.fib /\ q.pq = p.pq /\ q.kq = p.kq
           /\ q.hand = p.hand /\ q.todo = p.todo
  BY DEF Process, SameLife, Signalled

LEMMA KillOK == ASSUME Alive(d), Kill PROVE Alive(d')
<1>1. d' = Signalled(d) /\ d \in Process
  BY DEF Kill, Signalled, Alive
<1>2. /\ SameLife(d, d') /\ d' \in Process /\ d'.at = d.at /\ d'.due = d.due /\ d'.tq = d.tq
      /\ d'.rt = d.rt /\ d'.fib = d.fib /\ d'.pq = d.pq /\ d'.kq = d.kq
      /\ d'.hand = d.hand /\ d'.todo = d.todo
  BY <1>1, SignalledParts
<1>3. d'.kq \subseteq d.opt.packets
  BY <1>2 DEF Alive, Held
<1>. QED
  BY <1>2, <1>3, FromOutside

LEMMA ArriveOK == ASSUME Alive(d), Arrive PROVE Alive(d')
<1>1. PICK k \in d.opt.packets \ d.kq : d' = [d EXCEPT !.kq = d.kq \cup {k}]
  BY DEF Arrive
<1>2. d \in Process /\ d.opt.packets \subseteq Packets /\ d.kq \subseteq d.opt.packets
  BY DEF Alive, Process, Options, Packets, Held
<1>3. PICK K \in SUBSET Packets : K \subseteq d.opt.packets /\ d' = [d EXCEPT !.kq = K]
  <2>1. d.kq \cup {k} \in SUBSET Packets /\ d.kq \cup {k} \subseteq d.opt.packets
    BY <1>2
  <2>. QED
    BY <1>1, <2>1
<1>4. /\ SameLife(d, d') /\ d' \in Process /\ d'.at = d.at /\ d'.due = d.due /\ d'.tq = d.tq
      /\ d'.rt = d.rt /\ d'.fib = d.fib /\ d'.pq = d.pq /\ d'.kq = K
      /\ d'.hand = d.hand /\ d'.todo = d.todo
  BY SMTT(30), <1>2, <1>3, KernelQueueParts
<1>. QED
  BY <1>3, <1>4, FromOutside

LEMMA NextAlive == ASSUME Alive(d), [Next]_vars PROVE Alive(d')
<1>1. CASE UNCHANGED d
  BY <1>1
<1>2. CASE Send \/ Clock \/ Ended \/ UNCHANGED vars
  BY <1>1, <1>2 DEF Send, Clock, Ended, vars
<1>3. CASE signal_handler
  <2>1. d.at = "select" /\ d' = Goto(d, "exit")
    BY <1>3 DEF signal_handler, Step
  <2>. QED
    BY <2>1, ToExit DEF Down
<1>4. CASE Daemon
  <2>1. CASE usage \/ options \/ detach \/ log_init \/ packet_queue_init \/ search \/ host_init
    BY <2>1, UsageOK, DetachOK, LogInitOK, PacketQueueInitOK, SearchOK, HostInitOK
  <2>2. CASE get_if_info_fails \/ set_kernel_options \/ nl_init \/ nfqueue_init \/ sockets \/ llf_init \/ timers_set
    BY <2>2, GetIfInfoOK, SetKernelOptionsOK, NlInitOK, NfqueueInitOK, SocketsOK, LlfInitOK, TimersSetOK
  <2>3. CASE timer_age_queue \/ Aged \/ Detached \/ Decided \/ packet_queue_timeout
    BY <2>3, TimerAgeQueueOK, AgedOK, DetachedOK, DecidedOK, PacketQueueTimeoutOK
  <2>4. CASE wait_on_reboot_timeout \/ hello_send \/ print_rt_table \/ pselect \/ nl_rt_callback
    BY <2>4, OtherTimersOK, PselectOK, NlCallbackOK
  <2>5. CASE nfqueue_fd_callback \/ aodv_socket_read \/ llf_callback \/ exit
    BY <2>5, NfqueueCallbackOK, AodvSocketReadOK, LlfCallbackOK, ExitOK
  <2>. QED
    BY <1>4, <2>1, <2>2, <2>3, <2>4, <2>5 DEF Daemon
<1>5. CASE Arrive \/ Kill
  BY <1>5, ArriveOK, KillOK
<1>. QED
  BY <1>2, <1>3, <1>4, <1>5 DEF Next

-----------------------------------------------------------------------------
(* What the rate limit drops                                               *)

(* An array that is full of times within the second counts as many         *)
(* messages.                                                               *)
LEMMA FullWithinSecond ==
    ASSUME NEW c \in 0 .. MaxClock, NEW r, NEW s, Holds(r, s, c),
           Len(r) = RATELIMIT - 1, c - r[1] < SECOND
    PROVE  Cardinality({i \in DOMAIN s : c - s[i] < SECOND}) >= RATELIMIT - 1
<1>. DEFINE R == RATELIMIT - 1  n == Len(s)  I == n - R + 1 .. n
            S == {i \in DOMAIN s : c - s[i] < SECOND}
<1>1. c \in Nat /\ R \in Nat \ {0} /\ SECOND \in Nat /\ MaxClock \in Nat
  BY SMTT(30), RateLimitAssumption
<1>2. s \in Seq(0 .. MaxClock) /\ r \in Seq(0 .. MaxClock) /\ n \in Nat /\ DOMAIN s = 1 .. n /\ R <= n
  BY SMTT(30) DEF Holds
<1>3. \A i \in 1 .. n : s[i] \in Nat
  BY SMTT(30), <1>1, <1>2
<1>4. (\A i \in 1 .. R : r[i] = s[n - R + i]) /\ \A i, j \in 1 .. n : i <= j => s[i] <= s[j]
  BY DEF Holds
<1>. HIDE DEF R, n
<1>5. I \subseteq S
  <2>. SUFFICES ASSUME NEW i \in I PROVE i \in 1 .. n /\ c - s[i] < SECOND
    BY <1>2
  <2>1. i \in 1 .. n /\ n - R + 1 \in 1 .. n /\ n - R + 1 <= i /\ 1 \in 1 .. R
    BY SMTT(30), <1>1, <1>2
  <2>2. s[n - R + 1] <= s[i] /\ r[1] = s[n - R + 1]
    BY <2>1, <1>4
  <2>. QED
    BY SMTT(30), <2>1, <2>2, <1>1, <1>3
<1>6. IsFiniteSet(I) /\ Cardinality(I) = R
  <2>1. n - R + 1 \in Int /\ n \in Int /\ n - R + 1 <= n /\ n - (n - R + 1) + 1 = R
    BY SMTT(30), <1>1, <1>2
  <2>. QED
    BY SMTT(30), <2>1, FS_Interval
<1>7. IsFiniteSet(S)
  <2>1. IsFiniteSet(1 .. n) /\ S \subseteq 1 .. n
    BY SMTT(30), <1>2, FS_Interval
  <2>. QED
    BY <2>1, FS_Subset
<1>8. Cardinality(I) <= Cardinality(S) /\ Cardinality(S) \in Nat
  BY <1>5, <1>7, FS_Subset, FS_CardinalityType
<1>. QED
  BY <1>1, <1>6, <1>8 DEF R

(* aodv_socket_send() drops a message only when RATELIMIT - 1 others of    *)
(* its own kind were sent less than a second ago.                          *)
THEOREM DroppedWhenFull == Spec => []DroppedForOwnKind
<1>1. RateInv => DroppedForOwnKind
  <2>. SUFFICES ASSUME RateInv, fate[2] = "dropped"
                PROVE  Cardinality({i \in DOMAIN sent[fate[1]] :
                                      clock - sent[fate[1]][i] < SECOND}) >= RATELIMIT - 1
    BY DEF DroppedForOwnKind
  <2>1. /\ Holds(ratel[fate[1]], sent[fate[1]], clock) /\ clock \in 0 .. MaxClock
        /\ Len(ratel[fate[1]]) = RATELIMIT - 1 /\ clock - ratel[fate[1]][1] < SECOND
    BY DEF RateInv
  <2>. QED
    BY <2>1, FullWithinSecond
<1>2. QED
  BY <1>1, RateInvariant, PTL

-----------------------------------------------------------------------------
(* The invariant, and what it says                                         *)

(* The inductive invariant of the process, from the options to the end:    *)
(* its descriptors are in order, its routes and packets are where main(),  *)
(* the loop and cleanup() left them, and the garbage collection of the     *)
(* packet buffer keeps the queue of timers alive.                          *)
THEOREM LifeInvariant == Spec => []Alive(d)
<1>1. Init => Alive(d)
  BY InitOK
<1>2. Alive(d) /\ [Next]_vars => Alive(d)'
  BY NextAlive
<1>3. QED
  BY <1>1, <1>2, PTL DEF Spec

(* No descriptor is out of range, and attach_callback_func() never writes  *)
(* beyond callbacks[], for any number of interfaces and any length of that *)
(* array.                                                                  *)
THEOREM DaemonTypes == Spec => []TypeOK
<1>1. RateInv => RateTypeOK
  BY DEF RateInv, RateTypeOK, Holds
<1>2. Alive(d) /\ RateTypeOK => TypeOK
  <2>. SUFFICES ASSUME Alive(d), RateTypeOK PROVE TypeOK
    OBVIOUS
  <2>1. /\ d.fd \in [0 .. MaxFd -> Tags] /\ d.cb \in Seq(Watches) /\ d.tq \in SUBSET Timers
        /\ d.log_file_fd \in Fds /\ d.log_rt_fd \in Fds /\ d.rtnl_sock \in Fds /\ d.rth_fd \in Fds
        /\ d.nfq_handle \in Fds /\ d.nfq_socket \in Fds
    BY DEF Alive, Process
  <2>2. Len(d.cb) <= CALLBACK_FUNCS /\ d.due \subseteq d.tq
    BY DEF Alive, Files, Own, Aging
  <2>3. d.rt \cup d.fib \subseteq d.opt.dests /\ d.pq \cup d.kq \cup d.hand \cup d.todo \subseteq d.opt.packets
    BY DEF Alive, Routes, Held
  <2>. QED
    BY <2>1, <2>2, <2>3 DEF TypeOK, Tags, Watches, Funcs, Timers, Fds
<1>3. QED
  BY <1>1, <1>2, LifeInvariant, RateInvariant, PTL

(* In the main loop each callback reads a descriptor that is open and that *)
(* its own service opened, no two read the same, and none is missing.      *)
THEOREM CallbacksReadTheirOwn == Spec => []EachReadsItsOwn
<1>1. Alive(d) => EachReadsItsOwn
  <2>. SUFFICES ASSUME Alive(d), Looping PROVE EachReadsItsOwn
    BY DEF EachReadsItsOwn
  <2>1. d.at \in Loop
    BY DEF Looping, Loop
  <2>2. d \in Process /\ Tidy(d) /\ Watched(d) /\ Staged(d, d.at)
    BY <2>1, InLoop
  <2>3. DOMAIN d.cb = 1 .. Len(d.cb) /\ DOMAIN d.dev = 1 .. Len(d.dev)
    BY SMTT(30), <2>2 DEF Process
  <2>4. d.at \notin PreNl /\ d.at \notin PreNfq /\ d.at \notin PreNfq \cup {"sockets"}
    BY <2>1 DEF Loop, PreNfq, PreNl, PreIf, PreTimers, PreLog
  <2>5. /\ WatchedFor(d, "nl") /\ WatchedFor(d, "nfq")
        /\ \A i \in 1 .. Len(d.dev) : d.dev[i].enabled => d.dev[i].sock # 0
    BY <2>2, <2>4 DEF Staged
  <2>6. \A i \in DOMAIN d.cb : d.fd[d.cb[i].fd] = d.cb[i].func
    BY <2>2, <2>3 DEF Tidy
  <2>7. \A i, j \in DOMAIN d.cb : d.cb[i].fd = d.cb[j].fd => i = j
    BY <2>2, <2>3 DEF Watched
  <2>8. {"nl", "nfq"} \subseteq {d.cb[i].func : i \in DOMAIN d.cb}
    BY <2>3, <2>5 DEF WatchedFor
  <2>9. \A i \in DOMAIN d.dev : d.dev[i].enabled =>
            \E j \in DOMAIN d.cb : d.cb[j] = [fd |-> d.dev[i].sock, func |-> "aodv"]
    BY <2>2, <2>3, <2>5 DEF Watched
  <2>. QED
    BY <2>6, <2>7, <2>8, <2>9 DEF EachReadsItsOwn
<1>2. QED
  BY <1>1, LifeInvariant, PTL

(* timer_age_queue() never returns NULL to main().                         *)
THEOREM TimersStay == Spec => []TimersNeverRunOut
<1>1. Alive(d) => TimersNeverRunOut
  BY DEF Alive, Process, TimersNeverRunOut, Labels, Loop, Down, PreLoop, PreLlf, PreNfq, PreNl, PreIf,
         PreTimers, PreLog
<1>2. QED
  BY <1>1, LifeInvariant, PTL

(* However exit() is reached, no route of the daemon stays in the kernel   *)
(* and no packet that it had read is left undecided.                       *)
THEOREM EndIsClean == Spec => []EndsClean
<1>1. Alive(d) => EndsClean
  <2>. SUFFICES ASSUME Alive(d), d.at = "ended" PROVE d.fib = {} /\ d.abandoned = {}
    BY DEF EndsClean
  <2>1. d.at \notin Loop
    BY DEF Loop
  <2>. QED
    BY <2>1 DEF Alive, Routes, Held
<1>2. QED
  BY <1>1, LifeInvariant, PTL

(* No call on the queue's handle follows its close, and no line of the log *)
(* goes to a descriptor of someone else.                                   *)
THEOREM HandlesStayLive == Spec => []HandlesLive
<1>1. Alive(d) => HandlesLive
  BY DEF Alive, HandlesLive
<1>2. QED
  BY <1>1, LifeInvariant, PTL
=============================================================================
