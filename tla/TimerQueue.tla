----------------------------- MODULE TimerQueue -----------------------------
(***************************************************************************)
(* The timer queue of the daemon (src/utils/timer_queue.c) and the loop in *)
(* main() that drives it: age the queue, run the handlers of the timers    *)
(* that are due, sleep in pselect(), run the descriptor callbacks, repeat. *)
(*                                                                         *)
(* Instants are integers in microseconds of the source; MS of them make a  *)
(* millisecond (1000 in the code).  Handlers and callbacks are arbitrary:  *)
(* each may set and remove any timers, which is all the queue sees of them.*)
(***************************************************************************)
EXTENDS Integers, Sequences, SequencesExt

CONSTANTS Timer,     \* the struct timer objects of the program
          MS,        \* clock units per millisecond
          Delays,    \* the msec arguments given to timer_set_timeout
          MaxClock,  \* bound: the clock stops here
          MaxSets,   \* bound: calls of timer_set_timeout in a behaviour
          NULL

ASSUME TimerQueueAssumption ==
    /\ MS \in Nat \ {0}
    /\ Delays \subseteq Nat
    /\ MaxClock \in Nat
    /\ MaxSets \in Nat
    /\ NULL \notin Int

VARIABLES clock,    \* gettimeofday()
          TQ,       \* the list of pending timers
          expTQ,    \* the list timer_timeout() moves the due timers to
          timeout,  \* t->timeout
          used,     \* t->used
          now,      \* the instant timer_age_queue() read
          wait,     \* what timer_age_queue() returned
          pc,       \* where the main loop is
          sets      \* calls of timer_set_timeout so far

vars == <<clock, TQ, expTQ, timeout, used, now, wait, pc, sets>>

-----------------------------------------------------------------------------
(* timeval_diff(): the difference of two instants in milliseconds; C's     *)
(* division drops the fraction towards zero.                               *)
timeval_diff(a, b) ==
    IF a >= b THEN (a - b) \div MS ELSE -((b - a) \div MS)

(* The bug of a wrong sign. *)
timeval_sub_msec(t, msec) == t - msec * MS

(* timeval_add_msec() *)
timeval_add_msec(t, msec) == t + msec * MS

(* The least index in I, or n if there is none: a loop over a list that    *)
(* breaks at the first index in I, and otherwise runs off its end.         *)
FirstOr(I, n) == IF I = {} THEN n ELSE CHOOSE i \in I : \A j \in I : i <= j

(* The bug of leaving a timer linked. *)
list_detach_nothing(q, t) == q

(* list_detach(): unlink t from the list q it is on. *)
list_detach(q, t) ==
    IF \E i \in DOMAIN q : q[i] = t
    THEN RemoveAt(q, CHOOSE i \in DOMAIN q : q[i] = t)
    ELSE q

(* The bug of inserting at the tail whatever the expiry. *)
timer_add_tail(q, t, at, to) == Append(q, t)

(* timer_add(): t goes before the first timer that expires later than its  *)
(* expiry `at', as far as timeval_diff can tell, or at the tail.           *)
timer_add(q, t, at, to) ==
    LET later == {i \in DOMAIN q : timeval_diff(at, to[q[i]]) < 0}
    IN  InsertAt(q, FirstOr(later, Len(q) + 1), t)

(* The bugs of leaving what is due in the current millisecond, of taking   *)
(* what is due in the next one, and of not moving on.                      *)
due_late(q, t) ==
    FirstOr({i \in DOMAIN q : timeval_diff(timeout[q[i]], t) >= 0}, Len(q) + 1) - 1
due_early(q, t) ==
    FirstOr({i \in DOMAIN q : timeval_diff(timeout[q[i]], t) > 1}, Len(q) + 1) - 1
due_none(q, t) == 0

(* The scan of timer_timeout(): how many timers at the head of q are due. *)
due(q, t) ==
    FirstOr({i \in DOMAIN q : timeval_diff(timeout[q[i]], t) > 0}, Len(q) + 1) - 1

-----------------------------------------------------------------------------
Init ==
    /\ clock = 0
    /\ TQ = <<>>
    /\ expTQ = <<>>
    /\ timeout = [t \in Timer |-> 0]
    /\ used = [t \in Timer |-> FALSE]
    /\ now = 0
    /\ wait = NULL
    /\ pc = "start"
    /\ sets = 0

(* User code runs: the initialisation in main(), a timer handler or a      *)
(* descriptor callback.                                                    *)
InUserCode == pc \in {"start", "handler", "callback"}

(* timer_set_timeout() *)
timer_set_timeout(t, msec) ==
    LET at == timeval_add_msec(clock, msec)
        q  == IF used[t] THEN list_detach(TQ, t) ELSE TQ
    IN  /\ InUserCode
        /\ sets < MaxSets
        /\ at <= MaxClock
        /\ sets' = sets + 1
        /\ timeout' = [timeout EXCEPT ![t] = at]
        /\ used' = [used EXCEPT ![t] = TRUE]
        /\ TQ' = timer_add(q, t, at, timeout)
        /\ expTQ' = IF used[t] THEN list_detach(expTQ, t) ELSE expTQ
        /\ UNCHANGED <<clock, now, wait, pc>>

(* timer_remove() *)
timer_remove(t) ==
    /\ InUserCode
    /\ used[t]
    /\ TQ' = list_detach(TQ, t)
    /\ expTQ' = list_detach(expTQ, t)
    /\ used' = [used EXCEPT ![t] = FALSE]
    /\ UNCHANGED <<clock, timeout, now, wait, pc, sets>>

(* User code returns: to the loop in main(), or to timer_timeout(), which  *)
(* goes on with the next timer that is due.                                *)
Return ==
    /\ InUserCode
    /\ pc' = IF pc = "handler" THEN "fire" ELSE "age"
    /\ UNCHANGED <<clock, TQ, expTQ, timeout, used, now, wait, sets>>

(* timer_age_queue() up to the handlers: read the clock, and move the      *)
(* timers that are due to expTQ.  An empty queue returns NULL at once.     *)
timer_age_queue ==
    /\ pc = "age"
    /\ now' = clock
    /\ IF TQ = <<>>
       THEN /\ wait' = NULL
            /\ pc' = "select"
            /\ UNCHANGED <<TQ, expTQ>>
       ELSE /\ expTQ' = SubSeq(TQ, 1, due(TQ, clock))
            /\ TQ' = SubSeq(TQ, due(TQ, clock) + 1, Len(TQ))
            /\ pc' = "fire"
            /\ UNCHANGED wait
    /\ UNCHANGED <<clock, timeout, used, sets>>

(* One round of the second loop of timer_timeout(): the head of expTQ      *)
(* leaves the list and its handler starts.                                 *)
timer_timeout ==
    /\ pc = "fire"
    /\ expTQ # <<>>
    /\ expTQ' = Tail(expTQ)
    /\ used' = [used EXCEPT ![Head(expTQ)] = FALSE]
    /\ pc' = "handler"
    /\ UNCHANGED <<clock, TQ, timeout, now, wait, sets>>

(* The bug of taking the last timer for the next one. *)
RemainingOfLast ==
    /\ pc = "fire"
    /\ expTQ = <<>>
    /\ wait' = IF TQ = <<>> THEN NULL ELSE timeout[TQ[Len(TQ)]] - now
    /\ pc' = "select"
    /\ UNCHANGED <<clock, TQ, expTQ, timeout, used, now, sets>>

(* The end of timer_age_queue(): the time left of the first timer. *)
Remaining ==
    /\ pc = "fire"
    /\ expTQ = <<>>
    /\ wait' = IF TQ = <<>> THEN NULL ELSE timeout[Head(TQ)] - now
    /\ pc' = "select"
    /\ UNCHANGED <<clock, TQ, expTQ, timeout, used, now, sets>>

(* pselect() returns, for a ready descriptor or at its timeout. *)
pselect ==
    /\ pc = "select"
    /\ pc' = "callback"
    /\ UNCHANGED <<clock, TQ, expTQ, timeout, used, now, wait, sets>>

(* Time passes, whatever the program does. *)
Tick ==
    /\ clock < MaxClock
    /\ clock' = clock + 1
    /\ UNCHANGED <<TQ, expTQ, timeout, used, now, wait, pc, sets>>

Next ==
    \/ \E t \in Timer, msec \in Delays : timer_set_timeout(t, msec)
    \/ \E t \in Timer : timer_remove(t)
    \/ Return
    \/ timer_age_queue
    \/ timer_timeout
    \/ Remaining
    \/ pselect
    \/ Tick

Spec == Init /\ [][Next]_vars

(* The loop in main() never stops and time goes on. *)
FairSpec ==
    /\ Spec
    /\ WF_vars(Return)
    /\ WF_vars(timer_age_queue)
    /\ WF_vars(timer_timeout)
    /\ WF_vars(Remaining)
    /\ WF_vars(pselect)
    /\ WF_vars(Tick)
-----------------------------------------------------------------------------
(* The variables have their types; no timer expires before time 0. *)
TypeOK ==
    /\ clock \in Nat
    /\ TQ \in Seq(Timer)
    /\ expTQ \in Seq(Timer)
    /\ timeout \in [Timer -> Nat]
    /\ used \in [Timer -> BOOLEAN]
    /\ now \in Nat
    /\ wait \in Int \cup {NULL}
    /\ pc \in {"start", "age", "fire", "handler", "select", "callback"}
    /\ sets \in Nat

(* t is linked into the list q; q links no timer twice; q is ordered to    *)
(* the millisecond by the expiry times to.                                 *)
On(t, q) == \E i \in DOMAIN q : q[i] = t
Once(q) == \A i, j \in DOMAIN q : q[i] = q[j] => i = j
Ordered(q, to) == \A i, j \in DOMAIN q : i < j => to[q[i]] < to[q[j]] + MS

(* A timer is marked used exactly when it is linked into one of the two    *)
(* lists, and it is linked once: handlers that re-arm or remove timers     *)
(* while timer_timeout() still holds some of them in expTQ lose none,      *)
(* duplicate none and leave no stale mark behind.                          *)
UsedIffLinkedOnce ==
    /\ \A t \in Timer : used[t] <=> On(t, TQ) \/ On(t, expTQ)
    /\ \A t \in Timer : ~ (On(t, TQ) /\ On(t, expTQ))
    /\ Once(TQ)
    /\ Once(expTQ)

(* The order timer_add() really keeps: no timer is queued ahead of one     *)
(* that expires a millisecond or more before it.                           *)
OrderedToTheMillisecond == Ordered(TQ, timeout)

(* The scan in timer_timeout() stops at the first timer that is not due.   *)
(* Although the queue is only ordered to the millisecond, no timer whose   *)
(* time has passed is left behind it.                                      *)
NoOverdueTimerLeft ==
    pc \in {"fire", "handler"} =>
        \A t \in Timer : On(t, TQ) => timeout[t] >= now

(* No handler runs a millisecond or more before its time. *)
NeverEarlyByAMillisecond ==
    \A t \in Timer : On(t, expTQ) => timeout[t] < now + MS

(* The time timer_age_queue() lets pselect() sleep is never negative and   *)
(* oversleeps no pending timer by a millisecond or more; it returns NULL   *)
(* only when no timer is pending.                                          *)
SleepCoversQueue ==
    pc = "select" =>
        /\ wait = NULL => TQ = <<>>
        /\ wait # NULL => wait >= 0
        /\ wait # NULL =>
             \A t \in Timer : On(t, TQ) => now + wait < timeout[t] + MS

(* Every timer that is set is dealt with: its handler runs, or user code   *)
(* removes it, however the handlers of other timers disturb the queue.     *)
EveryTimerIsServed == \A t \in Timer : used[t] ~> ~used[t]
=============================================================================
