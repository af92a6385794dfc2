----------------------------- MODULE MCAodvStart ----------------------------
(***************************************************************************)
(* AodvStart with eight command lines: what each start is there for is in  *)
(* the comment.  At most one has the clock of the rate limit run.          *)
(***************************************************************************)
EXTENDS AodvStart

Plain == [valid |-> TRUE, stdin |-> TRUE, daemonize |-> FALSE, log_to_file |-> FALSE,
          rt_log |-> FALSE, llfeedback |-> FALSE, LLFEEDBACK |-> FALSE, worb |-> TRUE,
          optimized_hellos |-> FALSE, ratelimit |-> FALSE, killed |-> TRUE,
          names |-> <<"wlan0">>,
          dests |-> {"a"}, packets |-> {"k1", "k2"}]

MCSettings == {
    Plain,
    [Plain EXCEPT !.valid = FALSE],
    \* both logs, in the place of standard output and error; three interfaces
    [Plain EXCEPT !.daemonize = TRUE, !.log_to_file = TRUE, !.rt_log = TRUE,
                  !.names = <<"wlan0", "wlan1", "wlan2">>],
    \* one interface too many for the callbacks
    [Plain EXCEPT !.daemonize = TRUE, !.names = <<"wlan0", "wlan1", "wlan2", "wlan3">>],
    \* an interface named twice, no standard input, a log
    [Plain EXCEPT !.stdin = FALSE, !.log_to_file = TRUE, !.names = <<"wlan0", "wlan0">>],
    \* the search for an interface; HELLOs that stop, no wait on reboot
    [Plain EXCEPT !.names = <<>>, !.worb = FALSE, !.optimized_hellos = TRUE],
    \* feedback of the link layer
    [Plain EXCEPT !.llfeedback = TRUE, !.LLFEEDBACK = TRUE, !.worb = FALSE],
    \* the rate limit
    [Plain EXCEPT !.ratelimit = TRUE, !.killed = FALSE, !.worb = FALSE,
                  !.dests = {}, !.packets = {}]}
=============================================================================
