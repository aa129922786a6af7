------------------------------ MODULE MainLoop ------------------------------
(***************************************************************************)
(* The life of the controller process from the end of its configuration    *)
(* to its end: daemonize_process, the first connection with its retries,   *)
(* the event loop with its reconnections, the signals.                     *)
(*                                                                         *)
(* Signals arrive between any two steps of main.  The broker and           *)
(* libmosquitto are external: the broker goes down, comes back and may     *)
(* refuse connections at any time; mosquitto_loop handles the CONNACK or   *)
(* notices the end of a connection some time after it has happened.        *)
(***************************************************************************)
EXTENDS Integers

CONSTANTS
    Retries,      \* values of config->retry, negative for ever
    MaxAttempts   \* bound: attempts that are counted

ASSUME MainLoopAssumption ==
    /\ Retries \subseteq Int
    /\ MaxAttempts \in Nat
    /\ \A r \in Retries : r < MaxAttempts

VARIABLES
    pc,          \* where main is
    rc,          \* did the last call of the library fail
    retry,       \* config->retry
    sanji_run,
    sanji_dump,
    tables,      \* are the lists of the controller allocated
    link,        \* the connection, as the library knows it
    subscribed,  \* have the topics been subscribed to on this connection
    broker,      \* external: the broker
    wanted,      \* history: config->retry at the start
    attempts,    \* history: calls of mosquitto_connect
    fatal,       \* history: an error that no retry can mend
    quit,        \* history: SIGINT or SIGTERM was caught
    owed         \* history: SIGUSR1 was caught, not in a dump, and no dump
                 \* has begun since

(* groups of variables *)
control == <<rc, retry, sanji_run, tables, link, subscribed>>
signals == <<sanji_dump, quit, owed>>
history == <<wanted, attempts, fatal>>
vars == <<pc, control, signals, broker, history>>

Ended == {"failed", "exited", "killed"}
InLoop == {"loop", "mosquitto_loop", "refresh", "dump", "clear", "test", "reconnect"}

-----------------------------------------------------------------------------
(* Fork twice unless -f was given, then mosquitto_new: the daemon goes on, *)
(* or the process that reports the error ends.                             *)
daemonize_process ==
    /\ pc = "daemonize"
    /\ pc' \in {"connect", "failed"}
    /\ UNCHANGED <<control, signals, broker, history>>

retries_left == IF retry > 0 THEN retry - 1 ELSE retry

(* One round of the connect loop.  Arguments that mosquitto_connect        *)
(* rejects, or errno EINVAL, end the loop.                                 *)
mosquitto_connect ==
    /\ pc = "connect"
    /\ attempts' = IF attempts < MaxAttempts THEN attempts + 1 ELSE attempts
    /\ \/ /\ broker # "down"
          /\ rc' = FALSE
          /\ link' = "connecting"
          /\ pc' = "loop"
          /\ UNCHANGED <<retry, sanji_run, fatal>>
       \/ /\ fatal' \in BOOLEAN
          /\ broker = "down" \/ fatal'
          /\ rc' = TRUE
          /\ retry' = retries_left
          /\ sanji_run' = (sanji_run /\ ~ fatal')
          /\ pc' = "retry"
          /\ UNCHANGED link
    /\ UNCHANGED <<tables, subscribed, signals, broker, wanted>>

(* variant: the condition does not look at sanji_run *)
connect_again_always == retry # 0

(* variant: the loop goes on when no retry is left *)
connect_again_at_zero == sanji_run /\ (retry >= 0 \/ retry < 0)

connect_again == sanji_run /\ (retry > 0 \/ retry < 0)

(* sleep(1) is over: the condition of the connect loop, and the way out. *)
connect_retry ==
    /\ pc = "retry"
    /\ pc' = IF connect_again THEN "connect" ELSE "failed"
    /\ UNCHANGED <<control, signals, broker, history>>

-----------------------------------------------------------------------------
(* The event loop *)

loop_condition ==
    /\ pc = "loop"
    /\ pc' = IF sanji_run THEN "mosquitto_loop" ELSE "cleanup"
    /\ UNCHANGED <<control, signals, broker, history>>

(* variant: only the first connection subscribes *)
connect_callback_once(accepted) ==
    /\ subscribed' = (accepted /\ ~ tables)
    /\ tables' \in {TRUE, tables}
    /\ sanji_run' = (sanji_run /\ tables')

(* The lists are allocated whatever the CONNACK says; when that fails the  *)
(* controller stops.                                                       *)
sanji_connect_callback(accepted) ==
    /\ subscribed' = accepted
    /\ tables' \in {TRUE, tables}
    /\ sanji_run' = (sanji_run /\ tables')

(* Nothing, or messages, which do not matter here. *)
mosquitto_loop_quiet ==
    /\ pc = "mosquitto_loop"
    /\ pc' = "refresh"
    /\ link \in {"connecting", "up", "broken"}
    /\ rc' = FALSE
    /\ UNCHANGED <<retry, sanji_run, tables, link, subscribed, signals, broker, history>>

(* The CONNACK has come. *)
mosquitto_loop_connack ==
    /\ pc = "mosquitto_loop"
    /\ pc' = "refresh"
    /\ link = "connecting" /\ broker # "down"
    /\ sanji_connect_callback(broker = "up")
    /\ link' = IF broker = "up" THEN "up" ELSE "none"
    /\ rc' = (broker # "up")
    /\ UNCHANGED <<retry, signals, broker, history>>

(* There is no connection, or it turns out to be broken. *)
mosquitto_loop_lost ==
    /\ pc = "mosquitto_loop"
    /\ pc' = "refresh"
    /\ link \in {"none", "broken"} \/ (link = "connecting" /\ broker = "down")
    /\ link' = "none"
    /\ rc' = TRUE
    /\ subscribed' = FALSE
    /\ UNCHANGED <<retry, sanji_run, tables, signals, broker, history>>

sanji_refresh_session ==
    /\ pc = "refresh"
    /\ pc' = "dump"
    /\ UNCHANGED <<control, signals, broker, history>>

(* variant: nothing is dumped while the connection is down *)
dump_info_connected ==
    /\ pc = "dump"
    /\ pc' = IF sanji_dump /\ ~ rc THEN "clear" ELSE "test"
    /\ owed' = (owed /\ ~ (sanji_dump /\ ~ rc))
    /\ UNCHANGED <<control, sanji_dump, quit, broker, history>>

sanji_dump_info ==
    /\ pc = "dump"
    /\ pc' = IF sanji_dump THEN "clear" ELSE "test"
    /\ owed' = (owed /\ ~ sanji_dump)
    /\ UNCHANGED <<control, sanji_dump, quit, broker, history>>

(* The dump is written, the flag is cleared. *)
dump_done ==
    /\ pc = "clear"
    /\ pc' = "test"
    /\ sanji_dump' = FALSE
    /\ UNCHANGED <<control, quit, owed, broker, history>>

reconnect_condition ==
    /\ pc = "test"
    /\ pc' = IF sanji_run /\ rc THEN "reconnect" ELSE "loop"
    /\ UNCHANGED <<control, signals, broker, history>>

(* sleep(5) is over.  The result is not looked at: mosquitto_loop fails    *)
(* again when there is no connection.                                      *)
mosquitto_reconnect ==
    /\ pc = "reconnect"
    /\ pc' = "loop"
    /\ link' = IF broker = "down" THEN "none" ELSE "connecting"
    /\ subscribed' = FALSE
    /\ UNCHANGED <<rc, retry, sanji_run, tables, signals, broker, history>>

cleanup ==
    /\ pc = "cleanup"
    /\ pc' = "exited"
    /\ tables' = FALSE
    /\ link' = "none"
    /\ subscribed' = FALSE
    /\ UNCHANGED <<rc, retry, sanji_run, signals, broker, history>>

-----------------------------------------------------------------------------
(* Signals and the broker *)

sanji_signal_quit ==
    /\ pc \notin Ended
    /\ sanji_run' = FALSE
    /\ quit' = TRUE
    /\ UNCHANGED <<pc, rc, retry, tables, link, subscribed, sanji_dump, owed,
                   broker, history>>

sanji_signal_dump ==
    /\ pc \notin Ended
    /\ sanji_dump' = TRUE
    /\ owed' = (owed \/ pc # "clear")
    /\ UNCHANGED <<pc, control, quit, broker, history>>

(* daemonize.c means to ignore SIGHUP and the signals of job control, but  *)
(* does not include signal.h: SIGHUP is not defined there, the calls are   *)
(* not compiled, and the signal keeps its default action.                  *)
hangup ==
    /\ pc \notin Ended
    /\ pc' = "killed"
    /\ UNCHANGED <<control, signals, broker, history>>

broker_changes(b) ==
    /\ pc \notin Ended
    /\ b # broker
    /\ broker' = b
    /\ link' = IF b = "down" /\ link = "up" THEN "broken" ELSE link
    /\ UNCHANGED <<pc, rc, retry, sanji_run, tables, subscribed, signals, history>>

process_over ==
    /\ pc \in Ended
    /\ UNCHANGED vars

Init ==
    /\ pc = "daemonize"
    /\ rc = FALSE
    /\ wanted \in Retries
    /\ retry = wanted
    /\ sanji_run = TRUE
    /\ sanji_dump = FALSE
    /\ tables = FALSE
    /\ link = "none"
    /\ subscribed = FALSE
    /\ broker \in {"down", "refusing", "up"}
    /\ attempts = 0
    /\ fatal = FALSE
    /\ quit = FALSE
    /\ owed = FALSE

main ==
    \/ daemonize_process \/ mosquitto_connect \/ connect_retry
    \/ loop_condition
    \/ mosquitto_loop_quiet \/ mosquitto_loop_connack \/ mosquitto_loop_lost
    \/ sanji_refresh_session \/ sanji_dump_info \/ dump_done
    \/ reconnect_condition \/ mosquitto_reconnect
    \/ cleanup

Next ==
    \/ main
    \/ sanji_signal_quit \/ sanji_signal_dump \/ hangup
    \/ \E b \in {"down", "refusing", "up"} : broker_changes(b)
    \/ process_over

Spec == Init /\ [][Next]_vars

(* The one thread of the process runs on: every call it makes returns (the *)
(* sleeps, and mosquitto_loop after refresh_interval).  A CONNACK that the *)
(* broker sends is read, and a broken connection noticed (keepalive), at   *)
(* the latest by some later call of mosquitto_loop: strong fairness.       *)
Fairness ==
    /\ WF_vars(main)
    /\ SF_vars(mosquitto_loop_connack)
    /\ SF_vars(mosquitto_loop_lost)

FairSpec == Spec /\ Fairness

-----------------------------------------------------------------------------
(* "retry times to mqtt broker. Negative number for try-forever": the      *)
(* controller gives up, when nobody stops it, after exactly so many        *)
(* attempts, after one when none is wanted, and never when it is negative. *)
GivesUpInTime ==
    /\ wanted >= 0 => attempts <= IF wanted = 0 THEN 1 ELSE wanted
    /\ pc = "failed" /\ attempts > 0 /\ ~ quit /\ ~ fatal =>
          wanted >= 0 /\ attempts = IF wanted = 0 THEN 1 ELSE wanted

(* SIGINT or SIGTERM ends the process wherever it is: trying to connect,   *)
(* waiting for a reconnection, or serving.                                 *)
QuitEnds == quit ~> pc \in Ended

(* Once the broker stays up, the controller is connected and subscribed    *)
(* for good, whatever happened before, unless it has ended.                *)
ComesBack ==
    <>[](broker = "up") => <>[](pc \in Ended \cup {"cleanup"} \/ subscribed)

(* "dump component, resource and session if we got SIGUSR1": a signal that *)
(* the event loop catches is followed by a dump that begins after it,      *)
(* unless it comes while a dump is written: the flag is cleared after the  *)
(* dump, and that signal is lost.                                          *)
DumpServed == (owed /\ pc \in InLoop) ~> (~ owed \/ pc \in Ended)
=============================================================================
