--------------------------- MODULE MainLoopProofs ---------------------------
(***************************************************************************)
(* The retries of the first connection for every value of config->retry:   *)
(* the controller gives up in time, and never too early.                   *)
(***************************************************************************)
EXTENDS MainLoop, TLAPS

Allowed == IF wanted = 0 THEN 1 ELSE wanted

Numbers ==
    /\ wanted \in Retries
    /\ retry \in IF wanted < 0 THEN {wanted} ELSE 0 .. wanted
    /\ attempts \in 0 .. MaxAttempts

(* Until the connect loop is left, attempts made and retries left add up   *)
(* to the number wanted, and sanji_run tells whether something other than  *)
(* the retries stops the loop.                                             *)
Counted ==
    wanted >= 0 =>
        /\ attempts <= Allowed
        /\ pc \in {"daemonize", "connect"} =>
              /\ attempts + retry = wanted
              /\ attempts = 0 \/ retry > 0
        /\ pc = "retry" =>
              IF wanted = 0 THEN attempts = 1 /\ retry = 0
              ELSE attempts + retry = wanted

Stopped ==
    /\ pc \in {"daemonize", "connect", "retry"} /\ ~ sanji_run => quit \/ fatal
    /\ pc \in {"daemonize", "connect"} => ~ fatal
    /\ pc = "retry" /\ sanji_run => ~ fatal
    /\ pc = "daemonize" => attempts = 0

GaveUp ==
    pc = "failed" /\ attempts > 0 /\ ~ quit /\ ~ fatal =>
        wanted >= 0 /\ attempts = Allowed

RetryInv == Numbers /\ Counted /\ Stopped /\ GaveUp

(* Nothing is counted at first. *)
LEMMA InitRetry == Init => RetryInv
<1> SUFFICES ASSUME Init PROVE RetryInv
  OBVIOUS
<1>1. Numbers
  BY MainLoopAssumption DEF Init, Numbers
<1>2. wanted \in Int
  BY MainLoopAssumption DEF Init
<1>3. Counted /\ Stopped /\ GaveUp
  BY <1>2 DEF Init, Counted, Stopped, GaveUp, Allowed
<1> QED
  BY <1>1, <1>3 DEF RetryInv

(* A step outside the connect loop leaves the counters alone and does not  *)
(* come back to it.                                                        *)
LEMMA Elsewhere ==
    ASSUME RetryInv, UNCHANGED <<retry, wanted, attempts, fatal>>,
           pc' \notin {"daemonize", "connect", "retry", "failed"}
    PROVE  (Numbers /\ Counted /\ Stopped /\ GaveUp)'
BY DEF RetryInv, Numbers, Counted, Stopped, GaveUp, Allowed

(* A step that keeps the place of main leaves the connect loop as it was,  *)
(* or a signal stops it.                                                   *)
LEMMA SamePlace ==
    ASSUME RetryInv, UNCHANGED <<pc, retry, wanted, attempts, fatal>>,
           UNCHANGED <<sanji_run, quit>> \/ (quit' /\ ~ sanji_run')
    PROVE  (Numbers /\ Counted /\ Stopped /\ GaveUp)'
BY DEF RetryInv, Numbers, Counted, Stopped, GaveUp, Allowed

(* An attempt. *)
LEMMA AttemptCounts == RetryInv /\ mosquitto_connect => (Numbers /\ Counted /\ Stopped /\ GaveUp)'
<1> SUFFICES ASSUME RetryInv, mosquitto_connect PROVE (Numbers /\ Counted /\ Stopped /\ GaveUp)'
  OBVIOUS
<1>1. /\ pc = "connect" /\ pc' \in {"loop", "retry"}
      /\ UNCHANGED <<wanted, quit>>
  BY DEF mosquitto_connect, signals
<1>2. wanted \in Int /\ retry \in Int /\ attempts \in Nat
  BY MainLoopAssumption DEF RetryInv, Numbers
<1>3. wanted >= 0 => attempts' = attempts + 1
  <2>1. wanted >= 0 => attempts < MaxAttempts
    BY <1>1, <1>2, MainLoopAssumption DEF RetryInv, Numbers, Counted
  <2> QED
    BY <2>1 DEF mosquitto_connect
<1>4. wanted >= 0 => attempts' <= Allowed'
  BY <1>1, <1>2, <1>3 DEF RetryInv, Numbers, Counted, Allowed
<1>5. Numbers'
  BY <1>1, <1>2, MainLoopAssumption DEF mosquitto_connect, retries_left, RetryInv, Numbers
<1>6. CASE pc' = "loop"
  BY <1>1, <1>4, <1>6, <1>5 DEF Counted, Stopped, GaveUp
<1>7. CASE pc' = "retry"
  <2>1. retry' = retries_left /\ sanji_run' = (sanji_run /\ ~ fatal')
    BY <1>7 DEF mosquitto_connect
  <2>2. Counted'
    BY <1>1, <1>2, <1>3, <1>4, <1>7, <2>1
    DEF retries_left, RetryInv, Numbers, Counted, Allowed
  <2>3. Stopped' /\ GaveUp'
    BY <1>1, <1>7, <2>1 DEF RetryInv, Stopped, GaveUp
  <2> QED
    BY <1>5, <2>2, <2>3
<1> QED
  BY <1>1, <1>6, <1>7

(* The condition of the connect loop. *)
LEMMA RetryDecides == RetryInv /\ connect_retry => (Numbers /\ Counted /\ Stopped /\ GaveUp)'
<1> SUFFICES ASSUME RetryInv, connect_retry PROVE (Numbers /\ Counted /\ Stopped /\ GaveUp)'
  OBVIOUS
<1>1. /\ pc = "retry" /\ pc' = IF connect_again THEN "connect" ELSE "failed"
      /\ UNCHANGED <<wanted, quit, retry, sanji_run, attempts, fatal>>
  BY DEF connect_retry, control, signals, history
<1>2. wanted \in Int /\ retry \in Int /\ attempts \in Nat
  BY MainLoopAssumption DEF RetryInv, Numbers
<1>3. Numbers' /\ Counted'
  BY <1>1, <1>2 DEF connect_again, RetryInv, Numbers, Counted, Allowed
<1>4. CASE connect_again
  <2>1. pc' = "connect" /\ sanji_run /\ ~ fatal
    BY <1>1, <1>4 DEF connect_again, RetryInv, Stopped
  <2> QED
    BY <1>1, <1>3, <2>1 DEF Stopped, GaveUp
<1>5. CASE ~ connect_again
  BY <1>1, <1>2, <1>3, <1>5 DEF connect_again, RetryInv, Numbers, Counted, Stopped, GaveUp, Allowed
<1> QED
  BY <1>4, <1>5

(* Every step keeps the count. *)
LEMMA NextRetry == RetryInv /\ [Next]_vars => RetryInv'
<1> SUFFICES ASSUME RetryInv, [Next]_vars PROVE (Numbers /\ Counted /\ Stopped /\ GaveUp)'
  BY DEF RetryInv
<1> USE DEF control, signals, history
<1>1. CASE daemonize_process
  BY <1>1 DEF daemonize_process, RetryInv, Numbers, Counted, Stopped, GaveUp, Allowed
<1>2. CASE mosquitto_connect \/ connect_retry
  BY <1>2, AttemptCounts, RetryDecides
<1>3. CASE loop_condition \/ sanji_refresh_session \/ sanji_dump_info \/ dump_done
  BY <1>3, Elsewhere DEF loop_condition, sanji_refresh_session, sanji_dump_info, dump_done
<1>4. CASE mosquitto_loop_quiet \/ mosquitto_loop_connack \/ mosquitto_loop_lost
  BY <1>4, Elsewhere DEF mosquitto_loop_quiet, mosquitto_loop_connack, mosquitto_loop_lost
<1>5. CASE reconnect_condition \/ mosquitto_reconnect \/ cleanup \/ hangup
  BY <1>5, Elsewhere DEF reconnect_condition, mosquitto_reconnect, cleanup, hangup
<1>6. CASE sanji_signal_quit \/ sanji_signal_dump
  BY <1>6, SamePlace DEF sanji_signal_quit, sanji_signal_dump
<1>7. ASSUME NEW b \in {"down", "refusing", "up"}, broker_changes(b)
      PROVE  (Numbers /\ Counted /\ Stopped /\ GaveUp)'
  BY <1>7, SamePlace DEF broker_changes
<1>8. CASE UNCHANGED vars
  BY <1>8, SamePlace DEF vars
<1> QED
  BY <1>1, <1>2, <1>3, <1>4, <1>5, <1>6, <1>7, <1>8 DEF Next, main, process_over

(* For every number of retries: the controller gives up after so many      *)
(* attempts, and when nobody stops it not before.                          *)
THEOREM RetriesCounted == Spec => []GivesUpInTime
<1>1. RetryInv => GivesUpInTime
  BY DEF RetryInv, Counted, GaveUp, GivesUpInTime, Allowed
<1> QED
  BY <1>1, InitRetry, NextRetry, PTL DEF Spec
=============================================================================
