---------------------------- MODULE SessionClock ----------------------------
(***************************************************************************)
(* How long a session really lives.  The main loop calls                   *)
(* sanji_refresh_session after each mosquitto_loop; it reads a clock of    *)
(* whole seconds and takes the seconds since its last call off every       *)
(* session, the ones that started after that call included.  Module        *)
(* Controller has the same step without time.                              *)
(*                                                                         *)
(* Time runs in ticks, Hz of them per second.                              *)
(***************************************************************************)
EXTENDS Integers

CONSTANTS
    Ids,      \* request identifiers
    Ttls,     \* the ttls that components register with
    Hz,       \* ticks per second
    Period,   \* most ticks between two refreshes: refresh_interval, the
              \* handlers, and the pause before a reconnection
    Start,    \* the clock when the process starts, in seconds
    MaxNow    \* bound: the tick at which time stops

ASSUME ClockAssumption ==
    /\ Ttls \subseteq Int
    /\ Hz \in Nat \ {0}
    /\ Period \in Nat \ {0}
    /\ Start \in Nat \ {0}
    /\ MaxNow \in Nat

VARIABLES
    now,        \* real time
    tv_sec,     \* what the monotonic clock shows
    stamp,      \* when the last refresh ran
    last_time,  \* what the clock showed then; 0 before the first refresh
    step,       \* id -> the current step of a session: its ttl, what is left
                \* of it, and when it was sent (history)
    dropped     \* the steps that the last refresh dropped, with their age

vars == <<now, tv_sec, stamp, last_time, step, dropped>>

Step == [ttl : Ttls, left : Int, since : Int]

-----------------------------------------------------------------------------
(* The process starts after the first second of the clock: last_time = 0   *)
(* means that there was no refresh.                                        *)
Init ==
    /\ now = Start * Hz
    /\ tv_sec = Start
    /\ stamp = now
    /\ last_time = 0
    /\ step = [i \in {} |-> Start]
    /\ dropped = {}

(* Time passes in select, in handlers and in sleep, never for longer than  *)
(* Period without a refresh.                                               *)
tick ==
    /\ now < stamp + Period /\ now < MaxNow
    /\ now' = now + 1
    /\ tv_sec' = IF now + 1 = (tv_sec + 1) * Hz THEN tv_sec + 1 ELSE tv_sec
    /\ UNCHANGED <<stamp, last_time, step, dropped>>

(* A session starts, or moves to its next step: the ttls of the step count *)
(* from now.  The first round of the loop handles the answer to CONNECT,   *)
(* so there is a refresh before the first request.                         *)
session_step(i, ttl) ==
    /\ last_time # 0
    /\ step' = [j \in DOMAIN step \cup {i} |->
                  IF j = i THEN [ttl |-> ttl, left |-> ttl, since |-> now]
                  ELSE step[j]]
    /\ dropped' = {}
    /\ UNCHANGED <<now, tv_sec, stamp, last_time>>

session_step_stop(i) ==
    /\ i \in DOMAIN step
    /\ step' = [j \in DOMAIN step \ {i} |-> step[j]]
    /\ dropped' = {}
    /\ UNCHANGED <<now, tv_sec, stamp, last_time>>

Aged(pass_time) ==
    [i \in DOMAIN step |-> [step[i] EXCEPT !.left = @ - pass_time]]

(* variant: without sessions, a refresh returns before it keeps its time *)
refresh_time_kept == IF last_time # 0 /\ DOMAIN step = {} THEN last_time ELSE tv_sec

refresh_time == tv_sec

(* variant: a ttl is used up when it is below zero *)
session_expired_late(s) == s.left < 0

session_expired(s) == s.left <= 0

sanji_refresh_session ==
    LET diff_time == IF last_time = 0 THEN 0 ELSE tv_sec - last_time
        aged == Aged(diff_time)
        gone == {i \in DOMAIN step : diff_time # 0 /\ session_expired(aged[i])}
    IN  /\ step' = [i \in DOMAIN step \ gone |-> aged[i]]
        /\ dropped' = {[ttl |-> step[i].ttl, age |-> now - step[i].since] : i \in gone}
        /\ last_time' = refresh_time
        /\ stamp' = now
        /\ UNCHANGED <<now, tv_sec>>

Next ==
    \/ tick
    \/ \E i \in Ids, ttl \in Ttls : session_step(i, ttl)
    \/ \E i \in Ids : session_step_stop(i)
    \/ sanji_refresh_session

Spec == Init /\ [][Next]_vars

-----------------------------------------------------------------------------
(* A step is never dropped early by more than the time between two         *)
(* refreshes and the second that the clock rounds away: what               *)
(* sanji_refresh_session takes off a step for the time before it was sent  *)
(* is bounded.  (A refresh_interval above the ttl makes this say nothing:  *)
(* such a step may be dropped at once.)                                    *)
NotEarly ==
    \A d \in dropped : d.age + Period > (d.ttl - 1) * Hz

(* The seconds that a step may live; a ttl of zero or less is looked at    *)
(* when the first second has passed.                                       *)
Lifetime(ttl) == IF ttl < 1 THEN 1 ELSE ttl

(* No step outlives its ttl by more than the time between two refreshes:   *)
(* seconds are not lost by rounding at each refresh, however often it      *)
(* runs.                                                                   *)
NotLate ==
    \A i \in DOMAIN step :
        now - step[i].since < Lifetime(step[i].ttl) * Hz + Period

-----------------------------------------------------------------------------
(* The inductive invariant of the proofs. *)

TypeOK ==
    /\ now \in Nat
    /\ tv_sec \in Nat \ {0}
    /\ stamp \in Nat
    /\ last_time \in Nat
    /\ DOMAIN step \subseteq Ids
    /\ step \in [DOMAIN step -> Step]

(* The clock shows the whole seconds of now, and last_time those of the    *)
(* last refresh.                                                           *)
ClockRight ==
    /\ tv_sec * Hz <= now /\ now < (tv_sec + 1) * Hz
    /\ stamp <= now /\ now <= stamp + Period
    /\ last_time # 0 => last_time * Hz <= stamp /\ stamp < (last_time + 1) * Hz
    /\ last_time <= tv_sec

(* What was taken off a step are the seconds that the clock counted from   *)
(* the refresh before the step was sent.                                   *)
Counted(i) == step[i].ttl - step[i].left

StepsRight ==
    \A i \in DOMAIN step :
        /\ last_time # 0
        /\ Counted(i) \in 0 .. last_time
        /\ step[i].left > 0 \/ Counted(i) = 0
        /\ step[i].since <= now
        /\ (last_time - Counted(i)) * Hz <= step[i].since
        /\ step[i].since < (last_time - Counted(i) + 1) * Hz + Period

ClockInvariant == TypeOK /\ ClockRight /\ StepsRight /\ NotEarly
=============================================================================
